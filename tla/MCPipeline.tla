----------------------------- MODULE MCPipeline -----------------------------
(* The request pipeline with a handful of configurations and requests.     *)
EXTENDS Pipeline

Everything == {"/open/a", "/api", "/health"}
Admin == {"/admin/control", "/admin/status"}
OpenTree == [kind |-> "tree", matched |-> {}, below |-> {"/open/a"}]
ApiGlob == [kind |-> "glob", matched |-> {"/api"}, below |-> {}]
OpenRegex == [kind |-> "regex", matched |-> {"/open/a"}, below |-> {}]
BadRegex == [kind |-> "bad regex", matched |-> {}, below |-> {}]

KeyRule == [hosts |-> {"h"}, paths |-> Everything, header |-> "X-Api-Key"]

Base == [build |-> "flex", include |-> {}, exclude |-> {OpenTree}, admin |-> TRUE,
         enabled |-> {"apikey", "jwt", "ip"}, match |-> {KeyRule}, skipIfJwt |-> TRUE,
         jwt |-> TRUE, apikey |-> TRUE, apiName |-> "X-Api-Key",
         filters |-> {"hd"}, emails |-> {}, mappings |-> {[claim |-> "sub", header |-> "X-Auth-User"],
                                      [claim |-> "email", header |-> "X-Auth-User"]},
         payload |-> {"X-Auth-Service"}, maxBody |-> TRUE, healthPath |-> "/health",
         healthTarget |-> TRUE]

\* Each variant of the base configuration, in both builds.
MCConfigs ==
    UNION {{v, [v EXCEPT !.build = "lite"]} : v \in
       {Base,
        [Base EXCEPT !.admin = FALSE, !.skipIfJwt = FALSE, !.maxBody = FALSE],
        [Base EXCEPT !.enabled = {"ip"}, !.filters = {}, !.emails = {"a@b"}],
        [Base EXCEPT !.enabled = {}, !.jwt = FALSE, !.healthTarget = FALSE],
        [Base EXCEPT !.apikey = FALSE, !.include = {ApiGlob, OpenRegex, BadRegex}],
        [Base EXCEPT !.jwt = FALSE, !.apikey = FALSE, !.match = {}],
        [Base EXCEPT !.apiName = "X-Auth-Key", !.exclude = {}, !.mappings = {}]}}

Plain == [h \in HeaderNames |-> ""]

MCRequests ==
    [path : Everything, method : {"GET"}, host : {"h"}, body : {"none", "declared", "undeclared"},
     scheme : {"none"}, sub : {FALSE}, validity : {401}, passes : {{}}, email : {""},
     claims : {{}}, reachable : {TRUE, FALSE},
     header : {[Plain EXCEPT !["X-Api-Key"] = v, !["X-Auth-User"] = "client",
                             !["X-Auth-Key"] = v] : v \in {"", "client", "secret"}}]
    \cup
    [path : Admin, method : {"GET", "POST"}, host : {"h"}, body : {"none"}, scheme : {"none"},
     sub : {FALSE}, validity : {401}, passes : {{}}, email : {""}, claims : {{}},
     reachable : {TRUE}, header : {[Plain EXCEPT !["X-Api-Key"] = "secret"]}]
    \cup
    [path : {"/api", "/open/a"}, method : {"GET"}, host : {"h", "other"}, body : {"none"},
     scheme : {"Bearer", "bearer"}, sub : BOOLEAN, validity : {200, 401, 502},
     passes : {{}, {"hd"}}, email : {"", "a@b"}, claims : {{}, {"sub", "email"}},
     reachable : {TRUE},
     header : {[Plain EXCEPT !["X-Api-Key"] = v, !["X-Auth-Service"] = "client"] :
                 v \in {"", "secret"}}]
=============================================================================
