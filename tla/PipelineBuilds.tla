--------------------------- MODULE PipelineBuilds ---------------------------
(***************************************************************************)
(* Requests served as in Pipeline, and some of them served again.  The     *)
(* flex build has its chain from its plugins and asks the API-key plugin,  *)
(* the lite build has its own list and its own check (proxy.go lines       *)
(* 117-278 and 417-463).  A request that the flex build has answered may   *)
(* be given to a lite build with the same configuration and the same       *)
(* limiters enabled, where a limiter that was asked before says the same.  *)
(***************************************************************************)
EXTENDS Pipeline

CONSTANT Undecided      \* the request is served for the first time

VARIABLE decided        \* what the flex build decided

bvars == <<vars, decided>>

\* What the proxy itself decides: where the request goes, with which headers
\* set, who counted it and who refused it, and the answer if it goes nowhere.
Decision ==
    [to |-> upstream.to, given |-> {h \in HeaderNames : upstream.header[h] # ""},
     counted |-> asked, refused |-> refusing,
     answer |-> IF upstream.to = "none" /\ ~AdminRouted(cfg, req) THEN status ELSE 0]

BInit == Init /\ decided = Undecided

\* The first time: everything Pipeline does.
First ==
    /\ decided = Undecided
    /\ Next
    /\ UNCHANGED decided

\* Nobody has enabled a limiter since the request came.
Replay ==
    /\ decided = Undecided
    /\ stage = "done" /\ cfg.build = "flex" /\ enabled = since
    /\ decided' = Decision
    /\ cfg' = [cfg EXCEPT !.build = "lite"]
    /\ stage' = "route"
    /\ header' = req.header
    /\ Untouched
    /\ UNCHANGED <<enabled, since, req>>

Again ==
    /\ decided # Undecided
    /\ Serve
    /\ \A l \in (asked' \ asked) \cap decided.counted : l \in refusing' <=> l \in decided.refused
    /\ UNCHANGED decided

\* Both have answered.
Finish ==
    /\ decided # Undecided
    /\ stage = "done"
    /\ cfg' = [cfg EXCEPT !.build = "flex"]
    /\ stage' = "idle"
    /\ since' = {}
    /\ req' = NoRequest
    /\ header' = Blank
    /\ Untouched
    /\ decided' = Undecided
    /\ UNCHANGED enabled

BNext == First \/ Replay \/ Again \/ Finish

BSpec == BInit /\ [][BNext]_bvars

-----------------------------------------------------------------------------
(***************************************************************************)
(* Both builds decide alike: a request that one of them sends on, the      *)
(* other sends to the same place with the same headers set, and one that   *)
(* is refused gets the same answer; the same limiters counted it on the    *)
(* way, though the chains are laid out twice and the API key is checked in *)
(* two places (proxy.go lines 178-187, 272-277 and 417-463).               *)
(***************************************************************************)
BuildsAgree == stage = "done" /\ decided # Undecided => Decision = decided
=============================================================================
