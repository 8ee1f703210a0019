----------------------------- MODULE MCKeyCache -----------------------------
(* Token validation with two goroutines and one key id, for TLC.           *)
EXTENDS KeyCache

CONSTANTS kid1, p1, p2

RsaKey == [kty |-> "RSA", form |-> "ok", n |-> 1]
NextKey == [kty |-> "EC", form |-> "ok", n |-> 2]
BrokenKey == [kty |-> "RSA", form |-> "undecodable", n |-> 3]

Lasting == [faults |-> {}, exp |-> {}, nbf |-> {1}, kid |-> kid1, alg |-> "RS",
            signedBy |-> RsaKey]
Expiring == [Lasting EXCEPT !.exp = {1}]
Malformed == [Lasting EXCEPT !.faults = {"issuer"}, !.nbf = {MaxTime}]

MCJwks == {RsaKey, NextKey, BrokenKey}
MCTokens == {Lasting, Expiring, Malformed}
=============================================================================
