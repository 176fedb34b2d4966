-------------------------------- MODULE Oracle --------------------------------
(***************************************************************************)
(* What the fuzzer's checker (runner/src/bin/fuzzer/history.rs) promises,  *)
(* with no timestamps of clients, no check queue to sort and no trimming:  *)
(* it keeps the whole history, and from time to time, when an update is    *)
(* acknowledged, it judges the oldest responses by it.  A judgement        *)
(* stands: no update that comes later may turn it.                         *)
(***************************************************************************)
EXTENDS Naturals

CONSTANT Allowed(_, _)   \* whether a history permits a response

VARIABLES hist,      \* the updates acknowledged so far
          pending,   \* the responses not judged yet
          decided    \* those judged, with the verdict

ovars == <<hist, pending, decided>>

Seen == pending \cup { d.entry : d \in decided }

OracleInit == pending = {} /\ decided = {}

\* One more response has come in.
Arrives(e) == e \notin Seen /\ Seen' = Seen \cup {e}

\* The response of a read waits for its verdict.
Read ==
    /\ \E e \in Seen' : Arrives(e)
    /\ UNCHANGED <<hist, decided>>

\* So does that of an update; then some responses, the oldest, get theirs.
Acknowledge ==
    \E e \in Seen', u \in hist' :
        LET judged == (pending \cup {e}) \ pending'
        IN  /\ Arrives(e)
            /\ hist' = hist \cup {u}
            /\ \A d \in decided : Allowed(hist', d.entry)
            /\ \A x \in judged, y \in pending' : x.ts_resp < y.ts_resp
            /\ decided' = decided \cup
                 { [entry |-> x, ok |-> Allowed(hist', x)] : x \in judged }

\* The first response that is not permitted ends the test.
OracleNext == (\A d \in decided : d.ok) /\ (Read \/ Acknowledge)

OracleSpec == OracleInit /\ [][OracleNext]_ovars
==============================================================================
