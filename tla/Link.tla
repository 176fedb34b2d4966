--------------------------------- MODULE Link ---------------------------------
(***************************************************************************)
(* What a handle to a client process promises its owner, and what the      *)
(* owner keeps to in return: one call at a time, answered by a response to *)
(* that call or never, and no stop while a call is open.  It is the        *)
(* contract between the fuzzer (module Fuzzer, which sees a client process *)
(* as such a link) and runner/src/proc.rs (module ClientProc, which        *)
(* implements it with two channels, a thread and two pipes).               *)
(***************************************************************************)
CONSTANTS Calls, Answers(_)   \* per call, the responses that answer it

VARIABLE link

Idle == [st |-> "idle"]

LinkInit == link = Idle

\* send_call.
MakeCall ==
    /\ link = Idle
    /\ \E call \in Calls : link' = [st |-> "called", call |-> call]

\* The response is there for the owner to take.
Reply ==
    /\ link.st = "called"
    /\ \E resp \in Answers(link.call) : link' = [st |-> "replied", resp |-> resp]

\* No response will come any more.
Break ==
    /\ link.st = "called"
    /\ link' = [st |-> "dead"]

\* wait_resp, when it succeeds.
TakeReply ==
    /\ link.st = "replied"
    /\ link' = Idle

\* stop, when it succeeds.
Stop ==
    /\ link = Idle
    /\ link' = [st |-> "stopped"]

LinkNext == MakeCall \/ Reply \/ Break \/ TakeReply \/ Stop

LinkSpec == LinkInit /\ [][LinkNext]_link
==============================================================================
