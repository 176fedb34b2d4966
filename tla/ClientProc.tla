------------------------------ MODULE ClientProc ------------------------------
(***************************************************************************)
(* A client process behind its handle (ClientProc of runner/src/proc.rs):  *)
(* the thread that owns the handle, the driver thread spawned for it, two  *)
(* channels between them, and the child process on the other end of the    *)
(* driver's pipes, which carry the text of module Wire line by line.       *)
(*                                                                         *)
(* The owner makes its calls one at a time and gives up at the first       *)
(* error.  Then it stops the client in any case, as the feeder of the      *)
(* bencher does (bencher/ycsb.rs), or drops the handle, as the fuzzer does *)
(* with an error or a failed check (fuzzer/main.rs).                       *)
(*                                                                         *)
(* The child reads calls and prints responses like the reference client;   *)
(* what it answers is up to the program behind it (Answers).  It may also  *)
(* print a line that is no answer, hang, or die at any point.              *)
(***************************************************************************)
EXTENDS Wire

CONSTANTS Calls,       \* the calls of the workload
          Answers(_),  \* per call, the responses the client may give
          MaxCalls,    \* length of the workload
          Wide         \* whether the client may print more than one space

ASSUME CallsAssumption == MaxCalls \in Nat /\ Wide \in BOOLEAN

(***************************************************************************)
(* The calls and answers are those of the interface, in segments that are  *)
(* not taken for its own words: no value is null, and no listing has the   *)
(* entry that reads as its end.  The workloads keep to that: the keys and  *)
(* values of the fuzzer have 8 and 16 characters (fuzzer/main.rs), more    *)
(* than these words, and those of the bencher each have an underscore in   *)
(* them (parse_ycsb_key and parse_ycsb_value of bencher/ycsb.rs).          *)
(***************************************************************************)
ASSUME WorkloadAssumption ==
    /\ Calls \subseteq WireCall
    /\ \A c \in Calls : \A resp \in Answers(c) : resp \in WireResp /\ Plain(resp)

VARIABLES
    owner,      \* "ready", "waiting", "ended", "stop_wait" or "returned"
    sent,       \* calls made so far, STOP not counted
    call,       \* the last of them
    got,        \* its response, as far as the owner has seen one
    call_ch,    \* calls sent to the driver thread
    resp_ch,    \* responses sent by it
    driver,     \* "recv", "reading" or "exited"
    part,       \* the listing it has read in part
    stdin,      \* lines written to the child and not read by it
    stdout,     \* lines printed by the child and not read by the driver
    child,      \* "up", "exited" or "killed"
    out,        \* lines the child is about to print
    stopped,    \* what stop() returned: "none" before, then "ok" or "err"
    served,     \* ghost: lines the child has read
    said        \* ghost: its response to the last of them

ovars == <<owner, sent, call, got, stopped>>
cvars == <<stdin, child, out, served, said>>
vars == <<ovars, call_ch, resp_ch, driver, part, stdout, cvars>>

Stop == [op |-> "Stop"]    \* both the call and its confirmation
Garbage == Line(<<"?">>)   \* a line that does not parse

Init ==
    /\ owner = "ready" /\ sent = 0 /\ call = Stop /\ got = {} /\ stopped = "none"
    /\ call_ch = <<>> /\ resp_ch = <<>> /\ driver = "recv" /\ part = {}
    /\ stdin = <<>> /\ stdout = <<>> /\ child = "up" /\ out = <<>>
    /\ served = 0 /\ said = Stop

------------------------------------------------------------------------------
\* Mutant: one call more than the workload has.
SendCall_OneMore ==
    /\ owner = "ready"
    /\ sent <= MaxCalls
    /\ sent' = sent + 1
    /\ call' \in Calls
    /\ got' = {}
    /\ owner' = "waiting" /\ call_ch' = Append(call_ch, call')
    /\ UNCHANGED <<resp_ch, driver, part, stdout, cvars, stopped>>

\* The owner.  A send fails once the driver thread dropped its receiver.
SendCall ==
    /\ owner = "ready"
    /\ sent < MaxCalls
    /\ sent' = sent + 1
    /\ call' \in Calls
    /\ got' = {}
    /\ IF driver = "exited"
       THEN owner' = "ended" /\ UNCHANGED call_ch
       ELSE owner' = "waiting" /\ call_ch' = Append(call_ch, call')
    /\ UNCHANGED <<resp_ch, driver, part, stdout, cvars, stopped>>

WaitResp ==
    /\ owner = "waiting"
    /\ resp_ch # <<>>
    /\ got' = {Head(resp_ch)}
    /\ resp_ch' = Tail(resp_ch)
    /\ owner' = "ready"
    /\ UNCHANGED <<sent, call, call_ch, driver, part, stdout, cvars, stopped>>

\* Mutant: the call that timed out is skipped and the workload goes on.
WaitErr_GoOn ==
    /\ owner = "waiting"
    /\ resp_ch = <<>>
    /\ owner' = "ready"
    /\ UNCHANGED <<sent, call, got, call_ch, resp_ch, driver, part, stdout, cvars, stopped>>

\* recv_timeout: nothing came in time, or the driver thread is gone.
WaitErr ==
    /\ owner = "waiting"
    /\ resp_ch = <<>>
    /\ owner' = "ended"
    /\ UNCHANGED <<sent, call, got, call_ch, resp_ch, driver, part, stdout, cvars, stopped>>

\* The workload is over, or has a line that makes no sense.
EndWorkload ==
    /\ owner = "ready"
    /\ owner' = "ended"
    /\ UNCHANGED <<sent, call, got, call_ch, resp_ch, driver, part, stdout, cvars, stopped>>

\* The fuzzer returns without stopping its clients: the handle is dropped, which
\* closes the channels but neither stops nor kills the child.
Drop ==
    /\ owner = "ended"
    /\ owner' = "returned"
    /\ UNCHANGED <<sent, call, got, call_ch, resp_ch, driver, part, stdout, cvars, stopped>>

------------------------------------------------------------------------------
\* Mutant: any response counts as the confirmation.
StopResp_Any ==
    /\ owner = "stop_wait"
    /\ resp_ch # <<>>
    /\ got' = {Head(resp_ch)}
    /\ resp_ch' = Tail(resp_ch)
    /\ owner' = "returned"
    /\ stopped' = "ok" /\ child' = "killed" /\ out' = <<>>
    /\ UNCHANGED <<sent, call, call_ch, driver, part, stdin, stdout, served, said>>

\* Mutant: the confirmation is waited for again.
StopTimeout_Retry ==
    /\ owner = "stop_wait"
    /\ resp_ch = <<>>
    /\ UNCHANGED vars

(***************************************************************************)
(* stop(), in its two halves: STOP is sent, then a response awaited for    *)
(* ten seconds.  Only the confirmation lets it reach the kill.  It         *)
(* consumes the handle: the owner's ends of the channels are dropped.      *)
(***************************************************************************)
StopSend ==
    /\ owner = "ended"
    /\ IF driver = "exited"
       THEN owner' = "returned" /\ stopped' = "err" /\ UNCHANGED call_ch
       ELSE owner' = "stop_wait" /\ call_ch' = Append(call_ch, Stop) /\ UNCHANGED stopped
    /\ UNCHANGED <<sent, call, got, resp_ch, driver, part, stdout, cvars>>

StopResp ==
    /\ owner = "stop_wait"
    /\ resp_ch # <<>>
    /\ got' = {Head(resp_ch)}
    /\ resp_ch' = Tail(resp_ch)
    /\ owner' = "returned"
    /\ IF Head(resp_ch) = Stop
       THEN stopped' = "ok" /\ child' = "killed" /\ out' = <<>>
       ELSE stopped' = "err" /\ UNCHANGED <<child, out>>
    /\ UNCHANGED <<sent, call, call_ch, driver, part, stdin, stdout, served, said>>

StopTimeout ==
    /\ owner = "stop_wait"
    /\ resp_ch = <<>>
    /\ owner' = "returned"
    /\ stopped' = "err"
    /\ UNCHANGED <<sent, call, got, call_ch, resp_ch, driver, part, stdout, cvars>>

------------------------------------------------------------------------------
\* Mutant: the next call is received without reading the response first.
DriverWrite_NoRead ==
    /\ driver = "recv"
    /\ call_ch # <<>>
    /\ call_ch' = Tail(call_ch)
    /\ stdin' = Append(stdin, into_write(Head(call_ch)))
    /\ UNCHANGED <<ovars, resp_ch, driver, part, stdout, child, out, served, said>>

\* Mutant: a failed receive is tried again.
DriverHangup_Retry ==
    /\ driver = "recv"
    /\ call_ch = <<>>
    /\ owner = "returned"
    /\ UNCHANGED vars

(***************************************************************************)
(* The driver thread: one iteration is a receive and a write, then a read  *)
(* and a send.  Any error ends it.                                         *)
(***************************************************************************)
DriverWrite ==
    /\ driver = "recv"
    /\ call_ch # <<>>
    /\ call_ch' = Tail(call_ch)
    /\ IF child = "up"
       THEN driver' = "reading" /\ stdin' = Append(stdin, into_write(Head(call_ch)))
       ELSE driver' = "exited" /\ UNCHANGED stdin
    /\ UNCHANGED <<ovars, resp_ch, part, stdout, child, out, served, said>>

\* recv fails when the owner's sender is dropped and the channel drained.
DriverHangup ==
    /\ driver = "recv"
    /\ call_ch = <<>>
    /\ owner = "returned"
    /\ driver' = "exited"
    /\ UNCHANGED <<ovars, call_ch, resp_ch, part, stdout, cvars>>

\* from_read takes the next line.  It blocks while there is none, and reads on
\* for ever once there will be none.
Taken == from_read(Head(stdout), part)

TakeLine ==
    /\ driver = "reading"
    /\ stdout # <<>>
    /\ stdout' = Tail(stdout)
    /\ part' = Taken.part
    /\ UNCHANGED <<ovars, call_ch, cvars>>

\* The line begins a listing or goes on with it.
DriverReadOn ==
    /\ TakeLine
    /\ Taken.part # {}
    /\ UNCHANGED <<driver, resp_ch>>

\* The line completes a response, which is passed on while there is an owner.
DriverRead ==
    /\ TakeLine
    /\ IF owner = "returned"
       THEN Taken.resp # {} /\ driver' = "exited" /\ UNCHANGED resp_ch
       ELSE \E resp \in Taken.resp : driver' = "recv" /\ resp_ch' = Append(resp_ch, resp)

DriverReadErr ==
    /\ TakeLine
    /\ Taken.resp = {} /\ Taken.part = {}
    /\ driver' = "exited"
    /\ UNCHANGED resp_ch

------------------------------------------------------------------------------
\* The child reads a call and makes up its answer; it gives up at a line that
\* is no call.
ChildRead ==
    /\ child = "up" /\ out = <<>>
    /\ stdin # <<>>
    /\ stdin' = Tail(stdin)
    /\ served' = served + 1
    /\ LET calls == parse_input_call(Head(stdin))
       IN  IF calls = {}
           THEN child' = "exited" /\ UNCHANGED <<out, said>>
           ELSE /\ \E c \in calls : said' \in IF c = Stop THEN {Stop} ELSE Answers(c)
                /\ out' = write_response(said')
                /\ UNCHANGED child
    /\ UNCHANGED <<ovars, call_ch, resp_ch, driver, part, stdout>>

\* It prints the next line, spaced out or not, or something that is no answer.
Printable(line) ==
    {line, Garbage} \cup (IF Wide THEN {Widened(line)} ELSE {})

\* After the confirmation of a STOP it exits.
ChildPrint ==
    /\ child = "up"
    /\ out # <<>>
    /\ \E line \in Printable(Head(out)) : stdout' = Append(stdout, line)
    /\ out' = Tail(out)
    /\ child' = IF said = Stop THEN "exited" ELSE "up"
    /\ UNCHANGED <<ovars, call_ch, resp_ch, driver, part, stdin, served, said>>

ChildDies ==
    /\ child = "up"
    /\ child' = "exited"
    /\ out' = <<>>
    /\ UNCHANGED <<ovars, call_ch, resp_ch, driver, part, stdin, stdout, served, said>>

\* The owner is done; what is left of the driver and the child may be stuck.
Returned == owner = "returned" /\ UNCHANGED vars

OwnerStep == SendCall \/ WaitResp \/ WaitErr \/ EndWorkload \/ Drop
               \/ StopSend \/ StopResp \/ StopTimeout
DriverStep == DriverWrite \/ DriverHangup \/ DriverReadOn \/ DriverRead \/ DriverReadErr
ChildStep == ChildRead \/ ChildPrint \/ ChildDies

Next == OwnerStep \/ DriverStep \/ ChildStep \/ Returned

\* Threads are scheduled and timeouts expire; the child may hang for ever.
Spec == Init /\ [][Next]_vars /\ WF_vars(OwnerStep) /\ WF_vars(DriverStep)

------------------------------------------------------------------------------
\* The states of the three actors and the length of what is between them.
TypeOK ==
    /\ owner \in {"ready", "waiting", "ended", "stop_wait", "returned"}
    /\ sent \in 0..MaxCalls
    /\ call \in Calls \cup {Stop}
    /\ \A i \in DOMAIN call_ch : call_ch[i] \in Calls \cup {Stop}
    /\ driver \in {"recv", "reading", "exited"}
    /\ \A p \in part : p.op = "Scan"
    /\ child \in {"up", "exited", "killed"}
    /\ stopped \in {"none", "ok", "err"}
    /\ served \in 0..(sent + 1)

(***************************************************************************)
(* A response is never credited to another call, and it arrives as the     *)
(* client gave it: when wait_resp returns to its caller, the response is   *)
(* what the client said to the call just made, although the late response  *)
(* of a call that timed out may still be under way.                        *)
(***************************************************************************)
ResponseMatchesCall ==
    owner = "ready" /\ sent > 0 => got = {said} /\ served = sent

IsPrefixOf(s, t) == Len(s) <= Len(t) /\ \A i \in DOMAIN s : s[i] = t[i]

(***************************************************************************)
(* What write_response prints, from_read reads: a listing read in part is  *)
(* the beginning of the one the client is giving, and when the client has  *)
(* printed all of its answer the driver is not left reading for more.      *)
(* "All spaces are regular spaces and the number of them does not matter"  *)
(* (README.md).                                                            *)
(***************************************************************************)
ReadBack ==
    /\ \A p \in part : IsPrefixOf(p.entries, said.entries)
    /\ driver = "reading" /\ child = "up" /\ stdin = <<>> /\ out = <<>> => stdout # <<>>

(***************************************************************************)
(* stop() succeeds only on the client's own confirmation, with every call  *)
(* answered: nothing is left in the pipes or the channels for anyone, the  *)
(* child is dead and the driver has nothing more to read.                  *)
(***************************************************************************)
CleanStop ==
    stopped = "ok" =>
      /\ child = "killed"
      /\ call_ch = <<>> /\ resp_ch = <<>> /\ stdin = <<>> /\ stdout = <<>>
      /\ driver # "reading"

(***************************************************************************)
(* At most one request is with the child at any time, and nothing of its   *)
(* answer is left over when the driver turns to the next; the two channels *)
(* never hold more than a call being timed out on and the STOP after it.   *)
(***************************************************************************)
OneInFlight ==
    /\ Len(call_ch) + Len(resp_ch) <= 2
    /\ Len(stdin) <= 1
    /\ driver = "recv" => stdin = <<>> /\ stdout = <<>> /\ out = <<>> /\ part = {}

(***************************************************************************)
(* The handle as its owner sees it: the link of module Link.               *)
(***************************************************************************)
LinkView ==
    IF stopped = "ok" THEN [st |-> "stopped"]
    ELSE IF sent = 0 \/ got # {} THEN [st |-> "idle"]
    ELSE IF resp_ch # <<>> THEN [st |-> "replied", resp |-> Head(resp_ch)]
    ELSE IF driver = "exited" THEN [st |-> "dead"]
    ELSE [st |-> "called", call |-> call]

Contract == INSTANCE Link WITH link <- LinkView

(***************************************************************************)
(* Channels, thread and pipes implement the link that the fuzzer relies    *)
(* on: send_call, wait_resp and stop, whatever happens in between, take it *)
(* only through the steps of module Link.                                  *)
(***************************************************************************)
ImplementsLink == Contract!LinkSpec

\* The owner always gets to return: stop() returns whatever the child does.
OwnerReturns == <>(owner = "returned")

\* After a clean stop the driver thread ends: no thread is left behind.
DriverEnds == (stopped = "ok") ~> (driver = "exited")
==============================================================================
