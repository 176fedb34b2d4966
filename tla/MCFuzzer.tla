------------------------------- MODULE MCFuzzer -------------------------------
(***************************************************************************)
(* Instances of Fuzzer for TLC.  The client processes may answer a call    *)
(* with any response of the call's own kind and key.                       *)
(***************************************************************************)
EXTENDS FuzzerRefines, TLC

\* One key shared by all clients (the fuzzer's --conflict option).
MCSharedPool == [c \in Clients |-> Keys]

\* The entries of a Scan response: out of range, out of order or twice, too.
MCEntries == UNION { [1..n -> Entry] : n \in 0..2 }

MCReplies(call) ==
    CASE call.op \in {"Put", "Delete"} -> [op : {call.op}, key : {call.key}, found : BOOLEAN]
      [] call.op \in {"Swap", "Get"} -> [op : {call.op}, key : {call.key}, value : OptValues]
      [] OTHER -> [op : {"Scan"}, key_start : {call.key_start}, key_end : {call.key_end},
                   entries : MCEntries]

\* A client process that may also stop unasked, or answer a Get nobody asked.
MCUnrulyReplies(call) ==
    MCReplies(call) \cup [op : {"Stop"}] \cup [op : {"Get"}, key : Keys, value : OptValues]

MCSymmetry == Permutations(Clients) \cup Permutations(Values)
==============================================================================
