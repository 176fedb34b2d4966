--------------------------------- MODULE Wire ---------------------------------
(***************************************************************************)
(* The text of the stdin/out workload interface: what the runner writes    *)
(* and reads (runner/src/ioapi.rs) and what a client process in the manner *)
(* of the reference client reads and writes (refcli/src/main.rs).          *)
(*                                                                         *)
(* A line is the sequence of its whitespace-separated segments, and        *)
(* whether all of them are one space apart: only the test for the end of a *)
(* Scan can tell.  Keys and values are segments like any other, so they    *)
(* are strings here.  Both readers skip blank lines, which are left out.   *)
(* Calls and responses are the records of module KvApi, with a Stop among  *)
(* the calls.                                                              *)
(***************************************************************************)
EXTENDS Naturals, Sequences

CONSTANT Null    \* the None of an Option<String>

Keyword == [Put |-> "PUT", Swap |-> "SWAP", Get |-> "GET", Scan |-> "SCAN",
            Delete |-> "DELETE", Stop |-> "STOP"]

OpOf(word) == CHOOSE op \in DOMAIN Keyword : Keyword[op] = word

Line(segs) == [segs |-> segs, one_space |-> TRUE]

\* A line of a client that puts more spaces between the segments.
Widened(line) == [line EXCEPT !.one_space = Len(line.segs) = 1]

------------------------------------------------------------------------------
\* KvCall::into_write.
into_write(call) ==
    CASE call.op \in {"Put", "Swap"}   -> Line(<<Keyword[call.op], call.key, call.value>>)
      [] call.op \in {"Get", "Delete"} -> Line(<<Keyword[call.op], call.key>>)
      [] call.op = "Scan"              -> Line(<<"SCAN", call.key_start, call.key_end>>)
      [] call.op = "Stop"              -> Line(<<"STOP">>)

\* parse_input_call, as the set of at most one call; further segments of the
\* line are ignored.
parse_input_call(line) ==
    LET s == line.segs
    IN  CASE s[1] \in {"PUT", "SWAP"} /\ Len(s) >= 3 ->
               {[op |-> OpOf(s[1]), key |-> s[2], value |-> s[3]]}
          [] s[1] \in {"GET", "DELETE"} /\ Len(s) >= 2 ->
               {[op |-> OpOf(s[1]), key |-> s[2]]}
          [] s[1] = "SCAN" /\ Len(s) >= 3 ->
               {[op |-> "Scan", key_start |-> s[2], key_end |-> s[3]]}
          [] s[1] = "STOP" -> {[op |-> "Stop"]}
          [] OTHER -> {}

------------------------------------------------------------------------------
\* The calls and the responses, with segments for their keys and values.
WireCall ==
    [op : {"Put", "Swap"}, key : STRING, value : STRING]
      \cup [op : {"Get", "Delete"}, key : STRING]
      \cup [op : {"Scan"}, key_start : STRING, key_end : STRING]

WireResp ==
    [op : {"Put", "Delete"}, key : STRING, found : BOOLEAN]
      \cup [op : {"Swap", "Get"}, key : STRING, value : {Null} \cup STRING]
      \cup [op : {"Scan"}, key_start : STRING, key_end : STRING,
           entries : Seq([key : STRING, value : STRING])]

\* A response without the words that from_read has a meaning of its own for.
Plain(resp) ==
    /\ resp.op \in {"Swap", "Get"} => resp.value # "null"
    /\ resp.op = "Scan" =>
         \A n \in DOMAIN resp.entries :
             ~(resp.entries[n].key = "SCAN" /\ resp.entries[n].value = "END")

------------------------------------------------------------------------------
Found(found) == IF found THEN "found" ELSE "not_found"
Optional(value) == IF value = Null THEN "null" ELSE value

\* Mutant: no end is printed when there is nothing to list.
Listing_NoEnd(resp) ==
    <<Line(<<"SCAN", resp.key_start, resp.key_end, "BEGIN">>)>>
      \o [n \in DOMAIN resp.entries |-> Line(<<resp.entries[n].key, resp.entries[n].value>>)]
      \o (IF resp.entries = <<>> THEN <<>> ELSE <<Line(<<"SCAN", "END">>)>>)

Listing(resp) ==
    <<Line(<<"SCAN", resp.key_start, resp.key_end, "BEGIN">>)>>
      \o [n \in DOMAIN resp.entries |-> Line(<<resp.entries[n].key, resp.entries[n].value>>)]
      \o <<Line(<<"SCAN", "END">>)>>

\* write_response: one line, but for the listing of a Scan.
write_response(resp) ==
    CASE resp.op \in {"Put", "Delete"} ->
           <<Line(<<Keyword[resp.op], resp.key, Found(resp.found)>>)>>
      [] resp.op \in {"Swap", "Get"} ->
           <<Line(<<Keyword[resp.op], resp.key, Optional(resp.value)>>)>>
      [] resp.op = "Scan" -> Listing(resp)
      [] resp.op = "Stop" -> <<Line(<<"STOP">>)>>

(***************************************************************************)
(* KvResp::from_read.  It reads one line, and goes on to read lines if     *)
(* that is the first of a listing.  part is the listing read so far, as a  *)
(* set of at most one response; the result is the response, if complete,   *)
(* the listing if not, or neither if the line does not parse.              *)
(***************************************************************************)
Reading(resps, part) == [resp |-> resps, part |-> part]

\* Its first line; of a Put or a Delete only "found" and "not_found" will do.
ReadFirst(s) ==
    CASE s[1] \in {"PUT", "DELETE"} /\ Len(s) >= 3 ->
           Reading([op : {OpOf(s[1])}, key : {s[2]},
                    found : { f \in BOOLEAN : Found(f) = s[3] }], {})
      [] s[1] \in {"SWAP", "GET"} /\ Len(s) >= 3 ->
           Reading({[op |-> OpOf(s[1]), key |-> s[2],
                     value |-> IF s[3] = "null" THEN Null ELSE s[3]]}, {})
      [] s[1] = "SCAN" /\ Len(s) >= 4 /\ s[4] = "BEGIN" ->
           Reading({}, {[op |-> "Scan", key_start |-> s[2], key_end |-> s[3],
                         entries |-> <<>>]})
      [] s[1] = "STOP" -> Reading({[op |-> "Stop"]}, {})
      [] OTHER -> Reading({}, {})

\* A line within a listing; its end is recognised by its text.
ReadEntry(line, listing) ==
    IF line = Line(<<"SCAN", "END">>) THEN Reading({listing}, {})
    ELSE IF Len(line.segs) >= 2
         THEN Reading({}, {[listing EXCEPT !.entries =
                              Append(@, [key |-> line.segs[1], value |-> line.segs[2]])]})
         ELSE Reading({}, {})

from_read(line, part) ==
    IF part = {} THEN ReadFirst(line.segs)
    ELSE ReadEntry(line, CHOOSE listing \in part : TRUE)
==============================================================================
