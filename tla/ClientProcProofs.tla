--------------------------- MODULE ClientProcProofs ----------------------------
(***************************************************************************)
(* What module ClientProc promises the owner of a client process, for any  *)
(* workload and any answers of the interface: the types, at most one       *)
(* request with the child, every response credited to its call, a clean    *)
(* stop, and that the handle implements the link of module Link.           *)
(*                                                                         *)
(* ProcInv follows a request from the call channel through the driver, the *)
(* pipe, the child and the pipe back to the response channel: which of     *)
(* them holds what (Channels, Replied), how many lines the child has read  *)
(* (Counted), and which lines of the answer are under way (Pipes).         *)
(***************************************************************************)
EXTENDS ClientProc, SequenceTheorems, TLAPS

\* The lines the pipes carry.  Words are strings too, but no prover knows it.
Words == {"PUT", "SWAP", "GET", "SCAN", "DELETE", "STOP", "BEGIN", "END", "found",
          "not_found", "null", "?"}
Segments == STRING \cup Words
Lines == [segs : Seq(Segments), one_space : BOOLEAN]

Requests == Calls \cup {Stop}

\* What the client may answer to a request.
AnswersTo(req) == IF req = Stop THEN {Stop} ELSE Answers(req)

\* The owner's last call is not answered, as far as the owner has seen.
Open == sent > 0 /\ got = {}

\* The owner has got to stopping the client, or to dropping it.
Stopping == owner \in {"stop_wait", "returned"}

\* The request the driver is at while it reads.
Serving == IF Open /\ resp_ch = <<>> THEN call ELSE Stop

\* What is in the call channel: the open call before the driver has taken it,
\* and STOP after it.
Channels ==
    /\ Open => call \in Calls
    /\ IF Open /\ resp_ch = <<>> /\ driver = "recv"
       THEN call_ch \in {<<call>>, <<call, Stop>>}
       ELSE call_ch \in {<<>>, <<Stop>>}
    /\ ~Stopping => call_ch \in {<<>>, <<call>>} /\ (~Open => call_ch = <<>>)
    /\ driver = "reading" /\ Serving = Stop => call_ch = <<>> /\ Stopping
    /\ driver = "exited" => (Open /\ resp_ch = <<>>) \/ Stopping
    /\ owner = "ready" => ~Open
    /\ owner = "waiting" => Open
    /\ owner # "returned" => stopped = "none"

\* What is in the response channel: an answer to the open call, and the
\* confirmation of the STOP when nothing else is left to come.
Replied ==
    \/ resp_ch = <<>>
    \/ Open /\ \E resp \in Answers(call) : resp_ch = <<resp>>
    \/ /\ call_ch = <<>> /\ Stopping
       /\ driver = "recv" \/ (driver = "exited" /\ owner = "returned")
       /\ \/ ~Open /\ resp_ch = <<Stop>>
          \/ Open /\ \E resp \in Answers(call) : resp_ch = <<resp, Stop>>

\* The child has read no more than what was sent, and just that while the owner
\* goes on; then the response that waits is the child's last.
Counted ==
    /\ served \in Nat
    /\ served + Len(stdin) + Len(call_ch) <= IF Stopping THEN sent + 1 ELSE sent
    /\ ~Stopping /\ driver # "exited" => served + Len(stdin) + Len(call_ch) = sent
    /\ ~Stopping /\ resp_ch # <<>> => resp_ch[1] = said

\* The listing as far as the first n entries.
Upto(resp, n) == [op |-> "Scan", key_start |-> resp.key_start, key_end |-> resp.key_end,
                  entries |-> [i \in 1..n |-> resp.entries[i]]]

\* What from_read has made of so many lines of an answer, before its last.
ReadSoFar(resp, pos, parts) ==
    IF pos = 0 THEN parts = {}
    ELSE /\ resp.op = "Scan" /\ pos <= Len(resp.entries) + 1
         /\ parts = {Upto(resp, pos - 1)}

\* The lines after these are in the pipe, as printed, and about to be printed.
UnderWay(pos) ==
    LET lines == write_response(said)
    IN  /\ pos + Len(stdout) <= Len(lines)
        /\ \A i \in 1..Len(stdout) : stdout[i] \in Printable(lines[pos + i])
        /\ child = "up" => /\ Len(out) = Len(lines) - (pos + Len(stdout))
                           /\ \A i \in 1..Len(out) : out[i] = lines[pos + Len(stdout) + i]
        /\ child # "up" => out = <<>>

\* The end of the listing was not recognised, for its spaces: see ReadBack.
Overrun ==
    /\ Wide /\ stdout = <<>> /\ out = <<>>
    /\ \E p : part = {p} /\ p.op = "Scan"

\* The child has the request: it is being answered.
Answering ==
    /\ said \in AnswersTo(Serving)
    /\ Overrun \/ \E pos \in Nat : ReadSoFar(said, pos, part) /\ UnderWay(pos)

\* What is in the pipes.
Pipes ==
    /\ stdin = <<>> \/ \E req \in Requests : stdin = <<into_write(req)>>
    /\ driver # "reading" => part = {}
    /\ driver = "recv" => stdin = <<>> /\ stdout = <<>> /\ out = <<>>
    /\ driver = "reading" /\ stdin # <<>> =>
         stdin = <<into_write(Serving)>> /\ stdout = <<>> /\ out = <<>> /\ part = {}
    /\ driver = "reading" /\ stdin = <<>> => Answering

\* The states of the actors, and that the pipes and channels are sequences.
Types ==
    /\ owner \in {"ready", "waiting", "ended", "stop_wait", "returned"}
    /\ sent \in 0..MaxCalls
    /\ call \in Requests
    /\ driver \in {"recv", "reading", "exited"}
    /\ child \in {"up", "exited", "killed"}
    /\ stopped \in {"none", "ok", "err"}
    /\ stdin \in Seq(Lines) /\ stdout \in Seq(Lines) /\ out \in Seq(Lines)

ProcInv ==
    /\ Types /\ Channels /\ Replied /\ Counted /\ Pipes
    /\ CleanStop /\ ResponseMatchesCall

------------------------------------------------------------------------------
(***************************************************************************)
(* The text: a call is parsed as it was written, and the lines of an       *)
(* answer take from_read from one partial listing to the next.             *)
(***************************************************************************)
\* The keywords are told apart.
LEMMA Keywords ==
    /\ OpOf("PUT") = "Put" /\ OpOf("SWAP") = "Swap" /\ OpOf("GET") = "Get"
    /\ OpOf("DELETE") = "Delete"
<1>1. DOMAIN Keyword = {"Put", "Swap", "Get", "Scan", "Delete", "Stop"}
    BY DEF Keyword
<1>2. /\ Keyword["Put"] = "PUT" /\ Keyword["Swap"] = "SWAP" /\ Keyword["Get"] = "GET"
      /\ Keyword["Scan"] = "SCAN" /\ Keyword["Delete"] = "DELETE"
      /\ Keyword["Stop"] = "STOP"
    BY DEF Keyword
<1> QED
    BY <1>1, <1>2 DEF OpOf

\* The segments of a line.
LEMMA LineOf ==
    ASSUME NEW segs \in Seq(Segments)
    PROVE  Line(segs) \in Lines /\ Line(segs).segs = segs
BY DEF Line, Lines

\* Lines of one segment to four.
LEMMA Line1 ==
    ASSUME NEW a \in Segments
    PROVE  LET segs == <<a>>
           IN  /\ Line(segs) \in Lines /\ Line(segs).segs = segs
               /\ Len(segs) = 1 /\ segs[1] = a
<1>1. \A S : a \in S => <<a>> \in Seq(S)
    OBVIOUS
<1>2. Len(<<a>>) = 1
    OBVIOUS
<1> QED
    BY <1>1, <1>2, LineOf

LEMMA Line2 ==
    ASSUME NEW a \in Segments, NEW b \in Segments
    PROVE  LET segs == <<a, b>>
           IN  /\ Line(segs) \in Lines /\ Line(segs).segs = segs
               /\ Len(segs) = 2 /\ segs[1] = a /\ segs[2] = b
<1>1. \A S : a \in S /\ b \in S => <<a, b>> \in Seq(S)
    OBVIOUS
<1>2. Len(<<a, b>>) = 2
    OBVIOUS
<1> QED
    BY <1>1, <1>2, LineOf

LEMMA Line3 ==
    ASSUME NEW a \in Segments, NEW b \in Segments, NEW c \in Segments
    PROVE  LET segs == <<a, b, c>>
           IN  /\ Line(segs) \in Lines /\ Line(segs).segs = segs
               /\ Len(segs) = 3 /\ segs[1] = a /\ segs[2] = b /\ segs[3] = c
<1>1. \A S : a \in S /\ b \in S /\ c \in S => <<a, b, c>> \in Seq(S)
    OBVIOUS
<1>2. Len(<<a, b, c>>) = 3
    OBVIOUS
<1> QED
    BY <1>1, <1>2, LineOf

LEMMA Line4 ==
    ASSUME NEW a \in Segments, NEW b \in Segments, NEW c \in Segments, NEW d \in Segments
    PROVE  LET segs == <<a, b, c, d>>
           IN  /\ Line(segs) \in Lines /\ Line(segs).segs = segs
               /\ Len(segs) = 4 /\ segs[1] = a /\ segs[2] = b /\ segs[3] = c /\ segs[4] = d
<1>1. \A S : a \in S /\ b \in S /\ c \in S /\ d \in S => <<a, b, c, d>> \in Seq(S)
    OBVIOUS
<1>2. Len(<<a, b, c, d>>) = 4
    OBVIOUS
<1>3. <<a, b, c, d>> \in Seq(Segments)
    BY <1>1
<1>4. Line(<<a, b, c, d>>) \in Lines /\ Line(<<a, b, c, d>>).segs = <<a, b, c, d>>
    BY <1>3, LineOf
<1>5. LET segs == <<a, b, c, d>> IN segs[1] = a /\ segs[2] = b /\ segs[3] = c /\ segs[4] = d
    OBVIOUS
<1> QED
    BY <1>2, <1>4, <1>5

\* parse_input_call reads what into_write wrote.
LEMMA CallParsed ==
    ASSUME NEW req \in Requests
    PROVE  into_write(req) \in Lines /\ parse_input_call(into_write(req)) = {req}
<1>1. CASE req \in [op : {"Put", "Swap"}, key : STRING, value : STRING]
  <2>1. into_write(req) = Line(<<Keyword[req.op], req.key, req.value>>)
      BY <1>1 DEF into_write
  <2>2. Keyword[req.op] \in {"PUT", "SWAP"} /\ OpOf(Keyword[req.op]) = req.op
      BY <1>1, Keywords DEF Keyword
  <2>3. req = [op |-> req.op, key |-> req.key, value |-> req.value]
      BY <1>1
  <2>4. Keyword[req.op] \in Segments /\ req.key \in Segments /\ req.value \in Segments
      BY <1>1, <2>2 DEF Segments, Words
  <2>5. parse_input_call(into_write(req))
          = {[op |-> OpOf(Keyword[req.op]), key |-> req.key, value |-> req.value]}
    <3> DEFINE segs == into_write(req).segs
    <3>1. Len(segs) = 3 /\ segs[1] = Keyword[req.op] /\ segs[2] = req.key /\ segs[3] = req.value
        BY <2>1, <2>4, Line3
    <3> QED
        BY <2>2, <3>1 DEF parse_input_call
  <2> QED
      BY <2>1, <2>2, <2>3, <2>4, <2>5, Line3
<1>2. CASE req \in [op : {"Get", "Delete"}, key : STRING]
  <2>1. into_write(req) = Line(<<Keyword[req.op], req.key>>)
      BY <1>2 DEF into_write
  <2>2. Keyword[req.op] \in {"GET", "DELETE"} /\ OpOf(Keyword[req.op]) = req.op
      BY <1>2, Keywords DEF Keyword
  <2>3. req = [op |-> req.op, key |-> req.key]
      BY <1>2
  <2>4. Keyword[req.op] \in Segments /\ req.key \in Segments
      BY <1>2, <2>2 DEF Segments, Words
  <2>5. parse_input_call(into_write(req)) = {[op |-> OpOf(Keyword[req.op]), key |-> req.key]}
      BY <2>1, <2>2, <2>4, Line2 DEF parse_input_call
  <2> QED
      BY <2>1, <2>2, <2>3, <2>4, <2>5, Line2
<1>3. CASE req \in [op : {"Scan"}, key_start : STRING, key_end : STRING]
  <2>1. into_write(req) = Line(<<"SCAN", req.key_start, req.key_end>>)
      BY <1>3 DEF into_write
  <2>2. "SCAN" \in Segments /\ req.key_start \in Segments /\ req.key_end \in Segments
      BY <1>3 DEF Segments, Words
  <2>3. parse_input_call(into_write(req))
          = {[op |-> "Scan", key_start |-> req.key_start, key_end |-> req.key_end]}
      BY <2>1, <2>2, Line3 DEF parse_input_call
  <2> QED
      BY <1>3, <2>1, <2>2, <2>3, Line3
<1>4. CASE req = Stop
  <2>1. into_write(req) = Line(<<"STOP">>) /\ "STOP" \in Segments
      BY <1>4 DEF Stop, into_write, Segments, Words
  <2>2. parse_input_call(into_write(req)) = {[op |-> "Stop"]}
      BY <2>1, Line1 DEF parse_input_call
  <2> QED
      BY <1>4, <2>1, <2>2, Line1 DEF Stop
<1> QED
    BY <1>1, <1>2, <1>3, <1>4, WorkloadAssumption DEF Requests, WireCall

\* The answers the proofs are about.
Answer == { resp \in WireResp : Plain(resp) } \cup {Stop}

\* What the client answers is in the text's reach.
LEMMA AnswersKnown ==
    ASSUME NEW req \in Requests, NEW resp \in AnswersTo(req)
    PROVE  resp \in Answer /\ (req # Stop => resp # Stop)
<1>1. \A r \in WireResp : r # Stop
  <2>1. \A r \in WireResp : r.op \in {"Put", "Delete", "Swap", "Get", "Scan"}
      BY DEF WireResp
  <2> QED
      BY <2>1 DEF Stop
<1> QED
    BY <1>1, WorkloadAssumption DEF Requests, AnswersTo, Answer

\* The three forms of an answer.
LEMMA AnswerForms ==
    ASSUME NEW resp \in Answer
    PROVE  \/ resp \in [op : {"Put", "Delete"}, key : STRING, found : BOOLEAN]
           \/ resp \in [op : {"Swap", "Get"}, key : STRING, value : {Null} \cup STRING]
              /\ resp.value # "null"
           \/ /\ resp \in [op : {"Scan"}, key_start : STRING, key_end : STRING,
                           entries : Seq([key : STRING, value : STRING])]
              /\ Plain(resp)
           \/ resp = Stop
BY DEF Answer, WireResp, Plain

\* Spaces change no segment, and what is printed is a line.
LEMMA PrintsLine ==
    ASSUME NEW line \in Lines, NEW printed \in Printable(line)
    PROVE  /\ printed \in Lines
           /\ printed = Garbage \/ printed.segs = line.segs
           /\ ~Wide => printed \in {line, Garbage}
<1>1. Garbage \in Lines
    BY Line1 DEF Garbage, Segments, Words
<1>2. Widened(line) \in Lines /\ Widened(line).segs = line.segs
    BY DEF Widened, Lines
<1> QED
    BY <1>1, <1>2 DEF Printable

\* The line that is no answer stops from_read.
LEMMA GarbageRead ==
    ASSUME NEW p
    PROVE  /\ from_read(Garbage, {}) = Reading({}, {})
           /\ from_read(Garbage, {p}) = Reading({}, {})
<1>1. Garbage.segs = <<"?">> /\ Len(Garbage.segs) = 1 /\ Garbage.segs[1] = "?"
    BY Line1 DEF Garbage, Segments, Words
<1>2. from_read(Garbage, {}) = Reading({}, {})
    BY <1>1 DEF from_read, ReadFirst
<1>3. Garbage # Line(<<"SCAN", "END">>)
    BY <1>1, Line2 DEF Segments, Words
<1>4. from_read(Garbage, {p}) = Reading({}, {})
  <2>1. \A q : ReadEntry(Garbage, q) = Reading({}, {})
      BY <1>1, <1>3 DEF ReadEntry
  <2> QED
      BY <2>1 DEF from_read
<1> QED
    BY <1>2, <1>4

\* An answer of one line, and what is read of it.
LEMMA OneLine ==
    ASSUME NEW resp \in Answer, resp.op # "Scan"
    PROVE  \E line \in Lines :
             /\ write_response(resp) = <<line>>
             /\ \A h : h.segs = line.segs => from_read(h, {}) = Reading({resp}, {})
<1>1. CASE resp \in [op : {"Put", "Delete"}, key : STRING, found : BOOLEAN]
  <2> DEFINE segs == <<Keyword[resp.op], resp.key, Found(resp.found)>>
  <2>1. write_response(resp) = <<Line(segs)>>
      BY <1>1 DEF write_response
  <2>2. Keyword[resp.op] \in {"PUT", "DELETE"} /\ OpOf(Keyword[resp.op]) = resp.op
      BY <1>1, Keywords DEF Keyword
  <2>3. { f \in BOOLEAN : Found(f) = Found(resp.found) } = {resp.found}
      BY <1>1 DEF Found
  <2>4. /\ Keyword[resp.op] \in Segments /\ resp.key \in Segments
        /\ Found(resp.found) \in Segments
      BY <1>1, <2>2 DEF Segments, Words, Found
  <2>5. /\ Line(segs) \in Lines /\ Line(segs).segs = segs /\ Len(segs) = 3
        /\ segs[1] = Keyword[resp.op] /\ segs[2] = resp.key /\ segs[3] = Found(resp.found)
      BY <2>4, Line3
  <2>6. [op : {resp.op}, key : {resp.key}, found : {resp.found}] = {resp}
    <3>1. resp = [op |-> resp.op, key |-> resp.key, found |-> resp.found]
        BY <1>1
    <3>2. ASSUME NEW x \in [op : {resp.op}, key : {resp.key}, found : {resp.found}]
          PROVE  x = resp
      <4>1. x = [op |-> x.op, key |-> x.key, found |-> x.found]
          OBVIOUS
      <4>2. x.op = resp.op /\ x.key = resp.key /\ x.found = resp.found
          OBVIOUS
      <4> QED
          BY <3>1, <4>1, <4>2
    <3>3. resp \in [op : {resp.op}, key : {resp.key}, found : {resp.found}]
        BY <3>1
    <3> QED
        BY <3>2, <3>3
  <2> HIDE DEF segs
  <2>7. ReadFirst(segs) = Reading([op : {resp.op}, key : {resp.key}, found : {resp.found}], {})
    <3>1. { f \in BOOLEAN : Found(f) = segs[3] } = {resp.found}
        BY <2>3, <2>5
    <3>2. ReadFirst(segs) = Reading([op : {OpOf(segs[1])}, key : {segs[2]},
                                     found : { f \in BOOLEAN : Found(f) = segs[3] }], {})
        BY <2>2, <2>5 DEF ReadFirst
    <3> QED
        BY <2>2, <2>5, <3>1, <3>2
  <2> QED
      BY <2>1, <2>5, <2>6, <2>7 DEF from_read
<1>2. CASE resp \in [op : {"Swap", "Get"}, key : STRING, value : {Null} \cup STRING]
           /\ resp.value # "null"
  <2> DEFINE segs == <<Keyword[resp.op], resp.key, Optional(resp.value)>>
  <2>1. write_response(resp) = <<Line(segs)>>
      BY <1>2 DEF write_response
  <2>2. Keyword[resp.op] \in {"SWAP", "GET"} /\ OpOf(Keyword[resp.op]) = resp.op
      BY <1>2, Keywords DEF Keyword
  <2>3. (IF Optional(resp.value) = "null" THEN Null ELSE Optional(resp.value)) = resp.value
      BY <1>2 DEF Optional
  <2>4. /\ Keyword[resp.op] \in Segments /\ resp.key \in Segments
        /\ Optional(resp.value) \in Segments
      BY <1>2, <2>2 DEF Segments, Words, Optional
  <2>5. /\ Line(segs) \in Lines /\ Line(segs).segs = segs /\ Len(segs) = 3
        /\ segs[1] = Keyword[resp.op] /\ segs[2] = resp.key /\ segs[3] = Optional(resp.value)
      BY <2>4, Line3
  <2>6. [op |-> resp.op, key |-> resp.key, value |-> resp.value] = resp
      BY <1>2
  <2> HIDE DEF segs
  <2>7. ReadFirst(segs) = Reading({[op |-> resp.op, key |-> resp.key, value |-> resp.value]}, {})
      BY <2>2, <2>3, <2>5 DEF ReadFirst
  <2> QED
      BY <2>1, <2>5, <2>6, <2>7 DEF from_read
<1>3. CASE resp = Stop
  <2> DEFINE segs == <<"STOP">>
  <2>1. write_response(resp) = <<Line(segs)>>
      BY <1>3 DEF write_response, Stop
  <2>2. Line(segs) \in Lines /\ Line(segs).segs = segs /\ segs[1] = "STOP"
      BY Line1 DEF Segments, Words
  <2> HIDE DEF segs
  <2>3. ReadFirst(segs) = Reading({resp}, {})
      BY <1>3, <2>2 DEF ReadFirst, Stop
  <2> QED
      BY <2>1, <2>2, <2>3 DEF from_read
<1> QED
    BY <1>1, <1>2, <1>3, AnswerForms

\* The lines of a listing.
LEMMA ListingLines ==
    ASSUME NEW resp \in Answer, resp.op = "Scan"
    PROVE  LET lines == write_response(resp)
               len   == Len(resp.entries)
           IN  /\ lines \in Seq(Lines) /\ len \in Nat /\ Len(lines) = len + 2
               /\ lines[1] = Line(<<"SCAN", resp.key_start, resp.key_end, "BEGIN">>)
               /\ \A n \in 1..len :
                    lines[n + 1] = Line(<<resp.entries[n].key, resp.entries[n].value>>)
               /\ lines[len + 2] = Line(<<"SCAN", "END">>)
<1>1. resp \in [op : {"Scan"}, key_start : STRING, key_end : STRING,
               entries : Seq([key : STRING, value : STRING])]
    BY AnswerForms DEF Stop
<1> DEFINE len == Len(resp.entries)
           first == Line(<<"SCAN", resp.key_start, resp.key_end, "BEGIN">>)
           last == Line(<<"SCAN", "END">>)
           middle == [n \in DOMAIN resp.entries |->
                         Line(<<resp.entries[n].key, resp.entries[n].value>>)]
<1>2. len \in Nat /\ DOMAIN resp.entries = 1..len
      /\ \A n \in 1..len : resp.entries[n] \in [key : STRING, value : STRING]
  <2>1. resp.entries \in Seq([key : STRING, value : STRING])
      BY <1>1
  <2> QED
      BY <2>1, LenProperties, ElementOfSeq
<1>3. first \in Lines /\ last \in Lines
  <2>1. "SCAN" \in Segments /\ "BEGIN" \in Segments /\ "END" \in Segments
        /\ resp.key_start \in Segments /\ resp.key_end \in Segments
      BY <1>1 DEF Segments, Words
  <2> QED
      BY <2>1, Line4, Line2
<1>4. \A n \in 1..len : Line(<<resp.entries[n].key, resp.entries[n].value>>) \in Lines
  <2>1. \A n \in 1..len : resp.entries[n].key \in Segments /\ resp.entries[n].value \in Segments
      BY <1>2 DEF Segments
  <2> QED
      BY <2>1, Line2
<1>5. middle \in [1..len -> Lines]
    BY <1>2, <1>4
<1>6. middle \in Seq(Lines) /\ Len(middle) = len
  <2> HIDE DEF middle, len
  <2> QED
      BY <1>2, <1>5
<1>7. \A n \in 1..len : middle[n] = Line(<<resp.entries[n].key, resp.entries[n].value>>)
    BY <1>2
<1>8. write_response(resp) = (<<first>> \o middle) \o <<last>>
    BY <1>1 DEF write_response, Listing
<1> HIDE DEF first, last, middle, len
<1>9. <<first>> \in Seq(Lines) /\ <<last>> \in Seq(Lines)
    BY <1>3
<1>10. <<first>> \o middle \in Seq(Lines) /\ Len(<<first>> \o middle) = len + 1
       /\ (<<first>> \o middle)[1] = first
       /\ \A n \in 1..len : (<<first>> \o middle)[n + 1] = middle[n]
    BY <1>2, <1>6, <1>9
<1> DEFINE start == <<first>> \o middle
<1> HIDE DEF start
<1>11. start \o <<last>> \in Seq(Lines) /\ Len(start \o <<last>>) = len + 2
       /\ (\A n \in 1..len + 1 : (start \o <<last>>)[n] = start[n])
       /\ (start \o <<last>>)[len + 2] = last
    BY <1>2, <1>9, <1>10 DEF start
<1> QED
    BY <1>2, <1>7, <1>8, <1>10, <1>11 DEF start, first, last, len

\* The first line of a listing begins it.
LEMMA FirstRead ==
    ASSUME NEW resp \in Answer, resp.op = "Scan", NEW h,
           h.segs = Line(<<"SCAN", resp.key_start, resp.key_end, "BEGIN">>).segs
    PROVE  from_read(h, {}) = Reading({}, {Upto(resp, 0)})
<1>1. resp.key_start \in STRING /\ resp.key_end \in STRING
    BY AnswerForms DEF Stop
<1>2. "SCAN" \in Segments /\ "BEGIN" \in Segments
      /\ resp.key_start \in Segments /\ resp.key_end \in Segments
    BY <1>1 DEF Segments, Words
<1>3. Len(h.segs) = 4 /\ h.segs[1] = "SCAN" /\ h.segs[4] = "BEGIN"
      /\ h.segs[2] = resp.key_start /\ h.segs[3] = resp.key_end
    BY <1>2, Line4
<1>4. ReadFirst(h.segs) = Reading({}, {[op |-> "Scan", key_start |-> resp.key_start,
                                        key_end |-> resp.key_end, entries |-> <<>>]})
  <2> DEFINE segs == h.segs
  <2>1. Len(segs) = 4 /\ segs[1] = "SCAN" /\ segs[4] = "BEGIN"
        /\ segs[2] = resp.key_start /\ segs[3] = resp.key_end
      BY <1>3
  <2> HIDE DEF segs
  <2>2. ReadFirst(segs) = Reading({}, {[op |-> "Scan", key_start |-> segs[2],
                                        key_end |-> segs[3], entries |-> <<>>]})
      BY <2>1 DEF ReadFirst
  <2> QED
      BY <2>1, <2>2 DEF segs
<1>5. [i \in 1..0 |-> resp.entries[i]] = <<>>
    OBVIOUS
<1> QED
    BY <1>4, <1>5 DEF from_read, Upto

\* A function on 1..n is a sequence.
LEMMA FcnIsSeq ==
    ASSUME NEW S, NEW m \in Nat, NEW f \in [1..m -> S]
    PROVE  f \in Seq(S) /\ Len(f) = m
OBVIOUS

\* An entry's line extends the listing; it does not read as its end.
LEMMA EntryRead ==
    ASSUME NEW resp \in Answer, resp.op = "Scan", NEW n \in 1..Len(resp.entries), NEW h,
           h.segs = Line(<<resp.entries[n].key, resp.entries[n].value>>).segs
    PROVE  from_read(h, {Upto(resp, n - 1)}) = Reading({}, {Upto(resp, n)})
<1> DEFINE e == resp.entries
<1>1. e \in Seq([key : STRING, value : STRING]) /\ Plain(resp)
    BY AnswerForms DEF Stop
<1>2. Len(e) \in Nat /\ DOMAIN e = 1..Len(e) /\ e[n] \in [key : STRING, value : STRING]
    BY <1>1, LenProperties, ElementOfSeq
<1>3. e[n].key \in Segments /\ e[n].value \in Segments
    BY <1>2 DEF Segments
<1>4. Len(h.segs) = 2 /\ h.segs[1] = e[n].key /\ h.segs[2] = e[n].value
    BY <1>3, Line2
<1>5. h # Line(<<"SCAN", "END">>)
  <2>1. ~(e[n].key = "SCAN" /\ e[n].value = "END")
      BY <1>1, <1>2 DEF Plain
  <2>2. Line(<<"SCAN", "END">>).segs[1] = "SCAN" /\ Line(<<"SCAN", "END">>).segs[2] = "END"
      BY Line2 DEF Segments, Words
  <2> QED
      BY <1>4, <2>1, <2>2
<1> DEFINE old == [i \in 1..(n - 1) |-> e[i]]
           new == [i \in 1..n |-> e[i]]
<1>6. Append(old, [key |-> e[n].key, value |-> e[n].value]) = new
  <2>1. [key |-> e[n].key, value |-> e[n].value] = e[n]
      BY <1>2
  <2>2. old \in Seq([key : STRING, value : STRING]) /\ Len(old) = n - 1
    <3>1. n - 1 \in Nat /\ \A i \in 1..(n - 1) : i \in 1..Len(e)
        BY <1>2
    <3>2. old \in [1..(n - 1) -> [key : STRING, value : STRING]]
        BY <1>1, <3>1, ElementOfSeq
    <3> DEFINE m == n - 1
    <3> HIDE DEF old, m
    <3> QED
        BY <3>1, <3>2, FcnIsSeq DEF m
  <2>3. new \in Seq([key : STRING, value : STRING]) /\ Len(new) = n
    <3>1. n \in Nat /\ \A i \in 1..n : i \in 1..Len(e)
        BY <1>2
    <3>2. new \in [1..n -> [key : STRING, value : STRING]]
        BY <1>1, <3>1, ElementOfSeq
    <3> HIDE DEF new
    <3> QED
        BY <3>1, <3>2, FcnIsSeq
  <2>4. Append(old, e[n]) \in Seq([key : STRING, value : STRING])
        /\ Len(Append(old, e[n])) = n
      BY <1>2, <2>2
  <2>5. \A i \in 1..n : Append(old, e[n])[i] = new[i]
      BY <1>2, <2>2
  <2> HIDE DEF old, new, e
  <2> QED
      BY <2>1, <2>3, <2>4, <2>5, SeqEqual
<1>7. [Upto(resp, n - 1) EXCEPT !.entries = Append(@, [key |-> h.segs[1], value |-> h.segs[2]])]
        = Upto(resp, n)
  <2>1. \A a, b, d, x, y :
          [[op |-> a, key_start |-> b, key_end |-> d, entries |-> x] EXCEPT !.entries = y]
            = [op |-> a, key_start |-> b, key_end |-> d, entries |-> y]
      OBVIOUS
  <2>2. Upto(resp, n - 1).entries = old
      BY DEF Upto
  <2>3. [Upto(resp, n - 1) EXCEPT !.entries = new] = Upto(resp, n)
    <3> HIDE DEF old, new
    <3>1. /\ Upto(resp, n - 1) = [op |-> "Scan", key_start |-> resp.key_start,
                                  key_end |-> resp.key_end, entries |-> old]
          /\ Upto(resp, n) = [op |-> "Scan", key_start |-> resp.key_start,
                              key_end |-> resp.key_end, entries |-> new]
        BY DEF Upto, old, new
    <3> QED
        BY <2>1, <3>1
  <2> QED
      BY <1>4, <1>6, <2>2, <2>3
<1> DEFINE listing == Upto(resp, n - 1)
<1>8. ReadEntry(h, listing) = Reading({}, {Upto(resp, n)})
  <2>1. [listing EXCEPT !.entries = Append(@, [key |-> h.segs[1], value |-> h.segs[2]])]
          = Upto(resp, n)
      BY <1>7
  <2> HIDE DEF listing, e
  <2>2. ReadEntry(h, listing)
          = Reading({}, {[listing EXCEPT !.entries =
                            Append(@, [key |-> h.segs[1], value |-> h.segs[2]])]})
      BY <1>4, <1>5 DEF ReadEntry
  <2> QED
      BY <2>1, <2>2
<1> HIDE DEF listing
<1>9. from_read(h, {listing}) = ReadEntry(h, listing)
    BY DEF from_read
<1> QED
    BY <1>8, <1>9 DEF listing

\* The end completes the listing, if it is recognised; a widened one is not.
LEMMA EndRead ==
    ASSUME NEW resp \in Answer, resp.op = "Scan", NEW h \in Printable(Line(<<"SCAN", "END">>))
    PROVE  LET taken == from_read(h, {Upto(resp, Len(resp.entries))})
           IN  \/ taken = Reading({}, {})
               \/ taken = Reading({resp}, {})
               \/ Wide /\ \E p : taken = Reading({}, {p}) /\ p.op = "Scan"
<1> DEFINE full == Upto(resp, Len(resp.entries))
<1>1. full = resp
  <2>1. resp \in [op : {"Scan"}, key_start : STRING, key_end : STRING,
                 entries : Seq([key : STRING, value : STRING])]
      BY AnswerForms DEF Stop
  <2>2. resp.entries \in Seq([key : STRING, value : STRING])
      BY <2>1
  <2>3. resp.entries = [i \in 1..Len(resp.entries) |-> resp.entries[i]]
      BY <2>2, LenProperties
  <2>4. resp = [op |-> "Scan", key_start |-> resp.key_start, key_end |-> resp.key_end,
                entries |-> resp.entries]
      BY <2>1
  <2> QED
      BY <2>3, <2>4 DEF Upto
<1> DEFINE end == Line(<<"SCAN", "END">>)
<1>2. end \in Lines /\ end.segs = <<"SCAN", "END">> /\ Len(end.segs) = 2
    BY Line2 DEF Segments, Words
<1>3. CASE h = Garbage
    BY <1>3, GarbageRead
<1>4. CASE h = end
  <2>1. ReadEntry(h, full) = Reading({full}, {})
      BY <1>4 DEF ReadEntry
  <2> QED
      BY <1>1, <2>1 DEF from_read
<1>5. CASE Wide /\ h = Widened(end)
  <2>1. h # end /\ Len(h.segs) = 2
    <3>1. h.segs = end.segs /\ h.one_space = FALSE /\ end.one_space = TRUE
      <4>1. h = [end EXCEPT !.one_space = (Len(end.segs) = 1)]
          BY <1>5 DEF Widened
      <4>2. (Len(end.segs) = 1) = FALSE
          BY <1>2
      <4>3. end = [segs |-> <<"SCAN", "END">>, one_space |-> TRUE]
          BY DEF Line
      <4> HIDE DEF end
      <4>4. h = [end EXCEPT !.one_space = FALSE]
          BY <4>1, <4>2
      <4> QED
          BY <4>3, <4>4
    <3> QED
        BY <1>2, <3>1
  <2> DEFINE p == [full EXCEPT !.entries =
                     Append(@, [key |-> h.segs[1], value |-> h.segs[2]])]
  <2>2. ReadEntry(h, full) = Reading({}, {p})
      BY <2>1 DEF ReadEntry
  <2>3. p.op = "Scan"
      BY DEF Upto
  <2>4. from_read(h, {full}) = Reading({}, {p})
      BY <2>2 DEF from_read
  <2> HIDE DEF p
  <2> QED
      BY <1>5, <2>3, <2>4
<1> QED
    BY <1>3, <1>4, <1>5 DEF Printable

\* An answer has a line, and a listing one more than its entries before its end.
LEMMA AnswerLines ==
    ASSUME NEW resp \in Answer
    PROVE  LET lines == write_response(resp)
           IN  /\ lines \in Seq(Lines) /\ Len(lines) \in Nat /\ Len(lines) >= 1
               /\ resp.op = "Scan" => /\ Len(resp.entries) \in Nat
                                      /\ Len(lines) = Len(resp.entries) + 2
               /\ resp.op # "Scan" => Len(lines) = 1
<1>1. CASE resp.op = "Scan"
  <2>1. /\ write_response(resp) \in Seq(Lines) /\ Len(resp.entries) \in Nat
        /\ Len(write_response(resp)) = Len(resp.entries) + 2
      BY <1>1, ListingLines
  <2>2. \A len \in Nat : len + 2 \in Nat /\ len + 2 >= 1
      OBVIOUS
  <2> QED
      BY <1>1, <2>1, <2>2
<1>2. CASE resp.op # "Scan"
  <2>1. PICK line \in Lines : write_response(resp) = <<line>>
      BY <1>2, OneLine
  <2>2. <<line>> \in Seq(Lines) /\ Len(<<line>>) = 1
      OBVIOUS
  <2> QED
      BY <1>2, <2>1, <2>2
<1> QED
    BY <1>1, <1>2

\* What from_read may make of the next line of an answer of which so many are read.
NextLine(resp, pos, taken) ==
    LET len == Len(write_response(resp))
    IN  \/ taken = Reading({}, {})
        \/ pos + 1 = len /\ taken = Reading({resp}, {})
        \/ /\ pos + 1 < len /\ taken = Reading({}, {Upto(resp, pos)})
           /\ ReadSoFar(resp, pos + 1, {Upto(resp, pos)})
        \/ pos + 1 = len /\ Wide /\ \E p : taken = Reading({}, {p}) /\ p.op = "Scan"

(***************************************************************************)
(* from_read, at the next line of an answer of which so many are read: it  *)
(* gives up, has the whole answer with its last line, or one line more of  *)
(* it before; only a client that widens its lines gets it past the end.    *)
(***************************************************************************)
LEMMA ReadLine ==
    ASSUME NEW resp \in Answer, NEW pos \in Nat, pos < Len(write_response(resp)),
           NEW h, h \in Printable(write_response(resp)[pos + 1]),
           NEW parts, ReadSoFar(resp, pos, parts)
    PROVE  NextLine(resp, pos, from_read(h, parts))
<1> USE DEF NextLine
<1> DEFINE lines == write_response(resp)
<1>1. lines \in Seq(Lines) /\ Len(lines) \in Nat /\ pos + 1 \in 1..Len(lines)
    BY AnswerLines
<1>2. lines[pos + 1] \in Lines
    BY <1>1, ElementOfSeq
<1>3. h = Garbage \/ h.segs = lines[pos + 1].segs
    BY <1>2, PrintsLine
<1>4. parts = {} \/ \E p : parts = {p}
    BY DEF ReadSoFar
<1>5. CASE h = Garbage
    BY <1>4, <1>5, GarbageRead
<1>6. CASE h.segs = lines[pos + 1].segs /\ resp.op # "Scan"
  <2>1. PICK line \in Lines : /\ lines = <<line>>
                              /\ \A g : g.segs = line.segs => from_read(g, {}) = Reading({resp}, {})
      BY <1>6, OneLine
  <2>2. pos = 0 /\ parts = {} /\ Len(lines) = 1 /\ lines[pos + 1] = line
    <3>1. Len(lines) = 1
        BY <1>6, AnswerLines
    <3>2. pos = 0
        BY <1>1, <3>1
    <3> QED
        BY <2>1, <3>1, <3>2 DEF ReadSoFar
  <2> QED
      BY <1>6, <2>1, <2>2
<1>7. CASE h.segs = lines[pos + 1].segs /\ resp.op = "Scan"
  <2> DEFINE n == Len(resp.entries)
  <2>1. n \in Nat /\ Len(lines) = n + 2
      BY <1>7, AnswerLines
  <2>2. CASE pos = 0
    <3>1. from_read(h, {}) = Reading({}, {Upto(resp, 0)})
      <4>1. lines[pos + 1] = Line(<<"SCAN", resp.key_start, resp.key_end, "BEGIN">>)
          BY <1>7, <2>2, ListingLines
      <4>2. h.segs = Line(<<"SCAN", resp.key_start, resp.key_end, "BEGIN">>).segs
          BY <1>7, <4>1
      <4> QED
          BY <1>7, <4>2, FirstRead
    <3>2. ReadSoFar(resp, pos + 1, {Upto(resp, pos)})
        BY <1>7, <2>1, <2>2 DEF ReadSoFar
    <3>3. parts = {} /\ pos + 1 < Len(lines)
        BY <2>1, <2>2 DEF ReadSoFar
    <3> QED
        BY <2>2, <3>1, <3>2, <3>3
  <2>3. CASE pos \in 1..n
    <3>1. lines[pos + 1] = Line(<<resp.entries[pos].key, resp.entries[pos].value>>)
        BY <1>7, <2>3, ListingLines
    <3>2. from_read(h, {Upto(resp, pos - 1)}) = Reading({}, {Upto(resp, pos)})
        BY <1>7, <2>3, <3>1, EntryRead
    <3>3. parts = {Upto(resp, pos - 1)}
        BY <2>3 DEF ReadSoFar
    <3>4. ReadSoFar(resp, pos + 1, {Upto(resp, pos)})
        BY <1>7, <2>1, <2>3 DEF ReadSoFar
    <3> QED
        BY <2>1, <2>3, <3>2, <3>3, <3>4
  <2>4. CASE pos = n + 1
    <3>1. lines[pos + 1] = Line(<<"SCAN", "END">>)
      <4>1. pos + 1 = n + 2
          BY <2>1, <2>4
      <4> QED
          BY <1>7, <4>1, ListingLines
    <3>2. parts = {Upto(resp, n)}
      <4>1. pos # 0 /\ pos - 1 = n
          BY <2>1, <2>4
      <4> QED
          BY <4>1 DEF ReadSoFar
    <3>3. pos + 1 = Len(lines)
        BY <2>1, <2>4
    <3> QED
        BY <1>7, <3>1, <3>2, <3>3, EndRead
  <2>5. pos = 0 \/ pos \in 1..n \/ pos = n + 1
    <3> HIDE DEF n, lines
    <3> QED
        BY <1>1, <2>1
  <2> QED
      BY <2>2, <2>3, <2>4, <2>5
<1> QED
    BY <1>3, <1>5, <1>6, <1>7

------------------------------------------------------------------------------
(***************************************************************************)
(* The steps.                                                              *)
(***************************************************************************)
\* Channels hold two entries at most.
LEMMA AppendTwo ==
    ASSUME NEW x, NEW y
    PROVE  Append(<<x>>, y) = <<x, y>>
<1> DEFINE S == {x, y}
<1>1. <<x>> \in Seq(S) /\ <<x, y>> \in Seq(S) /\ y \in S
    OBVIOUS
<1>2. Len(<<x>>) = 1 /\ Len(<<x, y>>) = 2
    OBVIOUS
<1>3. <<x>>[1] = x /\ <<x, y>>[1] = x /\ <<x, y>>[2] = y
    OBVIOUS
<1> HIDE DEF S
<1>4. /\ Append(<<x>>, y) \in Seq(S) /\ Len(Append(<<x>>, y)) = 2
      /\ Append(<<x>>, y)[1] = x /\ Append(<<x>>, y)[2] = y
    BY <1>1, <1>2, <1>3, AppendProperties
<1>5. \A i \in 1..2 : i = 1 \/ i = 2
    OBVIOUS
<1> QED
    BY <1>1, <1>2, <1>3, <1>4, <1>5, SeqEqual

\* Sequences of one and two elements.
LEMMA Short ==
    /\ \A x : Append(<<>>, x) = <<x>> /\ Head(<<x>>) = x /\ Tail(<<x>>) = <<>>
    /\ \A x : Len(<<x>>) = 1 /\ <<x>> # <<>> /\ <<x>>[1] = x
    /\ \A x, y : Append(<<x>>, y) = <<x, y>>
    /\ \A x, y : Head(<<x, y>>) = x /\ Tail(<<x, y>>) = <<y>>
    /\ \A x, y : Len(<<x, y>>) = 2 /\ <<x, y>> # <<>> /\ <<x, y>>[1] = x
    /\ \A x, y : <<x>> = <<y>> => x = y
    /\ \A x, y, z : <<x>> # <<y, z>>
    /\ \A x, y, z, w : <<x, y>> = <<z, w>> => x = z /\ y = w
    /\ Len(<<>>) = 0
<1>1. \A x : Append(<<>>, x) = <<x>> /\ Head(<<x>>) = x /\ Tail(<<x>>) = <<>>
    OBVIOUS
<1>2. \A x : Len(<<x>>) = 1 /\ <<x>> # <<>> /\ <<x>>[1] = x
    OBVIOUS
<1>3. \A x, y : Append(<<x>>, y) = <<x, y>>
    BY AppendTwo
<1>4. \A x, y : Head(<<x, y>>) = x /\ Tail(<<x, y>>) = <<y>>
    OBVIOUS
<1>5. \A x, y : Len(<<x, y>>) = 2 /\ <<x, y>> # <<>> /\ <<x, y>>[1] = x
    OBVIOUS
<1>6. \A x, y : <<x>> = <<y>> => x = y
    OBVIOUS
<1>7. \A x, y, z : <<x>> # <<y, z>>
    OBVIOUS
<1>8. \A x, y, z, w : <<x, y>> = <<z, w>> => x = z /\ y = w
    OBVIOUS
<1> QED
    BY <1>1, <1>2, <1>3, <1>4, <1>5, <1>6, <1>7, <1>8

\* STOP is not one of the workload's calls, nor its confirmation an answer to one.
LEMMA StopApart == Stop \notin Calls /\ \A c \in Calls : Stop \notin Answers(c)
<1>1. \A c \in WireCall : c.op \in {"Put", "Swap", "Get", "Delete", "Scan"}
    BY DEF WireCall
<1>2. \A r \in WireResp : r.op \in {"Put", "Delete", "Swap", "Get", "Scan"}
    BY DEF WireResp
<1> QED
    BY <1>1, <1>2, WorkloadAssumption DEF Stop

\* The invariant holds at first.
LEMMA InitProc == Init => ProcInv
<1> SUFFICES ASSUME Init PROVE ProcInv
    OBVIOUS
<1> USE DEF Init
<1>1. Types
    BY CallsAssumption DEF Types, Requests
<1>2. Channels /\ Replied /\ Pipes
    BY DEF Channels, Replied, Pipes, Open, Stopping
<1>3. Counted
    BY DEF Counted, Stopping
<1>4. CleanStop /\ ResponseMatchesCall
    BY DEF CleanStop, ResponseMatchesCall
<1> QED
    BY <1>1, <1>2, <1>3, <1>4 DEF ProcInv

\* The owner is ready for the next call only when everything is quiet.
LEMMA ReadyQuiet ==
    ASSUME ProcInv, owner = "ready"
    PROVE  /\ ~Open /\ ~Stopping /\ driver = "recv" /\ call_ch = <<>> /\ resp_ch = <<>>
           /\ stdin = <<>> /\ stdout = <<>> /\ out = <<>> /\ part = {}
           /\ served = sent
<1>1. ~Open /\ ~Stopping /\ Serving = Stop
    BY DEF ProcInv, Channels, Stopping, Serving
<1>2. driver = "recv" /\ call_ch = <<>> /\ resp_ch = <<>>
    BY <1>1 DEF ProcInv, Types, Channels, Replied
<1>3. stdin = <<>> /\ stdout = <<>> /\ out = <<>> /\ part = {}
    BY <1>2 DEF ProcInv, Pipes
<1> QED
    BY <1>1, <1>2, <1>3, Short DEF ProcInv, Types, Counted

\* While it is not stopping, a response that waits is the last thing the child said.
LEMMA ReplyWaits ==
    ASSUME ProcInv, ~Stopping, resp_ch # <<>>
    PROVE  /\ Open /\ driver = "recv" /\ call_ch = <<>> /\ said \in Answers(call)
           /\ resp_ch = <<said>> /\ stdin = <<>> /\ served = sent
<1>1. PICK resp \in Answers(call) : Open /\ resp_ch = <<resp>>
    BY DEF ProcInv, Replied
<1>2. Serving = Stop /\ call \in Calls
    BY <1>1 DEF ProcInv, Channels, Serving
<1>3. driver = "recv"
    BY <1>2 DEF ProcInv, Types, Channels
<1>4. call_ch = <<>>
    BY <1>1, <1>2, StopApart, Short DEF ProcInv, Channels
<1>5. stdin = <<>> /\ resp = said
    BY <1>1, <1>3, Short DEF ProcInv, Pipes, Counted
<1> QED
    BY <1>1, <1>3, <1>4, <1>5, Short DEF ProcInv, Types, Counted

\* send_call finds everything quiet, and puts the call in the channel.
LEMMA SendCallKeeps ==
    ASSUME ProcInv, SendCall
    PROVE  ProcInv'
<1> USE CallsAssumption, StopApart, Short
    DEF ProcInv, Types, Channels, Replied, Open, Stopping, Serving, ovars, cvars, SendCall
<1>1. Types'
    BY DEF Requests
<1>2. Channels'
    OBVIOUS
<1>3. Replied'
    OBVIOUS
<1>4. Counted'
  <2>1. /\ ~Stopping' /\ sent' = sent + 1 /\ served' = served /\ stdin' = stdin
        /\ resp_ch' = resp_ch /\ call_ch' = <<call'>>
      BY ReadyQuiet
  <2>2. resp_ch' = <<>> /\ stdin' = <<>> /\ served = sent /\ sent \in Nat
      BY <2>1, ReadyQuiet
  <2>3. Len(stdin') = 0 /\ Len(call_ch') = 1
      BY <2>1, <2>2
  <2> QED
      BY <2>1, <2>2, <2>3 DEF Counted
<1>5. Pipes'
    BY DEF Pipes, Answering, UnderWay, Overrun
<1>6. CleanStop'
    BY DEF CleanStop, Pipes
<1>7. ResponseMatchesCall'
    BY DEF ResponseMatchesCall, Counted, Pipes
<1> QED
    BY <1>1, <1>2, <1>3, <1>4, <1>5, <1>6, <1>7 DEF ProcInv

\* wait_resp takes the response that waits, the last thing the child said.
LEMMA WaitRespKeeps ==
    ASSUME ProcInv, WaitResp
    PROVE  ProcInv'
<1> USE CallsAssumption, StopApart, Short
    DEF ProcInv, Types, Channels, Replied, Open, Stopping, Serving, ovars, cvars, WaitResp
<1>1. Types'
    BY DEF Requests
<1>2. Channels'
  <2>1. /\ ~Stopping /\ owner' = "ready" /\ ~Open' /\ ~Stopping'
        /\ call_ch' = call_ch /\ driver' = driver
      OBVIOUS
  <2>2. call_ch = <<>> /\ driver = "recv"
      BY <2>1, ReplyWaits
  <2> QED
      BY <2>1, <2>2
<1>3. Replied'
    OBVIOUS
<1>4. Counted'
    BY DEF Counted
<1>5. Pipes'
    BY DEF Pipes, Answering, UnderWay, Overrun
<1>6. CleanStop'
    BY DEF CleanStop, Pipes
<1>7. ResponseMatchesCall'
    BY DEF ResponseMatchesCall, Counted, Pipes
<1> QED
    BY <1>1, <1>2, <1>3, <1>4, <1>5, <1>6, <1>7 DEF ProcInv

\* A timeout leaves the call open; the owner goes on to stop or drop the client.
LEMMA WaitErrKeeps ==
    ASSUME ProcInv, WaitErr
    PROVE  ProcInv'
<1> USE CallsAssumption, StopApart, Short
    DEF ProcInv, Types, Channels, Replied, Open, Stopping, Serving, ovars, cvars, WaitErr
<1>1. Types'
    BY DEF Requests
<1>2. Channels'
    OBVIOUS
<1>3. Replied'
    OBVIOUS
<1>4. Counted'
    BY DEF Counted
<1>5. Pipes'
    BY DEF Pipes, Answering, UnderWay, Overrun
<1>6. CleanStop'
    BY DEF CleanStop, Pipes
<1>7. ResponseMatchesCall'
    BY DEF ResponseMatchesCall, Counted, Pipes
<1> QED
    BY <1>1, <1>2, <1>3, <1>4, <1>5, <1>6, <1>7 DEF ProcInv

\* The end of the workload changes nothing but what the owner does next.
LEMMA EndWorkloadKeeps ==
    ASSUME ProcInv, EndWorkload
    PROVE  ProcInv'
<1> USE CallsAssumption, StopApart, Short
    DEF ProcInv, Types, Channels, Replied, Open, Stopping, Serving, ovars, cvars, EndWorkload
<1>1. Types'
    BY DEF Requests
<1>2. Channels'
    OBVIOUS
<1>3. Replied'
    OBVIOUS
<1>4. Counted'
    BY DEF Counted
<1>5. Pipes'
    BY DEF Pipes, Answering, UnderWay, Overrun
<1>6. CleanStop'
    BY DEF CleanStop, Pipes
<1>7. ResponseMatchesCall'
    BY DEF ResponseMatchesCall, Counted, Pipes
<1> QED
    BY <1>1, <1>2, <1>3, <1>4, <1>5, <1>6, <1>7 DEF ProcInv

\* A dropped handle leaves channels and pipes as they are.
LEMMA DropKeeps ==
    ASSUME ProcInv, Drop
    PROVE  ProcInv'
<1> USE CallsAssumption, StopApart, Short
    DEF ProcInv, Types, Channels, Replied, Open, Stopping, Serving, ovars, cvars, Drop
<1>1. Types'
    BY DEF Requests
<1>2. Channels'
    OBVIOUS
<1>3. Replied'
    OBVIOUS
<1>4. Counted'
    BY DEF Counted
<1>5. Pipes'
    BY DEF Pipes, Answering, UnderWay, Overrun
<1>6. CleanStop'
    BY DEF CleanStop, Pipes
<1>7. ResponseMatchesCall'
    BY DEF ResponseMatchesCall, Counted, Pipes
<1> QED
    BY <1>1, <1>2, <1>3, <1>4, <1>5, <1>6, <1>7 DEF ProcInv

\* STOP goes into the channel behind the open call, if the driver has not taken it.
LEMMA StopSendKeeps ==
    ASSUME ProcInv, StopSend
    PROVE  ProcInv'
<1> USE CallsAssumption, StopApart, Short
    DEF ProcInv, Types, Channels, Replied, Open, Stopping, Serving, ovars, cvars, StopSend
<1>1. Types'
    BY DEF Requests
<1>2. Channels'
  <2>1. ~Stopping /\ Open' = Open /\ Stopping' /\ Serving' = Serving /\ resp_ch' = resp_ch
        /\ driver' = driver /\ call' = call
      OBVIOUS
  <2>2. CASE driver = "exited"
      BY <2>1, <2>2
  <2>3. CASE Open /\ resp_ch = <<>> /\ driver = "recv"
    <3>1. call_ch = <<call>>
        BY <2>1, <2>3
    <3>2. call_ch' = <<call, Stop>>
        BY <2>3, <3>1
    <3> QED
        BY <2>1, <2>3, <3>2
  <2>4. CASE driver # "exited" /\ ~(Open /\ resp_ch = <<>> /\ driver = "recv")
    <3>1. call_ch = <<>>
        BY <2>1, <2>4
    <3>2. call_ch' = <<Stop>>
        BY <2>4, <3>1
    <3>3. driver = "reading" => Serving # Stop
        BY <2>1
    <3> QED
        BY <2>1, <2>4, <3>2, <3>3
  <2> QED
      BY <2>2, <2>3, <2>4
<1>3. Replied'
    OBVIOUS
<1>4. Counted'
    BY DEF Counted
<1>5. Pipes'
    BY DEF Pipes, Answering, UnderWay, Overrun
<1>6. CleanStop'
    BY DEF CleanStop, Pipes
<1>7. ResponseMatchesCall'
    BY DEF ResponseMatchesCall, Counted, Pipes
<1> QED
    BY <1>1, <1>2, <1>3, <1>4, <1>5, <1>6, <1>7 DEF ProcInv

\* stop() succeeds on the only response left, the confirmation.
LEMMA StopRespKeeps ==
    ASSUME ProcInv, StopResp
    PROVE  ProcInv'
<1> USE CallsAssumption, StopApart, Short
    DEF ProcInv, Types, Channels, Replied, Open, Stopping, Serving, ovars, cvars, StopResp
<1>1. Types'
  <2>1. <<>> \in Seq(Lines)
      BY EmptySeq
  <2>2. out' = <<>> \/ out' = out
      OBVIOUS
  <2> QED
      BY <2>1, <2>2
<1>2. Channels'
    OBVIOUS
<1>3. Replied'
  <2>1. Stopping' /\ ~Open' /\ call_ch' = call_ch /\ driver' = driver /\ resp_ch' = Tail(resp_ch)
      OBVIOUS
  <2>2. CASE \E resp : resp_ch = <<resp>>
      BY <2>1, <2>2
  <2>3. CASE \E resp : resp_ch = <<resp, Stop>> /\ call_ch = <<>> /\ driver = "recv"
    <3>1. resp_ch' = <<Stop>>
        BY <2>1, <2>3
    <3> QED
        BY <2>1, <2>3, <3>1
  <2> QED
      BY <2>2, <2>3
<1>4. Counted'
    BY DEF Counted
<1>5. Pipes'
    BY DEF Pipes, Answering, UnderWay, Overrun
<1>6. CleanStop'
  <2> SUFFICES ASSUME stopped' = "ok" PROVE CleanStop'
      BY DEF CleanStop
  <2>1. Head(resp_ch) = Stop /\ owner = "stop_wait"
      OBVIOUS
  <2>2. call_ch = <<>> /\ resp_ch = <<Stop>> /\ driver = "recv"
      BY <2>1
  <2>3. stdin = <<>> /\ stdout = <<>>
      BY <2>2 DEF Pipes
  <2> QED
      BY <2>1, <2>2, <2>3 DEF CleanStop
<1>7. ResponseMatchesCall'
    BY DEF ResponseMatchesCall, Counted, Pipes
<1> QED
    BY <1>1, <1>2, <1>3, <1>4, <1>5, <1>6, <1>7 DEF ProcInv

\* stop() gives up: what is under way stays under way.
LEMMA StopTimeoutKeeps ==
    ASSUME ProcInv, StopTimeout
    PROVE  ProcInv'
<1> USE CallsAssumption, StopApart, Short
    DEF ProcInv, Types, Channels, Replied, Open, Stopping, Serving, ovars, cvars, StopTimeout
<1>1. Types'
    BY DEF Requests
<1>2. Channels'
    OBVIOUS
<1>3. Replied'
    OBVIOUS
<1>4. Counted'
    BY DEF Counted
<1>5. Pipes'
    BY DEF Pipes, Answering, UnderWay, Overrun
<1>6. CleanStop'
    BY DEF CleanStop, Pipes
<1>7. ResponseMatchesCall'
    BY DEF ResponseMatchesCall, Counted, Pipes
<1> QED
    BY <1>1, <1>2, <1>3, <1>4, <1>5, <1>6, <1>7 DEF ProcInv

\* The call the driver receives is the open one, or else STOP, with at most STOP
\* after it.
LEMMA NextCall ==
    ASSUME ProcInv, driver = "recv", call_ch # <<>>
    PROVE  /\ Head(call_ch) = Serving /\ Serving \in Requests
           /\ Tail(call_ch) \in {<<>>, <<Stop>>} /\ Len(Tail(call_ch)) + 1 = Len(call_ch)
           /\ ~Stopping \/ Serving = Stop => Tail(call_ch) = <<>>
           /\ Serving = Stop => Stopping
<1>1. CASE Open /\ resp_ch = <<>>
  <2>1. Serving = call /\ call \in Calls /\ call # Stop
      BY <1>1, StopApart DEF ProcInv, Channels, Serving
  <2>2. call_ch = <<call>> \/ (call_ch = <<call, Stop>> /\ Stopping)
      BY <1>1, Short DEF ProcInv, Channels
  <2>3. call_ch = <<call>> => Head(call_ch) = call /\ Tail(call_ch) = <<>> /\ Len(call_ch) = 1
      BY Short
  <2>4. call_ch = <<call, Stop>> =>
          Head(call_ch) = call /\ Tail(call_ch) = <<Stop>> /\ Len(call_ch) = 2
      BY Short
  <2>5. Len(<<>>) = 0 /\ Len(<<Stop>>) = 1
      BY Short
  <2> QED
      BY <2>1, <2>2, <2>3, <2>4, <2>5 DEF Requests
<1>2. CASE ~(Open /\ resp_ch = <<>>)
  <2>1. Serving = Stop /\ call_ch = <<Stop>>
      BY <1>2 DEF ProcInv, Channels, Serving
  <2>2. Stopping
    <3>1. ASSUME ~Stopping PROVE FALSE
      <4>1. Open /\ call_ch = <<call>> /\ call \in Calls
          BY <2>1, <3>1, Short DEF ProcInv, Channels
      <4> QED
          BY <2>1, <4>1, Short, StopApart
    <3> QED
        BY <3>1
  <2> QED
      BY <2>1, <2>2, Short DEF Requests
<1> QED
    BY <1>1, <1>2

\* The driver takes the next call and passes it to the child, or ends.
LEMMA DriverWriteKeeps ==
    ASSUME ProcInv, DriverWrite
    PROVE  ProcInv'
<1>1. Types'
  <2>1. driver = "recv" /\ call_ch # <<>>
      BY DEF DriverWrite
  <2>2. into_write(Head(call_ch)) \in Lines
      BY <2>1, NextCall, CallParsed
  <2>3. stdin' = stdin \/ stdin' = Append(stdin, into_write(Head(call_ch)))
      BY DEF DriverWrite
  <2>4. stdin' \in Seq(Lines)
    <3> DEFINE line == into_write(Head(call_ch))
    <3>1. line \in Lines /\ stdin \in Seq(Lines)
        BY <2>2 DEF ProcInv, Types
    <3> HIDE DEF line
    <3>2. Append(stdin, line) \in Seq(Lines)
        BY <3>1, AppendProperties
    <3> QED
        BY <2>3, <3>1, <3>2 DEF line
  <2> QED
      BY <2>4 DEF DriverWrite, ProcInv, Types, ovars
<1>2. Channels'
  <2>1. /\ driver = "recv" /\ driver' \in {"reading", "exited"} /\ call_ch' = Tail(call_ch)
        /\ Open' = Open /\ Serving' = Serving /\ Stopping' = Stopping /\ resp_ch' = resp_ch
        /\ owner' = owner /\ stopped' = stopped /\ call' = call /\ call_ch # <<>>
      BY DEF DriverWrite, ovars, Open, Serving, Stopping
  <2>2. /\ call_ch' \in {<<>>, <<Stop>>}
        /\ ~Stopping \/ Serving = Stop => call_ch' = <<>>
        /\ Serving = Stop => Stopping
      BY <2>1, NextCall
  <2>3. ~Stopping => Open /\ resp_ch = <<>>
      BY <2>2 DEF Serving
  <2> QED
      BY <2>1, <2>2, <2>3 DEF ProcInv, Channels
<1>3. Replied'
  <2>1. /\ Open' = Open /\ resp_ch' = resp_ch /\ call' = call /\ Stopping' = Stopping
        /\ call_ch # <<>>
      BY DEF DriverWrite, ovars, Open, Stopping
  <2> QED
      BY <2>1 DEF ProcInv, Replied
<1>4. Counted'
  <2>1. /\ driver = "recv" /\ call_ch # <<>> /\ call_ch' = Tail(call_ch) /\ sent' = sent
        /\ served' = served /\ said' = said /\ resp_ch' = resp_ch /\ Stopping' = Stopping
      BY DEF DriverWrite, ovars, Stopping
  <2>2. /\ Len(call_ch') + 1 = Len(call_ch) /\ Len(call_ch') \in Nat /\ Len(stdin) = 0
        /\ sent \in Nat /\ served \in Nat
      BY <2>1, NextCall, Short DEF ProcInv, Types, Counted, Pipes
  <2>3. \/ driver' = "exited" /\ Len(stdin') = 0
        \/ driver' = "reading" /\ Len(stdin') = 1
    <3>1. stdin = <<>>
        BY <2>1 DEF ProcInv, Pipes
    <3> QED
        BY <3>1, Short DEF DriverWrite
  <2> DEFINE calls == Len(call_ch)'
             lines == Len(stdin)'
  <2>4. /\ calls \in Nat /\ calls + 1 = Len(call_ch) /\ Len(stdin) = 0
        /\ \/ driver' = "exited" /\ lines = 0
           \/ driver' = "reading" /\ lines = 1
    <3>1. calls = Len(Tail(call_ch))
        BY <2>1
    <3>2. Len(Tail(call_ch)) \in Nat /\ Len(Tail(call_ch)) + 1 = Len(call_ch)
        BY <2>1, NextCall, Short
    <3>3. lines = Len(stdin')
        OBVIOUS
    <3> HIDE DEF calls, lines
    <3> QED
        BY <2>2, <2>3, <3>1, <3>2, <3>3
  <2> HIDE DEF calls, lines
  <2>5. /\ served + lines + calls <= IF Stopping THEN sent + 1 ELSE sent
        /\ ~Stopping /\ driver' # "exited" => served + lines + calls = sent
      BY <2>1, <2>2, <2>4 DEF ProcInv, Counted
  <2>6. ~Stopping /\ resp_ch # <<>> => resp_ch[1] = said
      BY DEF ProcInv, Counted
  <2> QED
      BY <2>1, <2>2, <2>5, <2>6 DEF Counted, calls, lines
<1>5. Pipes'
  <2>1. /\ driver = "recv" /\ call_ch # <<>> /\ stdin = <<>> /\ stdout = <<>>
        /\ out = <<>> /\ part = {}
      BY DEF DriverWrite, ProcInv, Pipes
  <2>2. /\ Serving' = Serving /\ stdout' = <<>> /\ out' = <<>> /\ part' = {}
      BY <2>1 DEF DriverWrite, Serving, Open, ovars
  <2>3. CASE child # "up"
    <3>1. driver' = "exited" /\ stdin' = <<>>
        BY <2>1, <2>3 DEF DriverWrite
    <3> QED
        BY <2>2, <3>1 DEF Pipes
  <2>4. CASE child = "up"
    <3>1. driver' = "reading" /\ stdin' = <<into_write(Serving)>> /\ Serving \in Requests
        BY <2>1, <2>4, NextCall, Short DEF DriverWrite
    <3>2. stdin' # <<>>
        BY <3>1, Short
    <3>3. Requests' = Requests /\ into_write(Serving') = into_write(Serving)
        BY <2>2 DEF Requests
    <3> QED
        BY <2>2, <3>1, <3>2, <3>3 DEF Pipes
  <2> QED
      BY <2>3, <2>4
<1>6. CleanStop'
    BY DEF DriverWrite, ovars, ProcInv, CleanStop
<1>7. ResponseMatchesCall'
    BY DEF DriverWrite, ovars, ProcInv, ResponseMatchesCall
<1> QED
    BY <1>1, <1>2, <1>3, <1>4, <1>5, <1>6, <1>7 DEF ProcInv

\* The driver ends when the owner is gone and the channel is drained.
LEMMA DriverHangupKeeps ==
    ASSUME ProcInv, DriverHangup
    PROVE  ProcInv'
<1> USE CallsAssumption, StopApart, Short
    DEF ProcInv, Types, Channels, Replied, Open, Stopping, Serving, ovars, cvars, DriverHangup
<1>1. Types'
    BY DEF Requests
<1>2. Channels'
    OBVIOUS
<1>3. Replied'
    OBVIOUS
<1>4. Counted'
    BY DEF Counted
<1>5. Pipes'
    BY DEF Pipes, Answering, UnderWay, Overrun
<1>6. CleanStop'
    BY DEF CleanStop, Pipes
<1>7. ResponseMatchesCall'
    BY DEF ResponseMatchesCall, Counted, Pipes
<1> QED
    BY <1>1, <1>2, <1>3, <1>4, <1>5, <1>6, <1>7 DEF ProcInv

(***************************************************************************)
(* A line taken by the driver makes nothing of the answer, all of it with  *)
(* nothing left to read, or more of it with the rest still under way.      *)
(***************************************************************************)
LEMMA LineTaken ==
    ASSUME ProcInv, TakeLine
    PROVE  /\ driver = "reading" /\ stdin = <<>> /\ said \in AnswersTo(Serving)
           /\ \/ Taken = Reading({}, {})
              \/ Taken = Reading({said}, {}) /\ stdout' = <<>> /\ out = <<>>
              \/ /\ Taken.resp = {} /\ Taken.part # {}
                 /\ Serving' = Serving => Answering'
<1>1. /\ driver = "reading" /\ stdout # <<>> /\ stdout' = Tail(stdout) /\ part' = Taken.part
      /\ said' = said /\ child' = child /\ out' = out /\ stdin' = stdin
    BY DEF TakeLine, cvars
<1>2. stdin = <<>> /\ Answering
    BY <1>1 DEF ProcInv, Pipes
<1>3. PICK pos \in Nat : ReadSoFar(said, pos, part) /\ UnderWay(pos)
    BY <1>1, <1>2 DEF Answering, Overrun
<1>4. said \in AnswersTo(Serving) /\ said \in Answer
  <2>1. Serving \in Requests
      BY DEF ProcInv, Types, Serving, Requests
  <2> QED
      BY <1>2, <2>1, AnswersKnown DEF Answering
<1> DEFINE lines == write_response(said)
           h == Head(stdout)
<1>5. /\ stdout \in Seq(Lines) /\ Len(stdout) \in Nat \ {0} /\ h = stdout[1]
      /\ Len(stdout') = Len(stdout) - 1 /\ \A i \in 1..Len(stdout') : stdout'[i] = stdout[i + 1]
  <2>1. stdout \in Seq(Lines)
      BY DEF ProcInv, Types
  <2> QED
      BY <1>1, <2>1, HeadTailProperties, EmptySeq, LenProperties
<1>6. lines \in Seq(Lines) /\ Len(lines) \in Nat
    BY <1>4, AnswerLines
<1> HIDE DEF lines, h
<1>7. /\ pos + Len(stdout) <= Len(lines)
      /\ \A i \in 1..Len(stdout) : stdout[i] \in Printable(lines[pos + i])
      /\ child = "up" => /\ Len(out) = Len(lines) - (pos + Len(stdout))
                         /\ \A i \in 1..Len(out) : out[i] = lines[pos + Len(stdout) + i]
      /\ child # "up" => out = <<>>
    BY <1>3 DEF UnderWay, lines
<1>8. pos < Len(lines) /\ h \in Printable(lines[pos + 1])
    BY <1>5, <1>6, <1>7
<1>9. \/ Taken = Reading({}, {})
      \/ pos + 1 = Len(lines) /\ Taken = Reading({said}, {})
      \/ /\ pos + 1 < Len(lines) /\ Taken = Reading({}, {Upto(said, pos)})
         /\ ReadSoFar(said, pos + 1, {Upto(said, pos)})
      \/ pos + 1 = Len(lines) /\ Wide /\ \E p : Taken = Reading({}, {p}) /\ p.op = "Scan"
  <2>1. Taken = from_read(h, part)
      BY DEF Taken, h
  <2>2. NextLine(said, pos, from_read(h, part))
      BY <1>3, <1>4, <1>8, ReadLine DEF lines
  <2> QED
      BY <2>1, <2>2 DEF NextLine, lines
<1>10. pos + 1 = Len(lines) => stdout' = <<>> /\ out = <<>>
  <2> SUFFICES ASSUME pos + 1 = Len(lines) PROVE stdout' = <<>> /\ out = <<>>
      OBVIOUS
  <2>1. Len(stdout) = 1 /\ Len(stdout') = 0
      BY <1>5, <1>6, <1>7
  <2>2. stdout' = <<>>
      BY <1>1, <1>5, <2>1, HeadTailProperties, EmptySeq
  <2>3. child = "up" => Len(out) = 0
      BY <1>6, <1>7, <2>1
  <2>4. out \in Seq(Lines)
      BY DEF ProcInv, Types
  <2> QED
      BY <1>7, <2>2, <2>3, <2>4, EmptySeq
<1>11. ASSUME pos + 1 < Len(lines), Taken = Reading({}, {Upto(said, pos)}),
              ReadSoFar(said, pos + 1, {Upto(said, pos)}), Serving' = Serving
       PROVE  Answering'
  <2>1. ReadSoFar(said, pos + 1, part)'
    <3>1. part' = {Upto(said, pos)}
        BY <1>1, <1>11 DEF Reading
    <3>2. ReadSoFar(said', pos + 1, part')
        BY <1>1, <1>11, <3>1
    <3> QED
        BY <3>2 DEF ReadSoFar, Upto
  <2>2. UnderWay(pos + 1)'
    <3>1. lines' = lines
        BY <1>1 DEF lines
    <3>2. pos + 1 + Len(stdout') = pos + Len(stdout) /\ pos + 1 \in Nat
        BY <1>5
    <3>3. \A i \in 1..Len(stdout') : stdout'[i] \in Printable(lines[pos + 1 + i])
      <4> TAKE i \in 1..Len(stdout')
      <4>1. i + 1 \in 1..Len(stdout) /\ stdout'[i] = stdout[i + 1] /\ pos + (i + 1) = pos + 1 + i
          BY <1>5
      <4> QED
          BY <1>7, <4>1
    <3> QED
        BY <1>1, <1>7, <3>1, <3>2, <3>3 DEF UnderWay, Printable, lines
  <2> QED
      BY <1>1, <1>4, <1>11, <2>1, <2>2 DEF Answering, AnswersTo
<1>12. ASSUME pos + 1 = Len(lines), Wide, NEW p, Taken = Reading({}, {p}), p.op = "Scan",
              Serving' = Serving
       PROVE  Answering'
    BY <1>1, <1>4, <1>10, <1>12 DEF Answering, AnswersTo, Overrun, Reading
<1> QED
    BY <1>1, <1>2, <1>4, <1>9, <1>10, <1>11, <1>12 DEF Reading

\* The driver goes on with a listing: the rest of it is still under way.
LEMMA DriverReadOnKeeps ==
    ASSUME ProcInv, DriverReadOn
    PROVE  ProcInv'
<1> USE CallsAssumption, StopApart, Short
    DEF ProcInv, Types, Channels, Replied, Open, Stopping, Serving, ovars, cvars,
        DriverReadOn, TakeLine
<1>1. Types'
    BY DEF Requests
<1>2. Channels'
    OBVIOUS
<1>3. Replied'
    OBVIOUS
<1>4. Counted'
    BY DEF Counted
<1>5. Pipes'
  <2>1. driver' = "reading" /\ stdin' = stdin /\ Serving' = Serving /\ TakeLine /\ Taken.part # {}
      BY DEF DriverReadOn, TakeLine, ovars, cvars, Serving, Open
  <2>2. stdin = <<>> /\ Answering'
      BY <2>1, LineTaken DEF Reading
  <2> QED
      BY <2>1, <2>2 DEF Pipes
<1>6. CleanStop'
    BY DEF CleanStop, Pipes
<1>7. ResponseMatchesCall'
    BY DEF ResponseMatchesCall, Counted, Pipes
<1> QED
    BY <1>1, <1>2, <1>3, <1>4, <1>5, <1>6, <1>7 DEF ProcInv

\* A complete response goes into the channel, and nothing of it is left in the pipe.
LEMMA DriverReadKeeps ==
    ASSUME ProcInv, DriverRead
    PROVE  ProcInv'
<1>1. /\ TakeLine /\ owner' = owner /\ sent' = sent /\ call' = call /\ got' = got
      /\ stopped' = stopped /\ call_ch' = call_ch /\ stdin' = stdin /\ child' = child
      /\ out' = out /\ served' = served /\ said' = said /\ stdout' = Tail(stdout)
      /\ part' = Taken.part
    BY DEF DriverRead, TakeLine, ovars, cvars
<1>2. Taken.resp # {}
    BY DEF DriverRead
<1>3. /\ Taken = Reading({said}, {}) /\ stdout' = <<>> /\ out = <<>> /\ stdin = <<>>
      /\ driver = "reading" /\ said \in AnswersTo(Serving)
    BY <1>1, <1>2, LineTaken DEF Reading
<1>4. part' = {} /\ Taken.resp = {said}
    BY <1>1, <1>3 DEF Reading
<1>5. Open' = Open /\ Stopping' = Stopping
    BY <1>1 DEF Open, Stopping
<1>6. CASE owner = "returned"
  <2>1. driver' = "exited" /\ resp_ch' = resp_ch
      BY <1>6 DEF DriverRead
  <2>2. Types'
      BY <1>1, <1>3, <2>1, EmptySeq DEF ProcInv, Types
  <2>3. Pipes'
      BY <1>1, <1>3, <1>4, <2>1 DEF Pipes
  <2>4. Channels' /\ Replied'
      BY <1>1, <1>3, <1>5, <1>6, <2>1 DEF ProcInv, Channels, Replied, Stopping
  <2>5. Counted'
      BY <1>1, <1>5, <1>6, <2>1 DEF ProcInv, Counted, Stopping
  <2>6. CleanStop' /\ ResponseMatchesCall'
      BY <1>1, <1>3, <1>6, <2>1 DEF ProcInv, CleanStop, ResponseMatchesCall
  <2> QED
      BY <2>2, <2>3, <2>4, <2>5, <2>6 DEF ProcInv
<1>7. CASE owner # "returned"
  <2>1. driver' = "recv" /\ resp_ch' = Append(resp_ch, said)
      BY <1>4, <1>7 DEF DriverRead
  <2>2. Types'
      BY <1>1, <1>3, <2>1, EmptySeq DEF ProcInv, Types
  <2>3. Pipes'
      BY <1>1, <1>3, <1>4, <2>1 DEF Pipes
  <2>4. CASE Open /\ resp_ch = <<>>
    <3>1. said \in Answers(call) /\ call \in Calls
        BY <1>3, <2>4, StopApart DEF ProcInv, Channels, Serving, AnswersTo
    <3>2. resp_ch' = <<said>>
        BY <2>1, <2>4, Short
    <3>3. call_ch \in {<<>>, <<Stop>>} /\ resp_ch' # <<>>
        BY <1>3, <3>2, Short DEF ProcInv, Channels
    <3>4. Channels' /\ Replied'
      <4>1. Channels'
          BY <1>1, <1>5, <2>1, <3>1, <3>3 DEF ProcInv, Channels
      <4>2. Replied'
          BY <1>1, <1>5, <2>4, <3>1, <3>2 DEF Replied
      <4> QED
          BY <4>1, <4>2
    <3>5. Counted'
      <4>1. resp_ch'[1] = said'
          BY <1>1, <3>2, Short
      <4>2. driver # "exited"
          BY <1>3
      <4> QED
          BY <1>1, <1>5, <4>1, <4>2 DEF ProcInv, Counted
    <3>6. CleanStop' /\ ResponseMatchesCall'
        BY <1>1, <1>3, <1>7, <2>4 DEF ProcInv, CleanStop, ResponseMatchesCall, Channels
    <3> QED
        BY <2>2, <2>3, <3>4, <3>5, <3>6 DEF ProcInv
  <2>5. CASE ~(Open /\ resp_ch = <<>>)
    <3>1. Serving = Stop /\ said = Stop
        BY <1>3, <2>5 DEF Serving, AnswersTo
    <3>2. call_ch = <<>> /\ Stopping
        BY <1>3, <3>1 DEF ProcInv, Channels
    <3>3. \/ ~Open /\ resp_ch' = <<Stop>>
          \/ Open /\ \E resp \in Answers(call) : resp_ch' = <<resp, Stop>>
      <4>1. resp_ch = <<>> \/ (Open /\ \E resp \in Answers(call) : resp_ch = <<resp>>)
          BY <1>3 DEF ProcInv, Replied
      <4>2. CASE resp_ch = <<>>
          BY <2>1, <2>5, <3>1, <4>2, Short
      <4>3. ASSUME Open, NEW resp \in Answers(call), resp_ch = <<resp>>
            PROVE  resp_ch' = <<resp, Stop>>
        <5>1. Append(<<resp>>, Stop) = <<resp, Stop>>
            BY AppendTwo
        <5> QED
            BY <2>1, <3>1, <4>3, <5>1
      <4> QED
          BY <4>1, <4>2, <4>3
    <3>4. resp_ch' # <<>>
        BY <3>3, Short
    <3>5. Channels' /\ Replied'
      <4>1. Channels'
          BY <1>1, <1>5, <2>1, <3>2, <3>4 DEF ProcInv, Channels
      <4>2. Replied'
          BY <1>1, <1>5, <2>1, <3>2, <3>3 DEF Replied
      <4> QED
          BY <4>1, <4>2
    <3>6. Counted'
        BY <1>1, <1>5, <3>2 DEF ProcInv, Counted
    <3>7. CleanStop' /\ ResponseMatchesCall'
        BY <1>1, <1>3, <1>7, <3>2
        DEF ProcInv, CleanStop, ResponseMatchesCall, Channels, Stopping
    <3> QED
        BY <2>2, <2>3, <3>5, <3>6, <3>7 DEF ProcInv
  <2> QED
      BY <2>4, <2>5
<1> QED
    BY <1>6, <1>7

\* The driver ends at a line that is no answer.
LEMMA DriverReadErrKeeps ==
    ASSUME ProcInv, DriverReadErr
    PROVE  ProcInv'
<1> USE CallsAssumption, StopApart, Short
    DEF ProcInv, Types, Channels, Replied, Open, Stopping, Serving, ovars, cvars,
        DriverReadErr, TakeLine
<1>1. Types'
    BY DEF Requests
<1>2. Channels'
    OBVIOUS
<1>3. Replied'
    OBVIOUS
<1>4. Counted'
    BY DEF Counted
<1>5. Pipes'
    BY DEF Pipes, Answering, UnderWay, Overrun
<1>6. CleanStop'
    BY DEF CleanStop, Pipes
<1>7. ResponseMatchesCall'
    BY DEF ResponseMatchesCall, Counted, Pipes
<1> QED
    BY <1>1, <1>2, <1>3, <1>4, <1>5, <1>6, <1>7 DEF ProcInv

\* The child reads the request as it was written and makes up an answer to it.
LEMMA ChildReadKeeps ==
    ASSUME ProcInv, ChildRead
    PROVE  ProcInv'
<1>1. /\ child = "up" /\ out = <<>> /\ stdin # <<>> /\ stdin' = Tail(stdin)
      /\ served' = served + 1 /\ owner' = owner /\ sent' = sent /\ call' = call /\ got' = got
      /\ stopped' = stopped /\ call_ch' = call_ch /\ resp_ch' = resp_ch /\ driver' = driver
      /\ part' = part /\ stdout' = stdout
    BY DEF ChildRead, ovars
<1>2. PICK req \in Requests : stdin = <<into_write(req)>>
    BY <1>1 DEF ProcInv, Pipes
<1>3. stdin' = <<>> /\ Len(stdin) = 1 /\ Len(stdin') = 0
    BY <1>1, <1>2, Short
<1>4. said' \in AnswersTo(req) /\ out' = write_response(said') /\ child' = child
  <2>1. Head(stdin) = into_write(req)
      BY <1>2, Short
  <2>2. parse_input_call(Head(stdin)) = {req}
      BY <2>1, CallParsed
  <2> QED
      BY <2>2 DEF ChildRead, AnswersTo
<1>5. said' \in Answer
    BY <1>4, AnswersKnown
<1>6. out' \in Seq(Lines) /\ Len(out') \in Nat
    BY <1>4, <1>5, AnswerLines
<1>7. Open' = Open /\ Stopping' = Stopping /\ Serving' = Serving
    BY <1>1 DEF Open, Stopping, Serving
<1>8. driver # "recv"
    BY <1>1 DEF ProcInv, Pipes
<1>9. Types'
    BY <1>1, <1>3, <1>4, <1>6, EmptySeq DEF ProcInv, Types
<1>10. Channels' /\ Replied'
    BY <1>1, <1>7 DEF ProcInv, Channels, Replied
<1>11. Counted'
  <2>1. ~Stopping => resp_ch = <<>>
      BY <1>8, ReplyWaits
  <2>2. served' = served + 1 /\ Len(stdin') = 0 /\ Len(call_ch') = Len(call_ch)
      BY <1>1, <1>3
  <2>3. served \in Nat /\ Len(call_ch) \in Nat /\ sent \in Nat
    <3>1. Len(call_ch) \in Nat
        BY Short DEF ProcInv, Channels
    <3> QED
        BY <3>1 DEF ProcInv, Counted, Types
  <2>4. /\ (served + 1) + 0 + Len(call_ch) <= IF Stopping THEN sent + 1 ELSE sent
        /\ ~Stopping /\ driver # "exited" => (served + 1) + 0 + Len(call_ch) = sent
      BY <1>3, <2>3 DEF ProcInv, Counted
  <2> DEFINE n == served + 1
  <2>5. n \in Nat
      BY <2>3
  <2> HIDE DEF n
  <2>6. /\ n + 0 + Len(call_ch) <= IF Stopping THEN sent + 1 ELSE sent
        /\ ~Stopping /\ driver # "exited" => n + 0 + Len(call_ch) = sent
      BY <2>4 DEF n
  <2>7. served' = n
      BY <2>2 DEF n
  <2> QED
      BY <1>1, <1>7, <2>1, <2>2, <2>5, <2>6, <2>7 DEF Counted
<1>12. Pipes'
  <2>1. CASE driver = "exited"
      BY <1>1, <1>3, <2>1 DEF ProcInv, Pipes
  <2>2. CASE driver = "reading"
    <3>1. stdin = <<into_write(Serving)>> /\ stdout = <<>> /\ part = {}
        BY <1>1, <2>2 DEF ProcInv, Pipes
    <3>2. Serving \in Requests
        BY DEF ProcInv, Types, Serving, Requests
    <3>3. req = Serving
      <4>1. into_write(req) = into_write(Serving)
          BY <1>2, <3>1, Short
      <4>2. {req} = {Serving}
          BY <3>2, <4>1, CallParsed
      <4> QED
          BY <4>2
    <3>4. ReadSoFar(said', 0, part')
        BY <1>1, <3>1 DEF ReadSoFar
    <3>5. UnderWay(0)'
      <4>1. stdout' = <<>> /\ Len(stdout') = 0 /\ child' = "up"
          BY <1>1, <1>4, <3>1, Short
      <4>2. Len(out') = Len(write_response(said')) - (0 + 0)
          BY <1>4, <1>6
      <4>3. \A i \in 1..Len(out') : out'[i] = write_response(said')[0 + 0 + i]
          BY <1>4, <1>6
      <4> QED
          BY <1>6, <4>1, <4>2, <4>3 DEF UnderWay
    <3>6. Answering'
      <4>1. said' \in AnswersTo(Serving')
          BY <1>4, <1>7, <3>3
      <4> QED
          BY <3>4, <3>5, <4>1 DEF Answering, AnswersTo, ReadSoFar, Upto
    <3> QED
        BY <1>1, <1>3, <2>2, <3>6 DEF Pipes
  <2> QED
      BY <1>8, <2>1, <2>2 DEF ProcInv, Types
<1>13. CleanStop' /\ ResponseMatchesCall'
  <2>1. owner # "ready"
      BY <1>8, ReadyQuiet
  <2> QED
      BY <1>1, <2>1 DEF ProcInv, CleanStop, ResponseMatchesCall
<1> QED
    BY <1>9, <1>10, <1>11, <1>12, <1>13 DEF ProcInv

\* The next line of the answer moves from the child to the pipe.
LEMMA ChildPrintKeeps ==
    ASSUME ProcInv, ChildPrint
    PROVE  ProcInv'
<1>1. /\ child = "up" /\ out # <<>> /\ out' = Tail(out)
      /\ child' = (IF said = Stop THEN "exited" ELSE "up")
      /\ owner' = owner /\ sent' = sent /\ call' = call /\ got' = got
      /\ stopped' = stopped /\ call_ch' = call_ch /\ resp_ch' = resp_ch /\ driver' = driver
      /\ part' = part /\ stdin' = stdin /\ served' = served /\ said' = said
    BY DEF ChildPrint, ovars
<1>2. PICK line \in Printable(Head(out)) : stdout' = Append(stdout, line)
    BY DEF ChildPrint
<1>3. stdout \in Seq(Lines) /\ out \in Seq(Lines)
    BY DEF ProcInv, Types
<1>4. /\ Head(out) \in Lines /\ Head(out) = out[1] /\ out' \in Seq(Lines)
      /\ Len(out) \in Nat \ {0} /\ Len(out') = Len(out) - 1
      /\ \A i \in 1..Len(out') : out'[i] = out[i + 1]
    BY <1>1, <1>3, HeadTailProperties, EmptySeq
<1>5. line \in Lines
    BY <1>4, PrintsLine
<1>6. /\ stdout' \in Seq(Lines) /\ Len(stdout) \in Nat /\ Len(stdout') = Len(stdout) + 1
      /\ stdout'[Len(stdout) + 1] = line
      /\ \A i \in 1..Len(stdout) : stdout'[i] = stdout[i]
    BY <1>2, <1>3, <1>5, AppendProperties, LenProperties
<1>7. Open' = Open /\ Stopping' = Stopping /\ Serving' = Serving
    BY <1>1 DEF Open, Stopping, Serving
<1>8. driver # "recv"
    BY <1>1 DEF ProcInv, Pipes
<1>9. Types'
    BY <1>1, <1>4, <1>6 DEF ProcInv, Types
<1>10. Channels' /\ Replied' /\ Counted'
    BY <1>1, <1>7 DEF ProcInv, Channels, Replied, Counted
<1>11. Pipes'
  <2>1. CASE driver = "exited"
      BY <1>1, <2>1 DEF ProcInv, Pipes, Requests
  <2>2. CASE driver = "reading"
    <3>1. stdin = <<>> /\ Answering
        BY <1>1, <2>2 DEF ProcInv, Pipes
    <3>2. PICK pos \in Nat : ReadSoFar(said, pos, part) /\ UnderWay(pos)
        BY <1>1, <3>1 DEF Answering, Overrun
    <3>3. said \in AnswersTo(Serving) /\ said \in Answer
      <4>1. Serving \in Requests
          BY DEF ProcInv, Types, Serving, Requests
      <4> QED
          BY <3>1, <4>1, AnswersKnown DEF Answering
    <3> DEFINE lines == write_response(said)
    <3>4. Len(lines) \in Nat /\ (said = Stop => Len(lines) = 1)
      <4>1. said = Stop => said.op # "Scan"
          BY DEF Stop
      <4> QED
          BY <3>3, <4>1, AnswerLines
    <3> HIDE DEF lines
    <3>5. /\ pos + Len(stdout) <= Len(lines)
          /\ \A i \in 1..Len(stdout) : stdout[i] \in Printable(lines[pos + i])
          /\ Len(out) = Len(lines) - (pos + Len(stdout))
          /\ \A i \in 1..Len(out) : out[i] = lines[pos + Len(stdout) + i]
        BY <1>1, <3>2 DEF UnderWay, lines
    <3>6. pos + Len(stdout') <= Len(lines) /\ Len(out') = Len(lines) - (pos + Len(stdout'))
      <4> DEFINE a == Len(stdout')
                 b == Len(out')
      <4>1. a = Len(stdout) + 1 /\ b = Len(out) - 1
          BY <1>4, <1>6
      <4> HIDE DEF a, b
      <4>2. pos + a <= Len(lines) /\ b = Len(lines) - (pos + a)
          BY <1>4, <1>6, <3>4, <3>5, <4>1
      <4> QED
          BY <4>2 DEF a, b
    <3>7. \A i \in 1..Len(stdout') : stdout'[i] \in Printable(lines[pos + i])
      <4>1. Head(out) = lines[pos + (Len(stdout) + 1)]
          BY <1>4, <1>6, <3>5
      <4>2. stdout'[Len(stdout) + 1] \in Printable(lines[pos + (Len(stdout) + 1)])
          BY <1>2, <1>6, <4>1
      <4> DEFINE a == Len(stdout')
      <4>3. a = Len(stdout) + 1
          BY <1>6
      <4> HIDE DEF a
      <4>4. \A i \in 1..a : i \in 1..Len(stdout) \/ i = Len(stdout) + 1
          BY <1>6, <4>3
      <4>5. \A i \in 1..a : stdout'[i] \in Printable(lines[pos + i])
          BY <1>6, <3>5, <4>2, <4>4
      <4> QED
          BY <4>5 DEF a
    <3>8. \A i \in 1..Len(out') : out'[i] = lines[pos + Len(stdout') + i]
      <4> DEFINE a == Len(stdout')
                 b == Len(out')
      <4>1. a = Len(stdout) + 1 /\ b = Len(out) - 1 /\ \A i \in 1..b : out'[i] = out[i + 1]
          BY <1>4, <1>6
      <4> HIDE DEF a, b
      <4>2. ASSUME NEW i \in 1..b PROVE out'[i] = lines[pos + a + i]
        <5>1. i + 1 \in 1..Len(out) /\ pos + Len(stdout) + (i + 1) = pos + a + i
            BY <1>4, <1>6, <4>1
        <5> QED
            BY <3>5, <4>1, <5>1
      <4> QED
          BY <4>2 DEF a, b
    <3>9. said = Stop => out' = <<>>
      <4>1. ASSUME said = Stop PROVE Len(out) = 1
        <5>1. Len(out) \in Nat \ {0} /\ Len(stdout) \in Nat
            BY <1>4, <1>6
        <5>2. Len(lines) = 1 /\ Len(out) = Len(lines) - (pos + Len(stdout))
            BY <3>4, <3>5, <4>1
        <5> QED
            BY <5>1, <5>2
      <4>2. Len(out) = 1 => Len(out') = 0
          BY <1>4
      <4> QED
          BY <1>4, <4>1, <4>2, EmptySeq
    <3>10. UnderWay(pos)'
        BY <1>1, <3>6, <3>7, <3>8, <3>9 DEF UnderWay, Printable, lines
    <3>11. ReadSoFar(said, pos, part)'
        BY <1>1, <3>2 DEF ReadSoFar, Upto
    <3>12. Answering'
        BY <1>1, <1>7, <3>3, <3>10, <3>11 DEF Answering, AnswersTo
    <3> QED
        BY <1>1, <2>2, <3>1, <3>12 DEF Pipes
  <2> QED
      BY <1>8, <2>1, <2>2 DEF ProcInv, Types
<1>12. CleanStop' /\ ResponseMatchesCall'
    BY <1>1 DEF ProcInv, CleanStop, ResponseMatchesCall
<1> QED
    BY <1>9, <1>10, <1>11, <1>12 DEF ProcInv

\* When the child dies, what it has printed stays in the pipe.
LEMMA ChildDiesKeeps ==
    ASSUME ProcInv, ChildDies
    PROVE  ProcInv'
<1> USE CallsAssumption, StopApart, Short
    DEF ProcInv, Types, Channels, Replied, Open, Stopping, Serving, ovars, cvars, ChildDies
<1>1. Types'
    BY DEF Requests
<1>2. Channels'
    OBVIOUS
<1>3. Replied'
    OBVIOUS
<1>4. Counted'
    BY DEF Counted
<1>5. Pipes'
    BY DEF Pipes, Answering, UnderWay, Overrun
<1>6. CleanStop'
    BY DEF CleanStop, Pipes
<1>7. ResponseMatchesCall'
    BY DEF ResponseMatchesCall, Counted, Pipes
<1> QED
    BY <1>1, <1>2, <1>3, <1>4, <1>5, <1>6, <1>7 DEF ProcInv

\* Every step of the owner, the driver and the child keeps the invariant.
LEMMA NextProc == ProcInv /\ [Next]_vars => ProcInv'
<1> SUFFICES ASSUME ProcInv, [Next]_vars PROVE ProcInv'
    OBVIOUS
<1>1. CASE UNCHANGED vars
  <2>1. Types' /\ Channels' /\ Replied'
      BY <1>1 DEF vars, ovars, cvars, ProcInv, Types, Channels, Replied, Open, Stopping, Serving
  <2>2. Counted' /\ CleanStop' /\ ResponseMatchesCall'
      BY <1>1 DEF vars, ovars, cvars, ProcInv, Counted, CleanStop, ResponseMatchesCall, Stopping
  <2>3. Pipes'
      BY <1>1 DEF vars, ovars, cvars, ProcInv, Pipes, Answering, ReadSoFar, UnderWay, Overrun,
                  Serving, Open
  <2> QED
      BY <2>1, <2>2, <2>3 DEF ProcInv
<1>2. CASE OwnerStep
    BY <1>2, SendCallKeeps, WaitRespKeeps, WaitErrKeeps, EndWorkloadKeeps, DropKeeps,
       StopSendKeeps, StopRespKeeps, StopTimeoutKeeps DEF OwnerStep
<1>3. CASE DriverStep
    BY <1>3, DriverWriteKeeps, DriverHangupKeeps, DriverReadOnKeeps, DriverReadKeeps,
       DriverReadErrKeeps DEF DriverStep
<1>4. CASE ChildStep
    BY <1>4, ChildReadKeeps, ChildPrintKeeps, ChildDiesKeeps DEF ChildStep
<1> QED
    BY <1>1, <1>2, <1>3, <1>4 DEF Next, Returned

\* Channels, pipes and actors stay in the states that ProcInv describes.
THEOREM ProcInvariant == Spec => []ProcInv
<1>1. Init => ProcInv
    BY InitProc
<1>2. ProcInv /\ [Next]_vars => ProcInv'
    BY NextProc
<1> QED
    BY <1>1, <1>2, PTL DEF Spec

------------------------------------------------------------------------------
\* A listing read in part is one, and the one the child is giving.
LEMMA PartOf ==
    ASSUME ProcInv, NEW p \in part
    PROVE  p.op = "Scan" /\ (~Wide => IsPrefixOf(p.entries, said.entries))
<1>1. driver = "reading" /\ stdin = <<>> /\ Answering
    BY DEF ProcInv, Pipes
<1>2. CASE Overrun
    BY <1>2 DEF Overrun
<1>3. ASSUME NEW pos \in Nat, ReadSoFar(said, pos, part)
      PROVE  p.op = "Scan" /\ IsPrefixOf(p.entries, said.entries)
  <2>1. pos # 0 /\ said.op = "Scan" /\ pos <= Len(said.entries) + 1
        /\ p = Upto(said, pos - 1)
      BY <1>3 DEF ReadSoFar
  <2> DEFINE n == pos - 1
  <2>2. said \in Answer
    <3>1. Serving \in Requests
        BY DEF ProcInv, Types, Serving, Requests
    <3> QED
        BY <1>1, <3>1, AnswersKnown DEF Answering
  <2>3. Len(said.entries) \in Nat
      BY <2>1, <2>2, AnswerLines
  <2>4. n \in Nat /\ n <= Len(said.entries)
      BY <2>1, <2>3
  <2> HIDE DEF n
  <2>5. p.op = "Scan" /\ p.entries = [i \in 1..n |-> said.entries[i]]
      BY <2>1 DEF Upto, n
  <2>6. Len(p.entries) = n /\ DOMAIN p.entries = 1..n
      BY <2>4, <2>5
  <2> QED
      BY <2>4, <2>5, <2>6 DEF IsPrefixOf
<1> QED
    BY <1>1, <1>2, <1>3 DEF Answering

(***************************************************************************)
(* The three actors and what is between them keep their types; the child   *)
(* reads at most one line more than the calls made, the STOP.              *)
(***************************************************************************)
THEOREM ClientProcTypes == Spec => []TypeOK
<1>1. ProcInv => TypeOK
  <2> SUFFICES ASSUME ProcInv PROVE TypeOK
      OBVIOUS
  <2>1. \A i \in DOMAIN call_ch : call_ch[i] \in Calls \cup {Stop}
    <3>1. call_ch \in {<<>>, <<call>>, <<Stop>>, <<call, Stop>>} /\ call \in Calls \cup {Stop}
        BY DEF ProcInv, Types, Channels, Requests
    <3> QED
        BY <3>1
  <2>2. \A p \in part : p.op = "Scan"
      BY PartOf
  <2>3. served \in 0..(sent + 1)
    <3>1. served \in Nat /\ sent \in Nat /\ Len(stdin) \in Nat /\ Len(call_ch) \in Nat
      <4>1. Len(call_ch) \in Nat
          BY Short DEF ProcInv, Channels
      <4> QED
          BY <4>1, LenProperties DEF ProcInv, Types, Counted
    <3> QED
        BY <3>1 DEF ProcInv, Counted
  <2> QED
      BY <2>1, <2>2, <2>3 DEF TypeOK, ProcInv, Types, Requests
<1> QED
    BY <1>1, ProcInvariant, PTL

(***************************************************************************)
(* The driver thread hands the child one request at a time and turns to    *)
(* the next only when all of its answer is read; the channels never hold   *)
(* more than a call that timed out and the STOP after it.                  *)
(***************************************************************************)
THEOREM OneRequestAtATime == Spec => []OneInFlight
<1>1. ProcInv => OneInFlight
  <2> SUFFICES ASSUME ProcInv PROVE OneInFlight
      OBVIOUS
  <2>1. Len(call_ch) + Len(resp_ch) <= 2
    <3>1. CASE resp_ch = <<>>
        BY <3>1, Short DEF ProcInv, Channels
    <3>2. CASE resp_ch # <<>>
      <4>1. call_ch \in {<<>>, <<Stop>>}
          BY <3>2 DEF ProcInv, Channels
      <4>2. Len(resp_ch) = 1 \/ (Len(resp_ch) = 2 /\ call_ch = <<>>)
          BY <3>2, Short DEF ProcInv, Replied
      <4>3. CASE call_ch = <<>>
        <5>1. Len(call_ch) = 0
            BY <4>3, Short
        <5>2. Len(resp_ch) = 1 \/ Len(resp_ch) = 2
            BY <4>2
        <5>3. CASE Len(resp_ch) = 1
            BY <5>1, <5>3
        <5>4. CASE Len(resp_ch) = 2
            BY <5>1, <5>4
        <5> QED
            BY <5>2, <5>3, <5>4
      <4>4. CASE call_ch = <<Stop>>
        <5>1. Len(call_ch) = 1 /\ call_ch # <<>>
            BY <4>4, Short
        <5> QED
            BY <4>2, <5>1
      <4> QED
          BY <4>1, <4>3, <4>4
    <3> QED
        BY <3>1, <3>2
  <2>2. Len(stdin) <= 1
    <3>1. CASE stdin = <<>>
      <4>1. Len(stdin) = 0
          BY <3>1, Short
      <4> QED
          BY <4>1
    <3>2. ASSUME NEW req, stdin = <<into_write(req)>>
          PROVE  Len(stdin) <= 1
      <4>1. Len(stdin) = 1
          BY <3>2, Short
      <4> QED
          BY <4>1
    <3> QED
        BY <3>1, <3>2 DEF ProcInv, Pipes
  <2>3. driver = "recv" => stdin = <<>> /\ stdout = <<>> /\ out = <<>> /\ part = {}
      BY DEF ProcInv, Pipes
  <2> QED
      BY <2>1, <2>2, <2>3 DEF OneInFlight
<1> QED
    BY <1>1, ProcInvariant, PTL

(***************************************************************************)
(* wait_resp returns what the client said to the call just made, also      *)
(* after a call that timed out: the owner gives up then, so a late         *)
(* response can only meet the STOP.                                        *)
(***************************************************************************)
THEOREM ResponsesMatch == Spec => []ResponseMatchesCall
<1>1. ProcInv => ResponseMatchesCall
    BY DEF ProcInv
<1> QED
    BY <1>1, ProcInvariant, PTL

(***************************************************************************)
(* stop() succeeds only on the confirmation of its own STOP, when nothing  *)
(* is left in the channels and pipes; a late response fails it.            *)
(***************************************************************************)
THEOREM StopsClean == Spec => []CleanStop
<1>1. ProcInv => CleanStop
    BY DEF ProcInv
<1> QED
    BY <1>1, ProcInvariant, PTL

(***************************************************************************)
(* The driver reads back just what the client prints, as long as the       *)
(* client puts single spaces between its segments (without that it does    *)
(* not: the run spaces).                                                   *)
(***************************************************************************)
THEOREM AnswersReadBack == ASSUME ~Wide PROVE Spec => []ReadBack
<1>1. ProcInv => ReadBack
  <2> SUFFICES ASSUME ProcInv PROVE ReadBack
      OBVIOUS
  <2>1. \A p \in part : IsPrefixOf(p.entries, said.entries)
      BY PartOf
  <2>2. ASSUME driver = "reading", child = "up", stdin = <<>>, out = <<>>, stdout = <<>>
        PROVE  FALSE
    <3>1. Answering
        BY <2>2 DEF ProcInv, Pipes
    <3>2. PICK pos \in Nat : ReadSoFar(said, pos, part) /\ UnderWay(pos)
        BY <3>1 DEF Answering, Overrun
    <3>3. said \in Answer
      <4>1. Serving \in Requests
          BY DEF ProcInv, Types, Serving, Requests
      <4> QED
          BY <3>1, <4>1, AnswersKnown DEF Answering
    <3> DEFINE len == Len(write_response(said))
    <3>4. len \in Nat /\ len >= 1
          /\ (said.op = "Scan" => Len(said.entries) \in Nat /\ len = Len(said.entries) + 2)
        BY <3>3, AnswerLines
    <3>5. Len(out) = len - (pos + Len(stdout)) /\ Len(out) = 0 /\ Len(stdout) = 0
        BY <2>2, <3>2, Short DEF UnderWay
    <3> HIDE DEF len
    <3>6. pos = len
        BY <3>4, <3>5
    <3> QED
        BY <3>2, <3>4, <3>6 DEF ReadSoFar
  <2> QED
      BY <2>1, <2>2 DEF ReadBack
<1> QED
    BY <1>1, ProcInvariant, PTL

------------------------------------------------------------------------------
(***************************************************************************)
(* The handle as its owner sees it.  Once a call is made and as long as    *)
(* its response is not taken, the link is "called" until the first of two  *)
(* things: a response is in the channel, or the driver thread is gone.     *)
(***************************************************************************)
\* The five views, one at a time.
LEMMA Views ==
    ASSUME ProcInv
    PROVE  /\ stopped = "ok" => LinkView = [st |-> "stopped"]
           /\ stopped # "ok" /\ ~Open => LinkView = [st |-> "idle"]
           /\ stopped # "ok" /\ Open /\ resp_ch # <<>>
                => LinkView = [st |-> "replied", resp |-> Head(resp_ch)]
           /\ stopped # "ok" /\ Open /\ resp_ch = <<>> /\ driver = "exited"
                => LinkView = [st |-> "dead"]
           /\ stopped # "ok" /\ Open /\ resp_ch = <<>> /\ driver # "exited"
                => LinkView = [st |-> "called", call |-> call]
<1>1. sent = 0 \/ got # {} <=> ~Open
    BY DEF ProcInv, Types, Open
<1> QED
    BY <1>1 DEF LinkView

\* What the view rests on: as long as none of it changes, neither does the view.
LEMMA SameView ==
    ASSUME UNCHANGED <<stopped, sent, got, resp_ch, call>>,
           (driver' = "exited") = (driver = "exited")
    PROVE  UNCHANGED LinkView
    BY DEF LinkView

\* send_call opens the call: the driver thread is there to take it.
LEMMA SendCallLink ==
    ASSUME ProcInv, ProcInv', SendCall
    PROVE  Contract!MakeCall
<1>1. ~Open /\ resp_ch = <<>> /\ driver = "recv"
    BY ReadyQuiet DEF SendCall
<1>2. stopped # "ok"
    BY DEF ProcInv, Channels, SendCall
<1>3. /\ sent' = sent + 1 /\ got' = {} /\ call' \in Calls /\ stopped' = stopped
      /\ resp_ch' = resp_ch /\ driver' = driver
    BY DEF SendCall
<1>4. sent + 1 > 0
    BY DEF ProcInv, Types
<1>5. Open'
    BY <1>3, <1>4 DEF Open
<1>6. LinkView = [st |-> "idle"]
    BY <1>1, <1>2, Views
<1>7. LinkView' = [st |-> "called", call |-> call']
    BY <1>1, <1>2, <1>3, <1>4 DEF LinkView
<1> QED
    BY <1>3, <1>6, <1>7 DEF Contract!MakeCall, Contract!Idle

\* wait_resp takes the response that waits.
LEMMA WaitRespLink ==
    ASSUME ProcInv, WaitResp
    PROVE  Contract!TakeReply
<1>1. Open /\ stopped # "ok" /\ resp_ch # <<>>
    BY DEF ProcInv, Channels, WaitResp
<1>2. got' # {} /\ stopped' = stopped
    BY DEF WaitResp
<1>3. LinkView.st = "replied"
    BY <1>1, Views
<1>4. LinkView' = [st |-> "idle"]
    BY <1>1, <1>2 DEF LinkView
<1> QED
    BY <1>3, <1>4 DEF Contract!TakeReply, Contract!Idle

\* stop() gets the confirmation when no call is open, and the late response of
\* the open call otherwise.
LEMMA StopRespLink ==
    ASSUME ProcInv, StopResp
    PROVE  Contract!Stop \/ Contract!TakeReply
<1>1. stopped # "ok" /\ resp_ch # <<>> /\ got' = {Head(resp_ch)}
      /\ (Head(resp_ch) = Stop => stopped' = "ok")
      /\ (Head(resp_ch) # Stop => stopped' = "err")
    BY DEF ProcInv, Channels, StopResp
<1>2. CASE Open
  <2>1. Head(resp_ch) \in Answers(call) /\ call \in Calls
      BY <1>1, <1>2, Short DEF ProcInv, Channels, Replied
  <2>2. stopped' = "err"
      BY <1>1, <2>1, StopApart
  <2>3. LinkView.st = "replied"
      BY <1>1, <1>2, Views
  <2>4. LinkView' = [st |-> "idle"]
      BY <1>1, <2>2 DEF LinkView
  <2> QED
      BY <2>3, <2>4 DEF Contract!TakeReply, Contract!Idle
<1>3. CASE ~Open
  <2>1. Head(resp_ch) = Stop
      BY <1>1, <1>3, Short DEF ProcInv, Replied
  <2>2. LinkView = [st |-> "idle"]
      BY <1>1, <1>3, Views
  <2>3. LinkView' = [st |-> "stopped"]
      BY <1>1, <2>1 DEF LinkView
  <2> QED
      BY <2>2, <2>3 DEF Contract!Stop, Contract!Idle
<1> QED
    BY <1>2, <1>3

\* The driver thread ends: that breaks the link if a call waits for it, and
\* nobody sees it otherwise.
LEMMA DriverGoneLink ==
    ASSUME ProcInv, driver # "exited", driver' = "exited", resp_ch' = resp_ch,
           UNCHANGED ovars
    PROVE  Contract!Break \/ UNCHANGED LinkView
<1>1. UNCHANGED <<stopped, sent, got, resp_ch, call>>
    BY DEF ovars
<1>2. CASE stopped # "ok" /\ Open /\ resp_ch = <<>>
  <2>1. LinkView.st = "called"
      BY <1>2, Views
  <2>2. LinkView' = [st |-> "dead"]
    <3>1. ~(sent = 0 \/ got # {})
        BY <1>2 DEF Open
    <3> QED
        BY <1>1, <1>2, <3>1 DEF LinkView
  <2> QED
      BY <2>1, <2>2 DEF Contract!Break
<1>3. CASE ~(stopped # "ok" /\ Open /\ resp_ch = <<>>)
  <2>1. stopped = "ok" \/ sent = 0 \/ got # {} \/ resp_ch # <<>>
      BY <1>3 DEF ProcInv, Types, Open
  <2>2. UNCHANGED LinkView
      BY <1>1, <2>1 DEF LinkView
  <2> QED
      BY <2>2
<1> QED
    BY <1>2, <1>3

\* The driver passes a response on: the answer to the open call, or the
\* confirmation of the STOP, which nobody sees before it is taken.
LEMMA DriverReadLink ==
    ASSUME ProcInv, DriverRead
    PROVE  Contract!Reply \/ Contract!Break \/ UNCHANGED LinkView
<1>1. TakeLine /\ UNCHANGED ovars /\ Taken.resp # {}
    BY DEF DriverRead, TakeLine
<1>2. Taken = Reading({said}, {}) /\ driver = "reading" /\ said \in AnswersTo(Serving)
    BY <1>1, LineTaken DEF Reading
<1>3. Taken.resp = {said}
    BY <1>2 DEF Reading
<1>4. UNCHANGED <<stopped, sent, got, call>>
    BY <1>1 DEF ovars
<1>5. CASE owner = "returned"
  <2>1. driver' = "exited" /\ resp_ch' = resp_ch
      BY <1>5 DEF DriverRead
  <2> QED
      BY <1>1, <1>2, <2>1, DriverGoneLink
<1>6. CASE owner # "returned"
  <2>1. driver' = "recv" /\ resp_ch' = Append(resp_ch, said)
      BY <1>3, <1>6 DEF DriverRead
  <2>2. stopped # "ok"
      BY <1>6 DEF ProcInv, Channels
  <2>3. CASE Open /\ resp_ch = <<>>
    <3>1. said \in Answers(call)
        BY <1>2, <2>3, StopApart DEF ProcInv, Channels, Serving, AnswersTo
    <3>2. resp_ch' = <<said>> /\ resp_ch' # <<>> /\ Head(resp_ch') = said
        BY <2>1, <2>3, Short
    <3>3. LinkView = [st |-> "called", call |-> call]
        BY <1>2, <2>2, <2>3, Views
    <3>4. LinkView' = [st |-> "replied", resp |-> said]
      <4>1. ~(sent = 0 \/ got # {})
          BY <2>3 DEF Open
      <4> QED
          BY <1>4, <2>2, <3>2, <4>1 DEF LinkView
    <3> QED
        BY <3>1, <3>3, <3>4 DEF Contract!Reply
  <2>4. CASE Open /\ resp_ch # <<>>
    <3>1. PICK resp \in Answers(call) : resp_ch = <<resp>>
        BY <1>2, <2>4 DEF ProcInv, Replied
    <3>2. resp_ch' = <<resp, said>>
      <4>1. Append(<<resp>>, said) = <<resp, said>>
          BY AppendTwo
      <4> QED
          BY <2>1, <3>1, <4>1
    <3>3. Head(resp_ch') = Head(resp_ch) /\ resp_ch' # <<>>
        BY <3>1, <3>2, Short
    <3>4. UNCHANGED LinkView
        BY <1>4, <2>4, <3>3 DEF LinkView
    <3> QED
        BY <3>4
  <2>5. CASE ~Open
    <3>1. sent = 0 \/ got # {}
        BY <2>5 DEF ProcInv, Types, Open
    <3>2. UNCHANGED LinkView
        BY <1>4, <3>1 DEF LinkView
    <3> QED
        BY <3>2
  <2> QED
      BY <2>3, <2>4, <2>5
<1> QED
    BY <1>5, <1>6

\* Every step is a step of the link or leaves its view alone.
LEMMA NextLink ==
    ASSUME ProcInv, ProcInv', [Next]_vars
    PROVE  [Contract!LinkNext]_LinkView
<1>1. CASE SendCall
    BY <1>1, SendCallLink DEF Contract!LinkNext
<1>2. CASE WaitResp
    BY <1>2, WaitRespLink DEF Contract!LinkNext
<1>3. CASE WaitErr \/ EndWorkload \/ Drop
  <2>1. UNCHANGED <<stopped, sent, got, resp_ch, call>> /\ UNCHANGED driver
      BY <1>3 DEF WaitErr, EndWorkload, Drop
  <2> QED
      BY <2>1, SameView
<1>4. CASE StopSend \/ StopTimeout
  <2>1. UNCHANGED <<sent, got, resp_ch, call>> /\ UNCHANGED driver
      BY <1>4 DEF StopSend, StopTimeout
  <2>2. stopped # "ok" /\ stopped' # "ok"
      BY <1>4 DEF ProcInv, Channels, StopSend, StopTimeout
  <2>3. UNCHANGED LinkView
      BY <2>1, <2>2 DEF LinkView
  <2> QED
      BY <2>3
<1>5. CASE StopResp
    BY <1>5, StopRespLink DEF Contract!LinkNext
<1>6. CASE DriverWrite
  <2>1. UNCHANGED ovars /\ resp_ch' = resp_ch /\ driver # "exited"
      BY <1>6 DEF DriverWrite
  <2>2. CASE driver' = "exited"
      BY <2>1, <2>2, DriverGoneLink DEF Contract!LinkNext
  <2>3. CASE driver' # "exited"
    <3>1. UNCHANGED <<stopped, sent, got, resp_ch, call>>
        BY <2>1 DEF ovars
    <3> QED
        BY <2>1, <2>3, <3>1, SameView
  <2> QED
      BY <2>2, <2>3
<1>7. CASE DriverHangup \/ DriverReadErr
  <2>1. UNCHANGED ovars /\ resp_ch' = resp_ch /\ driver # "exited" /\ driver' = "exited"
      BY <1>7 DEF DriverHangup, DriverReadErr, TakeLine
  <2> QED
      BY <2>1, DriverGoneLink DEF Contract!LinkNext
<1>8. CASE DriverRead
    BY <1>8, DriverReadLink DEF Contract!LinkNext
<1>9. CASE DriverReadOn \/ ChildStep \/ Returned \/ UNCHANGED vars
  <2>1. UNCHANGED <<stopped, sent, got, resp_ch, call>> /\ UNCHANGED driver
      BY <1>9 DEF DriverReadOn, TakeLine, ChildStep, ChildRead, ChildPrint, ChildDies,
                  Returned, vars, ovars
  <2> QED
      BY <2>1, SameView
<1> QED
    BY <1>1, <1>2, <1>3, <1>4, <1>5, <1>6, <1>7, <1>8, <1>9
    DEF Next, OwnerStep, DriverStep

(***************************************************************************)
(* The handle implements the link that the fuzzer relies on: channels,     *)
(* driver thread, pipes and child take it only through send_call, a        *)
(* response to that call or none, wait_resp, and a stop with no call open. *)
(***************************************************************************)
THEOREM ProcImplementsLink == Spec => ImplementsLink
<1>1. Init => Contract!LinkInit
    BY DEF Init, LinkView, Contract!LinkInit, Contract!Idle
<1>2. ProcInv /\ ProcInv' /\ [Next]_vars => [Contract!LinkNext]_LinkView
    BY NextLink
<1> QED
    BY <1>1, <1>2, ProcInvariant, PTL DEF Spec, ImplementsLink, Contract!LinkSpec
==============================================================================
