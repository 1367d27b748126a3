-------------------------- MODULE McpServerProofs --------------------------
(***************************************************************************)
(* Proofs about McpServer for any number of calls, tokens and contents,    *)
(* any cap and any number of changes by other clients.                     *)
(***************************************************************************)
EXTENDS McpServer, TLAPS

Stages == {"gate", "confirm", "dispatch", "tool", "done"}
Begun == [pc : Stages, answer : Answers, got : Contents \cup {None}, req : Requests]
Exchange == [st : {"none", "sent", "admitted", "answered"}, route : Tools \cup {"token_self"},
             code : Codes, content : Contents \cup {None}]

\* TypeOK with the shape of a call: none yet, or one with its request.
Typed ==
    /\ kind \in [Tokens -> Kinds] /\ live \subseteq Tokens
    /\ disk \in Disks /\ changes \in 0 .. MaxChanges
    /\ call \in [Calls -> {NoCall} \cup Begun]
    /\ wire \in [Calls -> Exchange]
    /\ did \subseteq Calls /\ dead \subseteq Calls

(***************************************************************************)
(* What holds of each call.                                                *)
(***************************************************************************)

\* The backend is asked about the token first, and for the tool only from then on.
Phases(c) ==
    /\ call[c].pc = "idle" => c \notin dead
    /\ call[c].pc \in {"idle", "gate"} => wire[c] = NoWire
    /\ call[c].pc \in {"confirm", "dispatch"} => wire[c].route = "token_self"
    /\ call[c].pc = "tool" => wire[c].route # "token_self"
    /\ call[c].pc # "done" => call[c].answer = "none"
    /\ wire[c].st = "admitted" => wire[c].route \in Mutating

\* A request with a dead token gets no further than the question about it.
DeadStops(c) ==
    /\ c \in dead => Bearer(c) \notin live
    /\ c \in dead => ~(wire[c].st = "answered" /\ wire[c].code = "ok")
    /\ c \in dead => wire[c].route = "token_self" /\ call[c].pc # "dispatch" /\ call[c].answer # "ok"

\* The routes a tool's handler asks for.
Asked(tool) == IF tool = "download_file" THEN {"list_files", "download_file"} ELSE {tool}

\* Behind the gate there are agents, and on the wire what their tool and their tier allow.
ForAgents(c) ==
    /\ call[c].pc = "dispatch" => kind[Bearer(c)].type = "agent"
    /\ wire[c].route # "token_self" =>
          /\ kind[Bearer(c)].type = "agent"
          /\ call[c].req.tool \in Tools
          /\ kind[Bearer(c)].scope >= ToolScope(call[c].req.tool)
          /\ wire[c].route \in Asked(call[c].req.tool)
          /\ wire[c].code # "forbidden"

\* What the backend did for a call, by the state of its exchange.
WorkKnown(c) ==
    /\ c \in did => wire[c].route \in Mutating /\ wire[c].st = "answered"
    /\ wire[c].st = "answered" /\ wire[c].code # "internal_error" /\ wire[c].route \in Mutating =>
          (c \in did <=> wire[c].code = "ok")

\* AnswersAreTrue and DownloadWithinCap, for one call.
Told(c) ==
    /\ call[c].answer = "ok" /\ call[c].req.tool \in Mutating => c \in did
    /\ call[c].answer \notin {"none", "ok", "backend_unreachable", "internal_error"} =>
          /\ c \notin did
          /\ ~(wire[c].st \in {"sent", "admitted"} /\ wire[c].route \in Mutating)
    /\ call[c].got # None /\ call[c].req.tool = "download_file" => Size(call[c].got) <= Cap

CallInv(c) == Phases(c) /\ DeadStops(c) /\ ForAgents(c) /\ WorkKnown(c) /\ Told(c)

Inv == Typed /\ \A c \in Calls : CallInv(c)

LEMMA InitInv == Init => Inv
<1> SUFFICES ASSUME Init PROVE Inv
  OBVIOUS
<1>1. NoWire \in Exchange /\ NoWire.st = "none" /\ NoWire.route = "token_self" /\ NoCall.pc = "idle"
      /\ NoCall.answer = "none" /\ NoCall.got = None
  BY DEF NoWire, NoCall, Exchange, Codes
<1>2. Typed
  BY <1>1, Parameters DEF Init, Typed
<1>3. \A c \in Calls : CallInv(c)
  BY <1>1 DEF Init, CallInv, Phases, DeadStops, ForAgents, WorkKnown, Told, Mutating, Removals
<1> QED BY <1>2, <1>3 DEF Inv

\* A step leaves the calls alone that it is not about, though tokens may be revoked.
LEMMA Frame ==
    ASSUME NEW d \in Calls, CallInv(d), call'[d] = call[d], wire'[d] = wire[d], kind' = kind,
           live' \subseteq live, d \in did' <=> d \in did, d \in dead' <=> d \in dead
    PROVE  CallInv(d)'
BY DEF CallInv, Phases, DeadStops, ForAgents, WorkKnown, Told, Bearer

\* A call that is begun has its record.
LEMMA HasBegun ==
    ASSUME Typed, NEW c \in Calls, call[c].pc # "idle"
    PROVE  call[c] \in Begun
BY DEF Typed, NoCall

\* The end of a call writes its answer and nothing else of it.
LEMMA AnswerFacts ==
    ASSUME Typed, NEW c \in Calls, call[c].pc # "idle", NEW code \in Answers, AnswerIs(c, code)
    PROVE  /\ call' \in [Calls -> {NoCall} \cup Begun]
           /\ call'[c].pc = "done" /\ call'[c].answer = code
           /\ call'[c].got = call[c].got /\ call'[c].req = call[c].req
           /\ \A d \in Calls \ {c} : call'[d] = call[d]
<1>1. call[c] \in Begun
  BY HasBegun
<1> DEFINE new == [call[c] EXCEPT !.pc = "done", !.answer = code]
<1>2. new \in Begun /\ new.pc = "done" /\ new.answer = code /\ new.got = call[c].got /\ new.req = call[c].req
  BY <1>1 DEF Begun, Stages
<1>3. call' = [call EXCEPT ![c] = new]
  BY DEF AnswerIs
<1> HIDE DEF new
<1> QED BY <1>2, <1>3 DEF Typed

\* A call goes on to another stage.
LEMMA StageFacts ==
    ASSUME Typed, NEW c \in Calls, call[c].pc # "idle", NEW pc \in Stages,
           call' = [call EXCEPT ![c].pc = pc]
    PROVE  /\ call' \in [Calls -> {NoCall} \cup Begun]
           /\ call'[c].pc = pc /\ call'[c].answer = call[c].answer
           /\ call'[c].got = call[c].got /\ call'[c].req = call[c].req
           /\ \A d \in Calls \ {c} : call'[d] = call[d]
<1>1. call[c] \in Begun
  BY HasBegun
<1> DEFINE new == [call[c] EXCEPT !.pc = pc]
<1>2. new \in Begun /\ new.pc = pc /\ new.answer = call[c].answer /\ new.got = call[c].got /\ new.req = call[c].req
  BY <1>1 DEF Begun
<1>3. call' = [call EXCEPT ![c] = new]
  OBVIOUS
<1> HIDE DEF new
<1> QED BY <1>2, <1>3 DEF Typed

\* A request to the backend starts afresh.
LEMMA AskFacts ==
    ASSUME Typed, NEW c \in Calls, NEW route \in Tools \cup {"token_self"}, Ask(c, route)
    PROVE  /\ wire' \in [Calls -> Exchange]
           /\ wire'[c].st = "sent" /\ wire'[c].route = route /\ wire'[c].code = "ok"
           /\ \A d \in Calls \ {c} : wire'[d] = wire[d]
<1> DEFINE new == [NoWire EXCEPT !.st = "sent", !.route = route]
<1>1. new \in Exchange /\ new.st = "sent" /\ new.route = route /\ new.code = "ok"
  BY DEF NoWire, Exchange, Codes
<1>2. wire' = [wire EXCEPT ![c] = new]
  BY DEF Ask
<1> HIDE DEF new
<1> QED BY <1>1, <1>2 DEF Typed

\* An answer of the backend keeps the route it answers.
LEMMA ReplyFacts ==
    ASSUME Typed, NEW c \in Calls, NEW code \in Codes, NEW content \in Contents \cup {None},
           Reply(c, code, content)
    PROVE  /\ wire' \in [Calls -> Exchange]
           /\ wire'[c].st = "answered" /\ wire'[c].route = wire[c].route /\ wire'[c].code = code
           /\ wire'[c].content = content
           /\ \A d \in Calls \ {c} : wire'[d] = wire[d]
<1> DEFINE new == [wire[c] EXCEPT !.st = "answered", !.code = code, !.content = content]
<1>1. wire[c] \in Exchange
  BY DEF Typed
<1>2. new \in Exchange /\ new.st = "answered" /\ new.route = wire[c].route /\ new.code = code
      /\ new.content = content
  BY <1>1 DEF Exchange
<1>3. wire' = [wire EXCEPT ![c] = new]
  BY DEF Reply
<1> HIDE DEF new
<1> QED BY <1>2, <1>3 DEF Typed

\* A step about the call c keeps the invariant if it keeps c's part of it.
LEMMA OneCall ==
    ASSUME Inv, NEW c \in Calls, Typed', CallInv(c)', UNCHANGED <<kind, live>>,
           \A d \in Calls \ {c} : /\ call'[d] = call[d] /\ wire'[d] = wire[d]
                                  /\ d \in did' <=> d \in did
                                  /\ d \in dead' <=> d \in dead
    PROVE  Inv'
<1>1. \A d \in Calls \ {c} : CallInv(d)'
  BY Frame DEF Inv
<1> QED BY <1>1 DEF Inv

\* An answer that is true where it is given keeps the invariant.
LEMMA AnswerInv ==
    ASSUME Inv, NEW c \in Calls, call[c].pc \notin {"idle", "done"}, NEW code \in Answers, AnswerIs(c, code),
           UNCHANGED <<kind, live, disk, changes, wire, did, dead>>,
           code = "ok" => c \notin dead /\ call[c].req.tool \notin Mutating,
           code \notin {"ok", "backend_unreachable", "internal_error"} =>
              /\ c \notin did
              /\ ~(wire[c].st \in {"sent", "admitted"} /\ wire[c].route \in Mutating)
    PROVE  Inv'
<1>1. Typed /\ CallInv(c)
  BY DEF Inv
<1>2. /\ call' \in [Calls -> {NoCall} \cup Begun]
      /\ call'[c].pc = "done" /\ call'[c].answer = code
      /\ call'[c].got = call[c].got /\ call'[c].req = call[c].req
      /\ \A d \in Calls \ {c} : call'[d] = call[d]
  BY <1>1, AnswerFacts
<1>3. Typed'
  BY <1>1, <1>2 DEF Typed
<1>4. Phases(c)' /\ DeadStops(c)' /\ ForAgents(c)' /\ WorkKnown(c)'
  BY <1>1, <1>2 DEF CallInv, Phases, DeadStops, ForAgents, WorkKnown, Bearer
<1>5. Told(c)'
  BY <1>1, <1>2 DEF CallInv, Told
<1> QED BY <1>2, <1>3, <1>4, <1>5, OneCall DEF CallInv

LEMMA PostInv ==
    ASSUME Inv, NEW c \in Calls, NEW r \in Offered(c), Post(c, r)
    PROVE  Inv'
<1> DEFINE new == [pc |-> "gate", answer |-> "none", got |-> None, req |-> r]
<1>1. Typed /\ CallInv(c) /\ r \in Requests /\ call[c].pc = "idle"
  BY Offers DEF Inv, Post
<1>2. new \in Begun /\ new.pc = "gate" /\ new.answer = "none" /\ new.got = None /\ new.req = r
  BY <1>1 DEF Begun, Stages, Answers
<1>3. call' = [call EXCEPT ![c] = new]
  BY DEF Post
<1> HIDE DEF new
<1>4. call' \in [Calls -> {NoCall} \cup Begun] /\ call'[c] = new /\ \A d \in Calls \ {c} : call'[d] = call[d]
  BY <1>1, <1>2, <1>3 DEF Typed
<1>5. /\ UNCHANGED <<kind, live, disk, changes, wire, did>>
      /\ dead' = IF r.bearer \in live THEN dead ELSE dead \cup {c}
  BY DEF Post
<1>6. Typed'
  BY <1>1, <1>4, <1>5 DEF Typed
<1>7. wire[c] = NoWire /\ c \notin dead /\ NoWire.st = "none" /\ NoWire.route = "token_self"
  BY <1>1 DEF CallInv, Phases, NoWire
<1>8. c \notin did
  BY <1>1, <1>7 DEF CallInv, WorkKnown
<1>9. CallInv(c)'
  BY <1>2, <1>4, <1>5, <1>7, <1>8 DEF CallInv, Phases, DeadStops, ForAgents, WorkKnown, Told, Bearer
<1> QED BY <1>4, <1>5, <1>6, <1>9, OneCall

LEMMA GateRefusesInv ==
    ASSUME Inv, NEW c \in Calls, GateRefuses(c)
    PROVE  Inv'
<1>1. Typed /\ CallInv(c) /\ call[c].pc = "gate" /\ call[c].req.form # "ok"
  BY DEF Inv, GateRefuses
<1>2. call[c].req.form \in Forms \ {"ok"}
  BY <1>1, HasBegun DEF Begun, Requests
<1>3. GateAnswer(call[c].req.form) \in Answers \ {"ok", "none"}
  BY <1>2 DEF GateAnswer, Forms, Answers, Codes
<1>4. wire[c].st = "none"
  BY <1>1 DEF CallInv, Phases, NoWire
<1>5. c \notin did
  BY <1>1, <1>4 DEF CallInv, WorkKnown
<1> QED BY <1>1, <1>3, <1>4, <1>5, AnswerInv DEF GateRefuses

\* The gate asks about the token each time.
LEMMA GateAsksInv ==
    ASSUME Inv, NEW c \in Calls, GateAsks(c)
    PROVE  Inv'
<1>1. Typed /\ CallInv(c) /\ call[c].pc = "gate" /\ UNCHANGED <<kind, live, disk, changes, did, dead>>
  BY DEF Inv, GateAsks
<1>2. /\ call' \in [Calls -> {NoCall} \cup Begun]
      /\ call'[c].pc = "confirm" /\ call'[c].answer = call[c].answer
      /\ call'[c].got = call[c].got /\ call'[c].req = call[c].req
      /\ \A d \in Calls \ {c} : call'[d] = call[d]
  BY <1>1, StageFacts DEF GateAsks, Stages
<1>3. /\ wire' \in [Calls -> Exchange]
      /\ wire'[c].st = "sent" /\ wire'[c].route = "token_self" /\ wire'[c].code = "ok"
      /\ \A d \in Calls \ {c} : wire'[d] = wire[d]
  BY <1>1, AskFacts DEF GateAsks
<1>4. Typed'
  BY <1>1, <1>2, <1>3 DEF Typed
<1>5. call[c].answer = "none" /\ c \notin did
  BY <1>1 DEF CallInv, Phases, WorkKnown, NoWire
<1>6. Phases(c)' /\ DeadStops(c)' /\ ForAgents(c)' /\ WorkKnown(c)'
  BY <1>1, <1>2, <1>3, <1>5 DEF CallInv, Phases, DeadStops, ForAgents, WorkKnown, Bearer
<1>7. Told(c)'
  BY <1>1, <1>2, <1>5 DEF CallInv, Told
<1> QED BY <1>1, <1>2, <1>3, <1>4, <1>6, <1>7, OneCall DEF CallInv

\* The backend's word about a token lets an agent in, and nobody whose token was dead.
LEMMA ConfirmedInv ==
    ASSUME Inv, NEW c \in Calls, Confirmed(c)
    PROVE  Inv'
<1>1. Typed /\ CallInv(c) /\ call[c].pc = "confirm" /\ wire[c].st = "answered"
      /\ UNCHANGED <<kind, live, disk, changes, wire, did, dead>>
  BY DEF Inv, Confirmed
<1>2. wire[c].route = "token_self" /\ call[c].answer = "none"
  BY <1>1 DEF CallInv, Phases
<1>3. c \notin did
  BY <1>1, <1>2 DEF CallInv, WorkKnown, Mutating, Removals
<1>4. ASSUME NEW code \in {"wrong_token_type", "unauthorized", "backend_unreachable"}, AnswerIs(c, code)
      PROVE  Inv'
  <2>1. code \in Answers /\ code # "ok"
    BY <1>4 DEF Answers, Codes
  <2> QED BY <1>1, <1>3, <1>4, <2>1, AnswerInv
<1>5. ASSUME wire[c].code = "ok", Accepts(Bearer(c)), call' = [call EXCEPT ![c].pc = "dispatch"]
      PROVE  Inv'
  <2>1. /\ call' \in [Calls -> {NoCall} \cup Begun]
        /\ call'[c].pc = "dispatch" /\ call'[c].answer = call[c].answer
        /\ call'[c].got = call[c].got /\ call'[c].req = call[c].req
        /\ \A d \in Calls \ {c} : call'[d] = call[d]
    BY <1>1, <1>5, StageFacts DEF Stages
  <2>2. Typed'
    BY <1>1, <2>1 DEF Typed
  <2>3. c \notin dead /\ kind[Bearer(c)].type = "agent"
    BY <1>1, <1>5 DEF CallInv, DeadStops, Accepts
  <2>4. Phases(c)' /\ DeadStops(c)' /\ ForAgents(c)' /\ WorkKnown(c)'
    BY <1>1, <1>2, <1>3, <2>1, <2>3 DEF CallInv, Phases, DeadStops, ForAgents, WorkKnown, Bearer
  <2>5. Told(c)'
    BY <1>1, <1>2, <2>1 DEF CallInv, Told
  <2> QED BY <1>1, <2>1, <2>2, <2>4, <2>5, OneCall DEF CallInv
<1> QED BY <1>4, <1>5 DEF Confirmed

\* What dispatch says by itself.
LEMMA DispatchInv ==
    ASSUME Inv, NEW c \in Calls, ListTools(c) \/ DispatchRefuses(c)
    PROVE  Inv'
<1>1. Typed /\ CallInv(c) /\ call[c].pc = "dispatch" /\ UNCHANGED <<kind, live, disk, changes, wire, did, dead>>
  BY DEF Inv, ListTools, DispatchRefuses
<1>2. wire[c].route = "token_self" /\ c \notin dead
  BY <1>1 DEF CallInv, Phases, DeadStops
<1>3. wire[c].route \notin Mutating /\ c \notin did
  BY <1>1, <1>2 DEF CallInv, WorkKnown, Mutating, Removals
<1>4. CASE ListTools(c)
  <2>1. AnswerIs(c, "ok") /\ call[c].req.tool \notin Mutating /\ "ok" \in Answers
    BY <1>4 DEF ListTools, Mutating, Removals, Answers, Codes
  <2> QED BY <1>1, <1>2, <2>1, AnswerInv
<1>5. CASE DispatchRefuses(c)
  <2> DEFINE code == Refusal(call[c].req, kind[Bearer(c)].scope)
  <2>1. code # "ok" /\ AnswerIs(c, code)
    BY <1>5 DEF DispatchRefuses
  <2>2. code \in Answers
    BY DEF Refusal, Answers, Codes
  <2> HIDE DEF code
  <2> QED BY <1>1, <1>3, <2>1, <2>2, AnswerInv
<1> QED BY <1>4, <1>5

\* A tool's first request goes out for an agent of its tier, on the tool's own route.
LEMMA ForwardInv ==
    ASSUME Inv, NEW c \in Calls, Forward(c)
    PROVE  Inv'
<1>1. Typed /\ CallInv(c) /\ call[c].pc = "dispatch" /\ UNCHANGED <<kind, live, disk, changes, did, dead>>
  BY DEF Inv, Forward
<1>2. call[c].req \in Requests /\ Bearer(c) \in Tokens
  BY <1>1, HasBegun DEF Begun, Requests, Bearer
<1>3. kind[Bearer(c)].scope \in 0 .. 2
  BY <1>1, <1>2 DEF Typed, Kinds
<1>4. call[c].req.tool \in Tools /\ kind[Bearer(c)].scope >= ToolScope(call[c].req.tool)
  <2>1. call[c].req.tool # "unknown" /\ call[c].req.tool # "list_tools"
        /\ ~(kind[Bearer(c)].scope < ToolScope(call[c].req.tool))
    BY DEF Forward, Refusal
  <2>2. call[c].req.tool \in Tools
    BY <1>2, <2>1 DEF Requests
  <2>3. ToolScope(call[c].req.tool) \in 0 .. 2
    BY DEF ToolScope
  <2> QED BY <1>3, <2>1, <2>2, <2>3
<1> DEFINE route == IF call[c].req.tool = "download_file" THEN "list_files" ELSE call[c].req.tool
<1>5. route \in Asked(call[c].req.tool) /\ route \in Tools /\ route # "token_self"
  BY <1>4 DEF Asked, Tools
<1>6. /\ wire' \in [Calls -> Exchange]
      /\ wire'[c].st = "sent" /\ wire'[c].route = route /\ wire'[c].code = "ok"
      /\ \A d \in Calls \ {c} : wire'[d] = wire[d]
  <2>1. Ask(c, route)
    BY DEF Forward
  <2> HIDE DEF route
  <2> QED BY <1>1, <1>5, <2>1, AskFacts
<1> HIDE DEF route
<1>7. /\ call' \in [Calls -> {NoCall} \cup Begun]
      /\ call'[c].pc = "tool" /\ call'[c].answer = call[c].answer
      /\ call'[c].got = call[c].got /\ call'[c].req = call[c].req
      /\ \A d \in Calls \ {c} : call'[d] = call[d]
  BY <1>1, StageFacts DEF Forward, Stages
<1>8. Typed'
  BY <1>1, <1>6, <1>7 DEF Typed
<1>9. c \notin dead /\ c \notin did /\ call[c].answer = "none" /\ kind[Bearer(c)].type = "agent"
  BY <1>1 DEF CallInv, Phases, DeadStops, ForAgents, WorkKnown, Mutating, Removals
<1>10. Phases(c)' /\ DeadStops(c)' /\ WorkKnown(c)'
  BY <1>1, <1>5, <1>6, <1>7, <1>9 DEF Phases, DeadStops, WorkKnown
<1>11. ForAgents(c)'
  BY <1>1, <1>4, <1>5, <1>6, <1>7, <1>9 DEF ForAgents, Bearer
<1>12. Told(c)'
  BY <1>1, <1>7, <1>9 DEF CallInv, Told
<1> QED BY <1>1, <1>6, <1>7, <1>8, <1>10, <1>11, <1>12, OneCall DEF CallInv

\* The second request of a download.
LEMMA FetchInv ==
    ASSUME Inv, NEW c \in Calls, Fetch(c)
    PROVE  Inv'
<1>1. Typed /\ CallInv(c) /\ call[c].pc = "tool" /\ UNCHANGED <<kind, live, disk, changes, call, did, dead>>
      /\ wire[c].st = "answered" /\ wire[c].route = "list_files" /\ call[c].req.tool = "download_file"
  BY DEF Inv, Fetch, Listed
<1>2. /\ wire' \in [Calls -> Exchange]
      /\ wire'[c].st = "sent" /\ wire'[c].route = "download_file" /\ wire'[c].code = "ok"
      /\ \A d \in Calls \ {c} : wire'[d] = wire[d]
  BY <1>1, AskFacts DEF Fetch, Tools
<1>3. Typed'
  BY <1>1, <1>2 DEF Typed
<1>4. c \notin did /\ c \notin dead
  BY <1>1 DEF CallInv, WorkKnown, DeadStops, Mutating, Removals
<1>5. Phases(c)' /\ DeadStops(c)' /\ WorkKnown(c)'
  BY <1>1, <1>2, <1>4 DEF CallInv, Phases, DeadStops, WorkKnown
<1>6. ForAgents(c)'
  BY <1>1, <1>2 DEF CallInv, ForAgents, Asked, Bearer
<1>7. Told(c)'
  BY <1>1, <1>2, <1>4 DEF CallInv, Phases, Told
<1> QED BY <1>1, <1>2, <1>3, <1>5, <1>6, <1>7, OneCall DEF CallInv

\* The answer of a tool follows what the backend said.
LEMMA ToolAnswersInv ==
    ASSUME Inv, NEW c \in Calls, ToolAnswers(c)
    PROVE  Inv'
<1>1. Typed /\ CallInv(c) /\ call[c].pc = "tool" /\ wire[c].st = "answered"
      /\ UNCHANGED <<kind, live, disk, changes, wire, did, dead>>
  BY DEF Inv, ToolAnswers
<1>2. wire[c] \in Exchange /\ call[c] \in Begun
  BY <1>1, HasBegun DEF Typed
<1>3. wire[c].route # "token_self" /\ c \notin dead /\ call[c].answer = "none"
  BY <1>1 DEF CallInv, Phases, DeadStops
<1>4. wire[c].route \in Asked(call[c].req.tool)
  BY <1>1, <1>3 DEF CallInv, ForAgents
<1>5. CASE wire[c].code # "ok" /\ AnswerIs(c, wire[c].code)
  <2>1. wire[c].code \in Answers
    BY <1>2 DEF Exchange, Answers
  <2>2. wire[c].code # "internal_error" => c \notin did
    BY <1>1, <1>5 DEF CallInv, WorkKnown
  <2> QED BY <1>1, <1>5, <2>1, <2>2, AnswerInv
<1>6. CASE call[c].req.tool = "download_file" /\ AnswerIs(c, "payload_too_large")
  <2>1. wire[c].route \notin Mutating
    BY <1>4, <1>6 DEF Asked, Mutating, Removals
  <2>2. "payload_too_large" \in Answers /\ c \notin did
    BY <1>1, <2>1 DEF Answers, CallInv, WorkKnown
  <2> QED BY <1>1, <1>6, <2>1, <2>2, AnswerInv
<1>7. ASSUME wire[c].code = "ok", ~(call[c].req.tool = "download_file" /\ TooLarge(wire[c].content)),
             call' = [call EXCEPT ![c].pc = "done", ![c].answer = "ok", ![c].got = wire[c].content]
      PROVE  Inv'
  <2> DEFINE new == [call[c] EXCEPT !.pc = "done", !.answer = "ok", !.got = wire[c].content]
  <2>1. new \in Begun /\ new.pc = "done" /\ new.answer = "ok" /\ new.got = wire[c].content /\ new.req = call[c].req
    BY <1>2 DEF Begun, Stages, Exchange, Answers, Codes
  <2>2. call' = [call EXCEPT ![c] = new]
    BY <1>7
  <2> HIDE DEF new
  <2>3. /\ call' \in [Calls -> {NoCall} \cup Begun] /\ call'[c] = new
        /\ \A d \in Calls \ {c} : call'[d] = call[d]
    BY <1>1, <2>1, <2>2 DEF Typed
  <2>4. Typed'
    BY <1>1, <2>3 DEF Typed
  <2>5. Phases(c)' /\ DeadStops(c)' /\ ForAgents(c)' /\ WorkKnown(c)'
    BY <1>1, <1>3, <2>1, <2>3 DEF CallInv, Phases, DeadStops, ForAgents, WorkKnown, Bearer
  <2>6. call[c].req.tool \in Mutating => c \in did
    <3>1. call[c].req.tool \in Mutating => wire[c].route = call[c].req.tool
      BY <1>4 DEF Asked, Mutating, Removals
    <3> QED BY <1>1, <1>7, <3>1 DEF CallInv, WorkKnown
  <2>7. wire[c].content # None /\ call[c].req.tool = "download_file" => Size(wire[c].content) <= Cap
    <3>1. wire[c].content # None => Size(wire[c].content) \in Nat
      BY <1>2, Parameters DEF Exchange
    <3> QED BY <1>7, <3>1, Parameters DEF TooLarge
  <2>8. Told(c)'
    BY <1>1, <2>1, <2>3, <2>6, <2>7 DEF Told
  <2> QED BY <1>1, <2>3, <2>4, <2>5, <2>8, OneCall DEF CallInv
<1> QED BY <1>5, <1>6, <1>7 DEF ToolAnswers

LEMMA GivesUpInv ==
    ASSUME Inv, NEW c \in Calls, GivesUp(c)
    PROVE  Inv'
<1>1. "backend_unreachable" \in Answers
  BY DEF Answers
<1> QED BY <1>1, AnswerInv DEF GivesUp, Waiting

(***************************************************************************)
(* The backend                                                             *)
(***************************************************************************)

\* The route of a tool needs no more than the tool.
LEMMA TablesAgree ==
    ASSUME NEW tool \in Tools, NEW route \in Asked(tool)
    PROVE  route \in Tools /\ RouteScope[route] <= ToolScope(tool)
BY DEF Asked, Tools, RouteScope, ToolScope, Removals, Mutating

\* A refusal keeps the invariant: the route table refuses no call that dispatch let through.
LEMMA BackendRefusesInv ==
    ASSUME Inv, NEW c \in Calls, BackendRefuses(c)
    PROVE  Inv'
<1>1. Typed /\ CallInv(c) /\ wire[c].st = "sent" /\ UNCHANGED <<kind, live, disk, changes, call, did, dead>>
  BY DEF Inv, BackendRefuses
<1>2. Authorized(c) \in {"unauthorized", "forbidden"} /\ Authorized(c) \in Codes
  BY DEF BackendRefuses, Authorized, Codes
<1>3. /\ wire' \in [Calls -> Exchange]
      /\ wire'[c].st = "answered" /\ wire'[c].route = wire[c].route /\ wire'[c].code = Authorized(c)
      /\ \A d \in Calls \ {c} : wire'[d] = wire[d]
  BY <1>1, <1>2, ReplyFacts DEF BackendRefuses
<1>4. Typed'
  BY <1>1, <1>3 DEF Typed
<1>5. c \notin did /\ call[c].pc \notin {"idle", "gate"}
  BY <1>1 DEF CallInv, Phases, WorkKnown, NoWire
<1>6. wire[c].route # "token_self" => Authorized(c) # "forbidden"
  <2> SUFFICES ASSUME wire[c].route # "token_self" PROVE Authorized(c) # "forbidden"
    OBVIOUS
  <2>1. /\ call[c].req.tool \in Tools /\ wire[c].route \in Asked(call[c].req.tool)
        /\ kind[Bearer(c)].scope >= ToolScope(call[c].req.tool)
    BY <1>1 DEF CallInv, ForAgents
  <2>2. RouteScope[wire[c].route] <= ToolScope(call[c].req.tool)
    BY <2>1, TablesAgree
  <2>3. Bearer(c) \in Tokens
    BY <1>1, <1>5, HasBegun DEF Bearer, Begun, Requests
  <2>4. kind[Bearer(c)].scope \in 0 .. 2
    BY <1>1, <2>3 DEF Typed, Kinds
  <2>5. RouteScope[wire[c].route] \in 0 .. 2 /\ ToolScope(call[c].req.tool) \in 0 .. 2
    BY <1>1 DEF Typed, Exchange, RouteScope, ToolScope
  <2> QED BY <2>1, <2>2, <2>4, <2>5 DEF Authorized
<1>7. Phases(c)' /\ DeadStops(c)' /\ WorkKnown(c)'
  BY <1>1, <1>2, <1>3, <1>5 DEF CallInv, Phases, DeadStops, WorkKnown, Bearer
<1>8. ForAgents(c)'
  BY <1>1, <1>3, <1>6 DEF CallInv, ForAgents, Bearer
<1>9. Told(c)'
  BY <1>1, <1>3, <1>5 DEF CallInv, Told
<1> QED BY <1>1, <1>3, <1>4, <1>7, <1>8, <1>9, OneCall DEF CallInv

LEMMA BackendAdmitsInv ==
    ASSUME Inv, NEW c \in Calls, BackendAdmits(c)
    PROVE  Inv'
<1>1. Typed /\ CallInv(c) /\ wire[c].st = "sent" /\ wire[c].route \in Mutating
      /\ UNCHANGED <<kind, live, disk, changes, call, did, dead>>
  BY DEF Inv, BackendAdmits
<1> DEFINE new == [wire[c] EXCEPT !.st = "admitted"]
<1>2. new \in Exchange /\ new.st = "admitted" /\ new.route = wire[c].route /\ new.code = wire[c].code
  BY <1>1 DEF Typed, Exchange
<1>3. wire' = [wire EXCEPT ![c] = new]
  BY DEF BackendAdmits
<1> HIDE DEF new
<1>4. wire' \in [Calls -> Exchange] /\ wire'[c] = new /\ \A d \in Calls \ {c} : wire'[d] = wire[d]
  BY <1>1, <1>2, <1>3 DEF Typed
<1>5. Typed'
  BY <1>1, <1>4 DEF Typed
<1>6. c \notin did /\ c \notin dead /\ call[c].pc \notin {"idle", "gate"}
  BY <1>1 DEF CallInv, Phases, WorkKnown, DeadStops, NoWire, Mutating, Removals
<1>7. Phases(c)' /\ DeadStops(c)' /\ ForAgents(c)' /\ WorkKnown(c)'
  BY <1>1, <1>2, <1>4, <1>6 DEF CallInv, Phases, DeadStops, ForAgents, WorkKnown, Bearer
<1>8. Told(c)'
  BY <1>1, <1>2, <1>4, <1>6 DEF CallInv, Told
<1> QED BY <1>1, <1>4, <1>5, <1>7, <1>8, OneCall DEF CallInv

\* What a route leaves and answers has its type, and is no refusal of the token.
LEMMA ServedFacts ==
    ASSUME disk \in Disks, NEW r \in Requests, NEW route \in Tools \cup {"token_self"}
    PROVE  /\ Served(route, r).disk \in Disks
           /\ Served(route, r).code \in Codes \ {"forbidden", "unauthorized"}
           /\ Served(route, r).content \in Contents \cup {None}
<1>0. r.content \in Contents
  BY DEF Requests
<1>1. CASE route \in {"token_self", "list_sites", "create_site", "delete_site"}
  BY <1>0, <1>1 DEF Served, Disks, Codes
<1>2. CASE route = "upload_file"
  BY <1>0, <1>2 DEF Served, Disks, Codes
<1>3. CASE route \in {"list_files", "download_file"}
  BY <1>0, <1>3 DEF Served, Disks, Codes
<1>4. CASE route \in {"delete_file", "delete_folder"}
  BY <1>0, <1>4 DEF Served, Disks, Codes
<1> QED BY <1>1, <1>2, <1>3, <1>4 DEF Tools

\* The work of a request that is on its way: done, half answered or not done.
LEMMA WorkInv ==
    ASSUME Inv, NEW c \in Calls, Serving(c), NEW code \in Codes, NEW content \in Contents \cup {None},
           Reply(c, code, content), disk' \in Disks, UNCHANGED <<kind, live, changes, call, dead>>,
           code # "forbidden",
           \/ did' = did /\ (code = "ok" => wire[c].route \notin Mutating)
           \/ did' = did \cup {c} /\ code \in {"ok", "internal_error"} /\ wire[c].route \in Mutating
    PROVE  Inv'
<1>1. Typed /\ CallInv(c) /\ wire[c].st \in {"sent", "admitted"}
  BY DEF Inv, Serving
<1>2. /\ wire' \in [Calls -> Exchange]
      /\ wire'[c].st = "answered" /\ wire'[c].route = wire[c].route /\ wire'[c].code = code
      /\ \A d \in Calls \ {c} : wire'[d] = wire[d]
  BY <1>1, ReplyFacts
<1>3. Typed'
  BY <1>1, <1>2 DEF Typed
<1>4. c \notin did /\ call[c].pc \notin {"idle", "gate"}
  BY <1>1 DEF CallInv, Phases, WorkKnown, NoWire
<1>5. c \notin dead
  BY <1>1 DEF CallInv, Phases, DeadStops, Serving, Authorized, Resolves, Mutating, Removals
<1>6. Phases(c)' /\ DeadStops(c)'
  BY <1>1, <1>2, <1>4, <1>5 DEF CallInv, Phases, DeadStops
<1>7. ForAgents(c)'
  BY <1>1, <1>2 DEF CallInv, ForAgents, Bearer
<1>8. WorkKnown(c)' /\ Told(c)'
  BY <1>1, <1>2, <1>4 DEF CallInv, WorkKnown, Told
<1> QED BY <1>1, <1>2, <1>3, <1>6, <1>7, <1>8, OneCall DEF CallInv

LEMMA BackendWorksInv ==
    ASSUME Inv, NEW c \in Calls, BackendServes(c) \/ BackendFails(c)
    PROVE  Inv'
<1>1. Typed /\ CallInv(c) /\ Serving(c)
  BY DEF Inv, BackendServes, BackendFails
<1>2. wire[c].route \in Tools \cup {"token_self"} /\ call[c].req \in Requests
  <2>1. call[c].pc # "idle"
    BY <1>1 DEF CallInv, Phases, NoWire, Serving
  <2> QED BY <1>1, <2>1, HasBegun DEF Typed, Exchange, Begun
<1>3. /\ Work(c).disk \in Disks
      /\ Work(c).code \in Codes \ {"forbidden", "unauthorized"}
      /\ Work(c).content \in Contents \cup {None}
  <2>1. /\ Served(wire[c].route, call[c].req).disk \in Disks
        /\ Served(wire[c].route, call[c].req).code \in Codes \ {"forbidden", "unauthorized"}
        /\ Served(wire[c].route, call[c].req).content \in Contents \cup {None}
    BY <1>1, <1>2, ServedFacts DEF Typed
  <2>2. Lookup(wire[c].route, call[c].req) \in Codes \ {"forbidden", "unauthorized"}
    BY DEF Lookup, Codes
  <2>3. disk \in Disks
    BY <1>1 DEF Typed
  <2> QED BY <2>1, <2>2, <2>3 DEF Work
<1>4. \/ Done(c) = did \cup {c} /\ Work(c).code = "ok" /\ wire[c].route \in Mutating
      \/ Done(c) = did /\ (Work(c).code = "ok" => wire[c].route \notin Mutating)
  BY DEF Done
<1>5. CASE BackendServes(c)
  <2>1. Reply(c, Work(c).code, Work(c).content) /\ disk' = Work(c).disk /\ did' = Done(c)
        /\ UNCHANGED <<kind, live, changes, call, dead>>
    BY <1>5 DEF BackendServes
  <2> QED BY <1>1, <1>3, <1>4, <2>1, WorkInv
<1>6. CASE BackendFails(c)
  <2>1. Reply(c, "internal_error", None) /\ UNCHANGED <<kind, live, changes, call, dead>>
    BY <1>6 DEF BackendFails
  <2>2. disk' \in Disks
    BY <1>1, <1>3, <1>6 DEF BackendFails, Typed
  <2>3. did' = did \/ (did' = did \cup {c} /\ wire[c].route \in Mutating)
    BY <1>4, <1>6 DEF BackendFails
  <2>4. "internal_error" \in Codes
    BY DEF Codes
  <2> QED BY <1>1, <2>1, <2>2, <2>3, <2>4, WorkInv
<1> QED BY <1>5, <1>6

\* Every step keeps the invariant.
LEMMA NextInv == Inv /\ [Next]_vars => Inv'
<1> SUFFICES ASSUME Inv, [Next]_vars PROVE Inv'
  OBVIOUS
<1>1. ASSUME UNCHANGED <<kind, call, wire, did, dead>>, live' \subseteq live, disk' \in Disks,
             changes' \in 0 .. MaxChanges
      PROVE  Inv'
  <2>1. Typed'
    BY <1>1 DEF Inv, Typed
  <2>2. \A c \in Calls : CallInv(c)'
    BY <1>1, Frame DEF Inv
  <2> QED BY <2>1, <2>2 DEF Inv
<1>2. CASE UNCHANGED vars
  BY <1>1, <1>2 DEF vars, Inv, Typed
<1>3. ASSUME NEW t \in Tokens, Revoke(t) PROVE Inv'
  BY <1>1, <1>3 DEF Revoke, Inv, Typed
<1>4. ASSUME NEW d \in Disks, OthersChange(d) PROVE Inv'
  <2>1. changes' \in 0 .. MaxChanges
    BY <1>4, Parameters DEF OthersChange, Inv, Typed
  <2> QED BY <1>1, <1>4, <2>1 DEF OthersChange
<1>5. ASSUME NEW c \in Calls, ServerStep(c) PROVE Inv'
  BY <1>5, GateRefusesInv, GateAsksInv, ConfirmedInv, DispatchInv, ForwardInv, FetchInv, ToolAnswersInv,
     GivesUpInv DEF ServerStep
<1>6. ASSUME NEW c \in Calls,
             BackendRefuses(c) \/ BackendAdmits(c) \/ BackendServes(c) \/ BackendFails(c)
      PROVE  Inv'
  BY <1>6, BackendRefusesInv, BackendAdmitsInv, BackendWorksInv
<1> QED BY <1>2, <1>3, <1>4, <1>5, <1>6, PostInv DEF Next

LEMMA Invariant == Spec => []Inv
BY InitInv, NextInv, PTL DEF Spec

(***************************************************************************)
(* The theorems                                                            *)
(***************************************************************************)

\* Whatever the backend does for a call to /mcp it does for an agent's token of the tool's
\* tier, for any number of calls under way: auth.confirm lets no session through, and no
\* handler asks for a route above its tool.
THEOREM OnlyAgents == Spec => []DoneForAgents
<1>1. Inv => DoneForAgents
  BY DEF Inv, Typed, CallInv, ForAgents, WorkKnown, DoneForAgents, Mutating, Removals
<1> QED BY <1>1, Invariant, PTL

\* A request made with a revoked token gets no result and changes nothing, whatever other
\* requests with that token were under way (auth.confirm asks each time).
THEOREM NothingForRevoked == Spec => []RevokedSeesNothing
<1>1. Inv => RevokedSeesNothing
  BY DEF Inv, Typed, CallInv, DeadStops, WorkKnown, RevokedSeesNothing, Mutating, Removals
<1> QED BY <1>1, Invariant, PTL

\* The tool table never lets through what the route table refuses for its scope.
THEOREM TiersMatch == Spec => []TiersAgree
<1>1. Inv => TiersAgree
  BY DEF Inv, CallInv, Phases, ForAgents, TiersAgree
<1> QED BY <1>1, Invariant, PTL

\* A download hands over at most the cap, however the file changes between the listing and
\* the fetch, for every cap and every size (tools.download_file checks what it fetched).
THEOREM CapOnDownloads == Spec => []DownloadWithinCap
<1>1. Inv => DownloadWithinCap
  BY DEF Inv, CallInv, Told, DownloadWithinCap
<1> QED BY <1>1, Invariant, PTL

\* A success means the work was done, and an error other than backend_unreachable and
\* internal_error that it was not and never will be, for any number of calls and whatever the
\* backend, the timeouts and other clients do.
THEOREM TrueAnswers == Spec => []AnswersAreTrue
<1>1. Inv => AnswersAreTrue
  BY DEF Inv, CallInv, Told, AnswersAreTrue
<1> QED BY <1>1, Invariant, PTL

\* Once a token is revoked nothing more is taken up for it, and the only work still done for
\* it is a request's that had passed requires before and was waiting for its body or its
\* site's lock (storage.write_file, delete_file, delete_folder, create_site, delete_site).
THEOREM NothingStarts == Spec => RevokedStartsNothing
<1> DEFINE Starts(c) == wire[c].st # "admitted" /\ c \notin did /\ (wire'[c].st = "admitted" \/ c \in did')
<1>1. ASSUME Inv, [Next]_vars, NEW c \in Calls, Starts(c) PROVE Bearer(c) \in live
  <2>0. Next
    BY <1>1 DEF vars
  <2>1. CASE c \in did'
    <3>1. PICK d \in Calls : Serving(d) /\ did' = Done(d)
      BY <1>1, <2>0, <2>1 DEF Next, Post, ServerStep, GateRefuses, GateAsks, Confirmed, ListTools,
         DispatchRefuses, Forward, Fetch, ToolAnswers, GivesUp, BackendRefuses, BackendAdmits, BackendServes,
         BackendFails, Revoke, OthersChange
    <3>2. c = d
      BY <1>1, <2>1, <3>1 DEF Done
    <3> QED BY <1>1, <3>1, <3>2 DEF Serving, Authorized, Resolves
  <2>2. CASE wire'[c].st = "admitted"
    <3>1. ASSUME NEW d \in Calls, NEW code, NEW content, Reply(d, code, content)
          PROVE  wire'[c].st # "admitted"
      BY <1>1, <3>1 DEF Reply, Inv, Typed, Exchange
    <3>2. ASSUME NEW d \in Calls, NEW route, Ask(d, route)
          PROVE  wire'[c].st # "admitted"
      BY <1>1, <3>2 DEF Ask, Inv, Typed, Exchange, NoWire
    <3>3. wire' # wire
      BY <1>1, <2>2
    <3>4. PICK d \in Calls : BackendAdmits(d)
      BY <2>0, <2>2, <3>1, <3>2, <3>3 DEF Next, Post, ServerStep, GateRefuses, GateAsks, Confirmed, ListTools,
         DispatchRefuses, Forward, Fetch, ToolAnswers, GivesUp, BackendRefuses, BackendServes, BackendFails,
         Revoke, OthersChange
    <3>5. c = d
      BY <1>1, <2>2, <3>4 DEF BackendAdmits, Inv, Typed
    <3> QED BY <3>4, <3>5 DEF BackendAdmits, Authorized, Resolves
  <2> QED BY <1>1, <2>1, <2>2
<1>2. Inv /\ [Next]_vars => [\A c \in Calls : Starts(c) => Bearer(c) \in live]_vars
  BY <1>1
<1> QED BY <1>2, Invariant, PTL DEF Spec, RevokedStartsNothing
=============================================================================
