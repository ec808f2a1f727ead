-------------------------- MODULE PiSessionProofs ---------------------------
(***************************************************************************)
(* Proofs about PiSession: that the chat and its processes keep their      *)
(* types and no process escapes the registry, and, without the two races   *)
(* of the deadline, that a reply answers its own prompt and artifacts are  *)
(* imported after the turn that wrote them.                                *)
(***************************************************************************)
EXTENDS PiSession, SequenceTheorems, TLAPS

(* The records that the tables and the request under way are made of.      *)
Process == [alive : BOOLEAN, queue : Seq(Event), asked : Turns, turn : Turns]
Places == {"idle", "attach", "open", "send", "write", "loop", "reply", "fail", "import"}
Talk == [req : Requests \cup {"none"}, at : Places, pi : Nat, turn : Turns,
         acked : BOOLEAN, force : BOOLEAN, texts : SUBSET (1..MaxTurns),
         ended : Turns, repairs : 0..Repairs, lost : BOOLEAN]

(* A request that writes its prompt, waits for events, or answers with     *)
(* them, has a process and a turn.                                         *)
Engaged ==
    /\ talk.at \in {"write", "loop", "reply", "import"} =>
           talk.pi \in Processes /\ talk.turn \in 1..MaxTurns
    /\ talk.at # "idle" => talk.req \in Requests

TypeInv == TypeOK /\ Engaged

(* Both facts about types, with the number of processes taken apart.       *)
TypeParts ==
    /\ kind \in Kinds
    /\ status \in {"not_started", "running", "waiting", "failed", "closed"}
    /\ runtime \in BOOLEAN
    /\ transcript \in Seq(Entry)
    /\ pi \in Seq(Process)
    /\ client \in 0..Len(pi)
    /\ talk \in Talk /\ talk.pi \in 0..Len(pi)
    /\ button \in {"idle", "close", "reset"}
    /\ imports \subseteq BOOLEAN
    /\ turns \in Turns /\ buttons \in 0..MaxButtons
    /\ talk.at \in {"write", "loop", "reply", "import"} =>
           talk.pi \in 1..Len(pi) /\ talk.turn \in 1..MaxTurns
    /\ talk.at # "idle" => talk.req \in Requests

LEMMA TypeApart == TypeInv <=> TypeParts
<1>1. ASSUME pi \in Seq(Process)
      PROVE  Processes = 1..Len(pi) /\ Processes \cup {0} = 0..Len(pi) /\ Len(pi) \in Nat
  BY <1>1 DEF Processes
<1>2. TypeOK => pi \in Seq(Process)
  BY DEF TypeOK, Process
<1>3. TypeInv => TypeParts
  BY <1>1, <1>2 DEF TypeInv, TypeParts, TypeOK, Engaged, Talk, Places
<1>4. TypeParts => TypeInv
  BY <1>1 DEF TypeInv, TypeParts, TypeOK, Engaged, Talk, Places, Process
<1>5. QED
  BY <1>3, <1>4

(* A function over the same indices is a sequence of the same length.      *)
LEMMA FunctionIsSeq ==
    ASSUME NEW S, NEW n \in Nat, NEW f \in [1..n -> S]
    PROVE  f \in Seq(S) /\ Len(f) = n
OBVIOUS

(* What is done to one process leaves the others alone.                    *)
LEMMA OneChanged ==
    ASSUME pi \in Seq(Process), NEW p \in 1..Len(pi), NEW row \in Process,
           pi' = [pi EXCEPT ![p] = row]
    PROVE  /\ pi' \in Seq(Process) /\ Len(pi') = Len(pi)
           /\ \A q \in 1..Len(pi) : pi'[q] = IF q = p THEN row ELSE pi[q]
BY ExceptSeq

LEMMA OneAdded ==
    ASSUME pi \in Seq(Process), NEW row \in Process, pi' = Append(pi, row)
    PROVE  /\ pi' \in Seq(Process) /\ Len(pi') = Len(pi) + 1
           /\ \A q \in 1..Len(pi) : pi'[q] = pi[q]
           /\ pi'[Len(pi) + 1] = row
OBVIOUS

(* A process that says something: an event is appended to its queue.       *)
LEMMA EmitsEffect ==
    ASSUME TypeParts, NEW p \in 1..Len(pi),
           NEW type \in {"accept", "reject", "text", "end", "quiet"},
           NEW t \in 1..MaxTurns, Emits(p, type, t)
    PROVE  /\ pi' \in Seq(Process) /\ Len(pi') = Len(pi)
           /\ \A q \in 1..Len(pi) : q # p => pi'[q] = pi[q]
           /\ pi'[p].alive = pi[p].alive
           /\ pi'[p].queue = Append(pi[p].queue, [type |-> type, turn |-> t])
           /\ pi'[p].asked = IF type \in {"accept", "reject"} THEN 0 ELSE pi[p].asked
           /\ type = "accept" => pi'[p].turn = t
           /\ type \in Ends => pi'[p].turn = 0
           /\ type \notin Ends \cup {"accept"} => pi'[p].turn = pi[p].turn
<1>1. PICK queue : queue = Append(pi[p].queue, [type |-> type, turn |-> t])
  OBVIOUS
<1>2. PICK asked : asked = IF type \in {"accept", "reject"} THEN 0 ELSE pi[p].asked
  OBVIOUS
<1>3. PICK turn : turn = CASE type = "accept" -> t
                          [] type \in Ends -> 0
                          [] OTHER -> pi[p].turn
  OBVIOUS
<1>5. pi[p] \in Process /\ pi \in [1..Len(pi) -> Process]
  BY ElementOfSeq, LenProperties DEF TypeParts
<1>6. queue \in Seq(Event)
  <2>1. [type |-> type, turn |-> t] \in Event
    BY DEF Event
  <2>2. QED
    BY <1>1, <1>5, <2>1 DEF Process
<1>7. asked \in Turns /\ turn \in Turns
  <2>1. t \in Turns /\ 0 \in Turns
    BY PiSessionAssumption DEF Turns
  <2>2. QED
    BY <1>2, <1>3, <1>5, <2>1 DEF Process, Ends
<1>8. pi' = [pi EXCEPT ![p].queue = queue, ![p].asked = asked, ![p].turn = turn]
  BY <1>1, <1>2, <1>3 DEF Emits
<1>9. /\ pi' \in [1..Len(pi) -> Process]
      /\ \A q \in 1..Len(pi) : q # p => pi'[q] = pi[q]
      /\ pi'[p].alive = pi[p].alive /\ pi'[p].queue = queue
      /\ pi'[p].asked = asked /\ pi'[p].turn = turn
  BY <1>5, <1>6, <1>7, <1>8 DEF Process
<1>10. pi' \in Seq(Process) /\ Len(pi') = Len(pi)
  BY <1>9, FunctionIsSeq, LenProperties DEF TypeParts
<1>11. /\ type = "accept" => turn = t
       /\ type \in Ends => turn = 0
       /\ type \notin Ends \cup {"accept"} => turn = pi[p].turn
  BY <1>3 DEF Ends
<1>12. QED
  BY <1>1, <1>2, <1>9, <1>10, <1>11

LEMMA KilledRow ==
    ASSUME TypeParts, NEW p \in 1..Len(pi)
    PROVE  /\ Killed(p) \in Process
           /\ ~Killed(p).alive /\ Killed(p).queue = pi[p].queue
           /\ Killed(p).asked = 0 /\ Killed(p).turn = 0
<1>1. pi[p] \in Process /\ 0 \in Turns
  BY ElementOfSeq, PiSessionAssumption DEF TypeParts, Turns
<1>2. QED
  BY <1>1 DEF Killed, Process

(* Closing and opening the client.                                         *)
LEMMA CloseEffect ==
    ASSUME TypeParts, CloseClient
    PROVE  /\ pi' \in Seq(Process) /\ Len(pi') = Len(pi) /\ client' = 0
           /\ \A q \in 1..Len(pi) : pi'[q] = IF q = client THEN Killed(client) ELSE pi[q]
<1>1. CASE client = 0
  BY <1>1 DEF CloseClient, TypeParts
<1>2. CASE client # 0
  <2>1. PICK row : row = Killed(client)
    OBVIOUS
  <2>2. client \in 1..Len(pi)
    BY <1>2 DEF TypeParts
  <2>3. row \in Process /\ pi' = [pi EXCEPT ![client] = row] /\ client' = 0
    BY <1>2, <2>1, <2>2, KilledRow DEF CloseClient
  <2>4. PICK c : c = client
    OBVIOUS
  <2>5. /\ pi' \in Seq(Process) /\ Len(pi') = Len(pi)
        /\ \A q \in 1..Len(pi) : pi'[q] = IF q = c THEN row ELSE pi[q]
    BY <2>2, <2>3, <2>4, OneChanged DEF TypeParts
  <2>6. QED
    BY <2>1, <2>3, <2>4, <2>5
<1>3. QED
  BY <1>1, <1>2

LEMMA NewRow == NewProcess \in Process
BY PiSessionAssumption DEF NewProcess, Process, Turns

LEMMA OpenEffect ==
    ASSUME TypeParts, OpenClient
    PROVE  /\ pi' \in Seq(Process) /\ client' \in 1..Len(pi') /\ Len(pi') >= Len(pi)
           /\ client # 0 => UNCHANGED <<client, pi>>
           /\ client = 0 => /\ client' = Len(pi) + 1 /\ Len(pi') = Len(pi) + 1
                            /\ pi'[client'] = NewProcess
                            /\ \A q \in 1..Len(pi) : pi'[q] = pi[q]
<1>1. CASE client = 0
  BY <1>1, NewRow, OneAdded DEF OpenClient, TypeParts
<1>2. CASE client # 0
  BY <1>2 DEF OpenClient, TypeParts
<1>3. QED
  BY <1>1, <1>2
-----------------------------------------------------------------------------
(* Type correctness, one lemma per group of actions.                       *)
LEMMA TypeInit == Init => TypeParts
<1>1. 0 \in Turns /\ 0 \in 0..MaxButtons /\ 0 \in 0..Repairs
  BY PiSessionAssumption DEF Turns
<1>2. Idle \in Talk /\ Idle.pi = 0 /\ Idle.at = "idle"
  BY <1>1 DEF Idle, Talk, Places, Requests
<1>3. <<>> \in Seq(Entry) /\ <<>> \in Seq(Process) /\ Len(<<>>) = 0
  OBVIOUS
<1>4. SUFFICES ASSUME Init PROVE TypeParts
  OBVIOUS
<1>5. /\ transcript \in Seq(Entry) /\ pi \in Seq(Process) /\ Len(pi) = 0
      /\ client \in 0..Len(pi) /\ talk.pi \in 0..Len(pi)
  BY <1>2, <1>3, <1>4 DEF Init
<1>6. /\ kind \in Kinds /\ status = "not_started" /\ button = "idle"
      /\ talk \in Talk /\ talk.at = "idle" /\ imports \subseteq BOOLEAN
      /\ turns \in Turns /\ buttons \in 0..MaxButtons
  BY <1>1, <1>2, <1>4 DEF Init
<1>7. runtime \in BOOLEAN
  BY <1>4 DEF Init
<1>8. QED
  BY <1>5, <1>6, <1>7 DEF TypeParts

LEMMA IdleTalk == Idle \in Talk /\ Idle.pi = 0 /\ Idle.at = "idle" /\ Idle.req = "none"
BY PiSessionAssumption DEF Idle, Talk, Places, Requests, Turns

LEMMA LostTalk ==
    ASSUME NEW t \in {Idle, Lost}
    PROVE  t \in Talk /\ t.pi = 0 /\ t.at = "idle"
<1>1. PICK lost \in BOOLEAN : lost = (status' = "waiting")
  OBVIOUS
<1>2. Lost = [Idle EXCEPT !.lost = lost]
  BY <1>1 DEF Lost
<1>3. QED
  BY <1>2, IdleTalk DEF Talk

(* A process that says something has a prompt or a turn to speak of.       *)
LEMMA SpeakerHasTurn ==
    ASSUME TypeParts, NEW p \in 1..Len(pi)
    PROVE  /\ pi[p] \in Process
           /\ pi[p].asked # 0 => pi[p].asked \in 1..MaxTurns
           /\ pi[p].turn # 0 => pi[p].turn \in 1..MaxTurns
<1>1. pi[p] \in Process
  BY ElementOfSeq DEF TypeParts
<1>2. QED
  BY <1>1, PiSessionAssumption DEF Process, Turns

(* The processes themselves.                                               *)
LEMMA TypePi == ASSUME TypeParts, Pi PROVE TypeParts'
<1>1. PICK p \in 1..Len(pi) : Answer(p) \/ Say(p) \/ EndTurn(p) \/ Die(p)
  BY DEF Pi, Processes, TypeParts
<1>4. CASE Die(p)
  <2>1. PICK row : row = Killed(p)
    OBVIOUS
  <2>2. pi' \in Seq(Process) /\ Len(pi') = Len(pi)
    BY <1>4, <2>1, KilledRow, OneChanged DEF Die, TypeParts
  <2>3. QED
    BY <1>4, <2>2 DEF Die, TypeParts
<1>5. CASE Answer(p) \/ Say(p) \/ EndTurn(p)
  <2>1. \E type \in {"accept", "reject", "text", "end", "quiet"} :
           \E t \in 1..MaxTurns : Emits(p, type, t)
    BY <1>5, SpeakerHasTurn DEF Answer, Say, EndTurn, Ends
  <2>2. PICK type \in {"accept", "reject", "text", "end", "quiet"} :
           \E t \in 1..MaxTurns : Emits(p, type, t)
    BY <2>1
  <2>3. PICK t \in 1..MaxTurns : Emits(p, type, t)
    BY <2>2
  <2>4. pi' \in Seq(Process) /\ Len(pi') = Len(pi)
    BY <2>3, EmitsEffect
  <2>5. QED
    BY <2>3, <2>4 DEF Emits, TypeParts
<1>6. QED
  BY <1>1, <1>4, <1>5

(* The requests.                                                           *)
LEMMA TypeReceive == ASSUME TypeParts, NEW req \in Requests, Receive(req) PROVE TypeParts'
<1>1. PICK at \in {"attach", "open"} : talk' = [Idle EXCEPT !.req = req, !.at = at]
  BY DEF Receive
<1>2. talk' \in Talk /\ talk'.pi = 0 /\ talk'.at \in {"attach", "open"} /\ talk'.req = req
  BY <1>1, IdleTalk DEF Talk, Places
<1>3. QED
  BY <1>2 DEF Receive, TypeParts

LEMMA TypeAttach == ASSUME TypeParts, Attach PROVE TypeParts'
<1>1. pi' \in Seq(Process) /\ Len(pi') = Len(pi) /\ client' \in 0..Len(pi)
  BY CloseEffect DEF Attach, TypeParts
<1>2. PICK force \in BOOLEAN : talk' = [talk EXCEPT !.at = "open", !.force = force]
  BY DEF Attach
<1>3. talk' \in Talk /\ talk'.pi = talk.pi /\ talk'.at = "open" /\ talk'.req = talk.req
  BY <1>2 DEF Talk, Places, TypeParts
<1>4. status' \in {status, "running"} /\ runtime' \in BOOLEAN
  BY DEF Attach, TypeParts
<1>5. QED
  BY <1>1, <1>3, <1>4 DEF Attach, TypeParts

LEMMA TypeOpen == ASSUME TypeParts, Open PROVE TypeParts'
<1>1. pi' \in Seq(Process) /\ Len(pi') >= Len(pi) /\ client' \in 0..Len(pi')
      /\ Len(pi') \in Nat
  BY OpenEffect, LenProperties DEF Open, TypeParts
<1>2. talk' \in {[talk EXCEPT !.at = "send"], [talk EXCEPT !.at = "fail"], Idle, Lost}
  BY DEF Open
<1>3. /\ talk' \in Talk /\ talk'.pi \in {0, talk.pi}
      /\ \/ talk'.at \in {"send", "fail"} /\ talk'.req = talk.req
         \/ talk'.at = "idle"
  BY <1>2, LostTalk DEF Talk, Places, TypeParts
<1>4. status' \in {"running", status}
  BY DEF Open
<1>5. QED
  BY <1>1, <1>3, <1>4 DEF Open, TypeParts

(* The process that a prompt goes to: the registered one, or a new one.    *)
Prompts(p) ==
    /\ talk' = Polled(p) /\ client' = p
    /\ \/ p = client /\ p \in 1..Len(pi) /\ pi[p].alive /\ UNCHANGED pi
       \/ client = 0 /\ p = Len(pi) + 1 /\ pi' = Append(pi, NewProcess)

LEMMA SendEffect ==
    ASSUME TypeParts, Send
    PROVE  /\ turns + 1 \in 1..MaxTurns /\ turns + 1 \in Turns
           /\ \/ \E p \in 1..(Len(pi) + 1) : Prompts(p)
              \/ /\ UNCHANGED <<client, pi>>
                 /\ talk' \in {[talk EXCEPT !.at = "fail"], Lost}
<1>1. turns + 1 \in 1..MaxTurns /\ turns + 1 \in Turns
  <2>1. turns \in 0..MaxTurns /\ turns < MaxTurns /\ MaxTurns \in Nat
    BY PiSessionAssumption DEF Send, TypeParts, Turns
  <2>2. QED
    BY <2>1 DEF Turns
<1>2. Len(pi) \in Nat
  BY LenProperties DEF TypeParts
<1>3. CASE /\ client # 0 /\ UNCHANGED <<client, pi>>
           /\ talk' = IF pi[client].alive THEN Polled(client) ELSE [talk EXCEPT !.at = "fail"]
  <2>1. client \in 1..Len(pi) /\ client \in 1..(Len(pi) + 1)
    BY <1>2, <1>3 DEF TypeParts
  <2>2. CASE pi[client].alive
    <3>1. Prompts(client)
      BY <1>3, <2>1, <2>2 DEF Prompts
    <3>2. QED
      BY <1>1, <2>1, <3>1
  <2>3. CASE ~pi[client].alive
    BY <1>1, <1>3, <2>3
  <2>4. QED
    BY <2>2, <2>3
<1>4. CASE /\ client = 0 /\ client' = Len(pi) + 1 /\ pi' = Append(pi, NewProcess)
           /\ talk' = Polled(Len(pi) + 1)
  <2>1. Prompts(Len(pi) + 1)
    BY <1>4 DEF Prompts
  <2>2. Len(pi) + 1 \in 1..(Len(pi) + 1)
    BY <1>2
  <2>3. QED
    BY <1>1, <2>1, <2>2
<1>5. CASE UNCHANGED <<client, pi>> /\ talk' \in {[talk EXCEPT !.at = "fail"], Lost}
  BY <1>1, <1>5
<1>6. QED
  BY <1>3, <1>4, <1>5 DEF Send

LEMMA PromptsEffect ==
    ASSUME TypeParts, NEW p \in 1..(Len(pi) + 1), Prompts(p), turns + 1 \in Turns
    PROVE  /\ pi' \in Seq(Process) /\ p \in 1..Len(pi') /\ client' = p
           /\ Len(pi') \in Nat /\ Len(pi) \in Nat
           /\ \A q \in 1..Len(pi') : \/ q \in 1..Len(pi) /\ pi'[q] = pi[q]
                                     \/ q = p /\ pi'[q] = NewProcess
           /\ p \in 1..Len(pi) => p = client
           /\ \A q \in 1..Len(pi) : client = 0 => q # p
           /\ talk' \in Talk /\ talk'.at = "write" /\ talk'.pi = p
           /\ talk'.turn = turns + 1 /\ ~talk'.acked /\ talk'.texts = {} /\ talk'.ended = 0
           /\ talk'.req = talk.req
<1>1. Len(pi) \in Nat /\ p \in Nat /\ 0 \in Turns
  BY LenProperties, PiSessionAssumption DEF TypeParts, Turns
<1>2. talk' = [talk EXCEPT !.at = "write", !.pi = p, !.turn = turns + 1,
                           !.acked = FALSE, !.texts = {}, !.ended = 0]
  BY DEF Prompts, Polled
<1>3. /\ talk' \in Talk /\ talk'.at = "write" /\ talk'.pi = p
      /\ talk'.turn = turns + 1 /\ ~talk'.acked /\ talk'.texts = {} /\ talk'.ended = 0
      /\ talk'.req = talk.req
  BY <1>1, <1>2 DEF Talk, Places, TypeParts
<1>4. CASE p = client /\ p \in 1..Len(pi) /\ UNCHANGED pi
  BY <1>1, <1>3, <1>4 DEF Prompts, TypeParts
<1>5. CASE client = 0 /\ p = Len(pi) + 1 /\ pi' = Append(pi, NewProcess)
  <2>1. /\ pi' \in Seq(Process) /\ Len(pi') = Len(pi) + 1 /\ pi'[p] = NewProcess
        /\ \A q \in 1..Len(pi) : pi'[q] = pi[q]
    BY <1>5, NewRow, OneAdded DEF TypeParts
  <2>2. QED
    BY <1>1, <1>3, <1>5, <2>1 DEF Prompts
<1>6. QED
  BY <1>4, <1>5 DEF Prompts

LEMMA NoteTyped ==
    ASSUME TypeParts, NEW t \in Turns, NEW texts \in SUBSET (1..MaxTurns)
    PROVE  /\ Note("assistant", t, texts) \in Seq(Entry)
           /\ \A role \in {"user", "internal", "note"} : Note(role, t, {}) \in Seq(Entry)
BY DEF Note, Entry, TypeParts

LEMMA SpeaksRole ==
    ASSUME TypeParts, talk.at = "send" PROVE Speaks \in {"user", "internal", "note"}
BY DEF TypeParts, Requests, Speaks

LEMMA TypeSend == ASSUME TypeParts, Send PROVE TypeParts'
<1>1. turns' \in Turns /\ turns' = turns + 1 /\ turns + 1 \in 1..MaxTurns
  BY SendEffect DEF Send
<1>2. transcript' \in Seq(Entry)
  BY <1>1, NoteTyped, SpeaksRole DEF Send
<1>3. CASE \E p \in 1..(Len(pi) + 1) : Prompts(p)
  <2>1. PICK p \in 1..(Len(pi) + 1) : Prompts(p)
    BY <1>3
  <2>2. /\ pi' \in Seq(Process) /\ p \in 1..Len(pi') /\ Len(pi') \in Nat /\ client' = p
        /\ talk' \in Talk /\ talk'.at = "write" /\ talk'.pi = p /\ talk'.turn = turns + 1
        /\ talk'.req = talk.req
    BY <1>1, <2>1, PromptsEffect
  <2>3. QED
    BY <1>1, <1>2, <2>2 DEF Send, TypeParts
<1>4. CASE UNCHANGED <<client, pi>> /\ talk' \in {[talk EXCEPT !.at = "fail"], Lost}
  <2>1. /\ talk' \in Talk /\ talk'.pi \in {0, talk.pi}
        /\ talk'.at = "idle" \/ (talk'.at = "fail" /\ talk'.req = talk.req)
    BY <1>4, LostTalk DEF Talk, Places, TypeParts
  <2>2. QED
    BY <1>1, <1>2, <1>4, <2>1 DEF Send, TypeParts
<1>5. QED
  BY <1>3, <1>4, SendEffect

(* The write to a process that lives, and to one that does not.            *)
LEMMA WriteEffect ==
    ASSUME TypeParts, Write
    PROVE  LET p == talk.pi IN
           /\ p \in 1..Len(pi) /\ talk.turn \in 1..MaxTurns /\ pi' \in Seq(Process)
           /\ Len(pi') = Len(pi) /\ Len(pi) \in Nat /\ client' = client
           /\ \A q \in 1..Len(pi) : q # p => pi'[q] = pi[q]
           /\ \/ /\ pi[p].alive /\ pi'[p].alive /\ pi'[p].queue = pi[p].queue
                 /\ pi'[p].turn = pi[p].turn /\ pi'[p].asked = talk.turn
                 /\ talk' = [talk EXCEPT !.at = "loop"]
              \/ UNCHANGED pi /\ ~pi[p].alive /\ talk' = Lost
<1>1. PICK p : p = talk.pi
  OBVIOUS
<1>2. PICK t : t = talk.turn
  OBVIOUS
<1>3. /\ p \in 1..Len(pi) /\ pi[p] \in Process /\ t \in 1..MaxTurns /\ t \in Turns
      /\ Len(pi) \in Nat /\ client' = client
  BY <1>1, <1>2, ElementOfSeq, LenProperties DEF Write, TypeParts, Talk
<1>4. CASE ~pi[p].alive
  BY <1>1, <1>2, <1>3, <1>4 DEF Write, TypeParts
<1>5. CASE pi[p].alive
  <2>1. PICK row : row = [pi[p] EXCEPT !.asked = t]
    OBVIOUS
  <2>2. /\ row \in Process /\ row.alive = pi[p].alive /\ row.asked = t
        /\ row.turn = pi[p].turn /\ row.queue = pi[p].queue
    BY <1>3, <2>1 DEF Process
  <2>3. pi' = [pi EXCEPT ![p] = row] /\ talk' = [talk EXCEPT !.at = "loop"]
    BY <1>1, <1>2, <1>5, <2>1 DEF Write
  <2>4. /\ pi' \in Seq(Process) /\ Len(pi') = Len(pi)
        /\ \A q \in 1..Len(pi) : pi'[q] = IF q = p THEN row ELSE pi[q]
    BY <1>3, <2>2, <2>3, OneChanged DEF TypeParts
  <2>5. QED
    BY <1>1, <1>2, <1>3, <1>5, <2>2, <2>3, <2>4
<1>6. QED
  BY <1>4, <1>5

LEMMA TypeWrite == ASSUME TypeParts, Write PROVE TypeParts'
<1>1. /\ pi' \in Seq(Process) /\ Len(pi') = Len(pi) /\ client' = client
      /\ talk' \in {[talk EXCEPT !.at = "loop"], Lost}
      /\ talk.pi \in 1..Len(pi) /\ talk.turn \in 1..MaxTurns
  BY WriteEffect
<1>2. /\ talk' \in Talk
      /\ \/ talk'.at = "loop" /\ talk'.pi = talk.pi /\ talk'.turn = talk.turn
            /\ talk'.req = talk.req
         \/ talk'.at = "idle" /\ talk'.pi = 0
  BY <1>1, LostTalk DEF Talk, Places, TypeParts
<1>3. QED
  BY <1>1, <1>2 DEF Write, TypeParts

(* The event that the prompt takes from its queue.                         *)
LEMMA TakeEffect ==
    ASSUME TypeParts, TakeEvent
    PROVE  LET p == talk.pi IN
           /\ p \in 1..Len(pi) /\ pi[p].queue # <<>>
           /\ Head(pi[p].queue) \in Event /\ talk' = Consumed(Head(pi[p].queue))
           /\ pi' \in Seq(Process) /\ Len(pi') = Len(pi)
           /\ \A q \in 1..Len(pi) : q # p => pi'[q] = pi[q]
           /\ pi'[p].alive = pi[p].alive /\ pi'[p].asked = pi[p].asked
           /\ pi'[p].turn = pi[p].turn /\ pi'[p].queue = Tail(pi[p].queue)
<1>1. PICK p : p = talk.pi
  OBVIOUS
<1>2. p \in 1..Len(pi) /\ pi[p] \in Process /\ pi[p].queue # <<>>
  BY <1>1, ElementOfSeq DEF TakeEvent, TypeParts
<1>3. pi[p].queue \in Seq(Event) /\ Tail(pi[p].queue) \in Seq(Event)
      /\ Head(pi[p].queue) \in Event
  BY <1>2, HeadTailProperties DEF Process
<1>4. PICK row : row = [pi[p] EXCEPT !.queue = Tail(pi[p].queue)]
  OBVIOUS
<1>5. /\ row \in Process /\ row.alive = pi[p].alive /\ row.asked = pi[p].asked
      /\ row.turn = pi[p].turn /\ row.queue = Tail(pi[p].queue)
  BY <1>2, <1>3, <1>4 DEF Process
<1>6. pi' = [pi EXCEPT ![p] = row]
  BY <1>1, <1>4 DEF TakeEvent
<1>7. /\ pi' \in Seq(Process) /\ Len(pi') = Len(pi)
      /\ \A q \in 1..Len(pi) : pi'[q] = IF q = p THEN row ELSE pi[q]
  BY <1>2, <1>5, <1>6, OneChanged DEF TypeParts
<1>8. talk' = Consumed(Head(pi[p].queue))
  BY <1>1 DEF TakeEvent
<1>9. QED
  BY <1>1, <1>2, <1>3, <1>5, <1>7, <1>8

(* What the request becomes by it.                                         *)
LEMMA ConsumedParts ==
    ASSUME TypeParts, talk.at = "loop", NEW event \in Event
    PROVE  LET t == Consumed(event) IN
           /\ t \in Talk /\ t.pi = talk.pi /\ t.turn = talk.turn /\ t.req = talk.req
           /\ t.acked = (talk.acked \/ (event.type = "accept" /\ event.turn = talk.turn))
           /\ t.texts = IF event.type = "text" THEN talk.texts \cup {event.turn}
                        ELSE talk.texts
           /\ t.ended = IF event.type = "end" THEN event.turn ELSE talk.ended
           /\ t.at \in {"fail", "reply", "loop"}
           /\ t.at = "fail" <=> (event.type = "reject" /\ event.turn = talk.turn)
           /\ t.at = "reply" <=> (event.type \in Ends /\ talk.acked)
<1>1. event.turn \in 1..MaxTurns /\ event.turn \in Turns
      /\ event.type \in {"accept", "reject", "text", "end", "quiet"}
  BY PiSessionAssumption DEF Event, Turns
<1>2. PICK acked : acked = (talk.acked \/ (event.type = "accept" /\ event.turn = talk.turn))
  OBVIOUS
<1>3. PICK texts : texts = IF event.type = "text" THEN talk.texts \cup {event.turn}
                           ELSE talk.texts
  OBVIOUS
<1>4. PICK ended : ended = IF event.type = "end" THEN event.turn ELSE talk.ended
  OBVIOUS
<1>5. PICK at : at = CASE event.type = "reject" /\ event.turn = talk.turn -> "fail"
                       [] event.type \in Ends /\ talk.acked -> "reply"
                       [] OTHER -> talk.at
  OBVIOUS
<1>6. Consumed(event) = [talk EXCEPT !.acked = acked, !.texts = texts, !.ended = ended,
                                     !.at = at]
  BY <1>2, <1>3, <1>4, <1>5 DEF Consumed, Completes, EndsTurn
<1>7. talk \in Talk
  BY DEF TypeParts
<1>8. acked \in BOOLEAN
  BY <1>2
<1>9. texts \in SUBSET (1..MaxTurns) /\ ended \in Turns
  BY <1>1, <1>3, <1>4, <1>7 DEF Talk
<1>10. /\ at \in {"fail", "reply", "loop"}
       /\ at = "fail" <=> (event.type = "reject" /\ event.turn = talk.turn)
       /\ at = "reply" <=> (event.type \in Ends /\ talk.acked)
  BY <1>1, <1>5 DEF Ends
<1>11. PICK t : t = Consumed(event)
  OBVIOUS
<1>12. /\ t \in Talk /\ t.pi = talk.pi /\ t.turn = talk.turn /\ t.req = talk.req
       /\ t.acked = acked /\ t.texts = texts /\ t.ended = ended /\ t.at = at
  BY <1>6, <1>7, <1>8, <1>9, <1>10, <1>11 DEF Talk, Places
<1>13. QED
  BY <1>2, <1>3, <1>4, <1>10, <1>11, <1>12

LEMMA TypeTakeEvent == ASSUME TypeParts, TakeEvent PROVE TypeParts'
<1>1. PICK event \in Event : talk' = Consumed(event)
  BY TakeEffect
<1>2. talk.at = "loop"
  BY DEF TakeEvent
<1>3. PICK t : t = Consumed(event)
  OBVIOUS
<1>4. /\ t \in Talk /\ t.pi = talk.pi /\ t.turn = talk.turn /\ t.req = talk.req
  BY <1>2, <1>3, ConsumedParts
<1>5. pi' \in Seq(Process) /\ Len(pi') = Len(pi)
  BY TakeEffect
<1>6. QED
  BY <1>1, <1>2, <1>3, <1>4, <1>5 DEF TakeEvent, TypeParts

LEMMA TypeTimeout == ASSUME TypeParts, Timeout PROVE TypeParts'
<1>1. PICK at \in {"reply", "fail"} : talk' = [talk EXCEPT !.at = at]
  BY DEF Timeout
<1>2. talk' \in Talk /\ talk'.pi = talk.pi /\ talk'.turn = talk.turn /\ talk'.req = talk.req
  BY <1>1 DEF Talk, Places, TypeParts
<1>3. QED
  BY <1>2 DEF Timeout, TypeParts

LEMMA TypeReply == ASSUME TypeParts, Reply PROVE TypeParts'
<1>1. talk' \in {[talk EXCEPT !.at = "import"], Idle}
  BY DEF Reply
<1>2. talk' \in Talk /\ talk'.pi \in {talk.pi, 0}
      /\ \/ talk'.at = "import" /\ talk'.pi = talk.pi /\ talk'.turn = talk.turn
            /\ talk'.req = talk.req
         \/ talk'.at = "idle"
  BY <1>1, IdleTalk DEF Talk, Places, TypeParts
<1>3. transcript' \in Seq(Entry)
  <2>1. Text(talk) \in SUBSET (1..MaxTurns) /\ talk.turn \in Turns
    BY DEF Text, TypeParts, Talk, Turns
  <2>2. QED
    BY <2>1, NoteTyped DEF Reply, TypeParts
<1>4. status' \in {"failed", "running"}
  BY DEF Reply
<1>5. QED
  BY <1>2, <1>3, <1>4 DEF Reply, TypeParts

LEMMA TypeFail == ASSUME TypeParts, Fail PROVE TypeParts'
<1>1. pi' \in Seq(Process) /\ Len(pi') = Len(pi) /\ client' \in 0..Len(pi)
  BY CloseEffect DEF Fail, DropClient, TypeParts
<1>2. status' \in {"failed", status}
  BY DEF Fail, Failed
<1>3. talk' \in Talk /\ talk'.pi = 0 /\ talk'.at = "idle"
  BY LostTalk DEF Fail
<1>4. QED
  BY <1>1, <1>2, <1>3 DEF Fail, TypeParts

LEMMA TypeImport == ASSUME TypeParts, Import PROVE TypeParts'
<1>1. pi' \in Seq(Process) /\ Len(pi') = Len(pi) /\ client' \in 0..Len(pi)
  BY CloseEffect DEF Import, TypeParts
<1>2. talk' = Idle \/ (talk.repairs < Repairs
                       /\ talk' = [talk EXCEPT !.at = "send", !.repairs = talk.repairs + 1])
  BY DEF Import, RepairsLeft
<1>3. /\ talk' \in Talk /\ talk'.pi \in {0, talk.pi}
      /\ talk'.at = "idle" \/ (talk'.at = "send" /\ talk'.req = talk.req)
  <2>1. talk \in Talk /\ (talk.repairs < Repairs => talk.repairs + 1 \in 0..Repairs)
    BY PiSessionAssumption DEF TypeParts, Talk
  <2>2. QED
    BY <1>2, <2>1, IdleTalk DEF Talk, Places
<1>4. imports' \subseteq BOOLEAN /\ status' \in {"closed", status}
  BY DEF Import, TypeParts
<1>5. QED
  BY <1>1, <1>3, <1>4 DEF Import, TypeParts

LEMMA TypePress == ASSUME TypeParts, NEW what \in {"close", "reset"}, Press(what) PROVE TypeParts'
<1>1. pi' \in Seq(Process) /\ Len(pi') = Len(pi) /\ client' \in 0..Len(pi)
  BY CloseEffect, LenProperties DEF Press, TypeParts
<1>2. buttons' \in 0..MaxButtons
  BY PiSessionAssumption DEF Press, TypeParts
<1>3. QED
  BY <1>1, <1>2 DEF Press, TypeParts

LEMMA TypeRelease == ASSUME TypeParts, Release PROVE TypeParts'
<1>1. status' \in {"closed", "not_started"} /\ runtime' \in BOOLEAN
  BY DEF Release, TypeParts
<1>2. transcript' \in Seq(Entry)
  BY EmptySeq DEF Release, TypeParts
<1>3. QED
  BY <1>1, <1>2 DEF Release, TypeParts

(* The restart leaves no process alive.                                    *)
LEMMA RestartEffect ==
    ASSUME TypeParts, Restart
    PROVE  /\ pi' \in Seq(Process) /\ Len(pi') = Len(pi) /\ client' = 0
           /\ \A q \in 1..Len(pi) : pi'[q] = Exited
<1>1. Exited \in Process
  BY PiSessionAssumption DEF Exited, Process, Turns
<1>2. Processes = 1..Len(pi) /\ Len(pi) \in Nat
  BY LenProperties DEF TypeParts, Processes
<1>3. pi' \in [1..Len(pi) -> Process] /\ \A q \in 1..Len(pi) : pi'[q] = Exited
  BY <1>1, <1>2 DEF Restart
<1>4. QED
  BY <1>2, <1>3, FunctionIsSeq DEF Restart

LEMMA TypeRestart == ASSUME TypeParts, Restart PROVE TypeParts'
<1>1. buttons' \in 0..MaxButtons
  BY PiSessionAssumption DEF Restart, TypeParts
<1>2. talk' \in Talk /\ talk'.pi = 0 /\ talk'.at = "idle"
  BY LostTalk DEF Restart
<1>3. Len(pi') \in Nat /\ pi' \in Seq(Process) /\ client' = 0
  BY RestartEffect, LenProperties
<1>4. QED
  BY <1>1, <1>2, <1>3 DEF Restart, TypeParts

LEMMA TypeNext == TypeParts /\ [Next]_vars => TypeParts'
<1> SUFFICES ASSUME TypeParts, [Next]_vars PROVE TypeParts'
  OBVIOUS
<1>1. CASE UNCHANGED vars
  BY <1>1 DEF vars, TypeParts
<1>2. CASE Next
  BY <1>2, TypePi, TypeReceive, TypeAttach, TypeOpen, TypeSend, TypeWrite, TypeTakeEvent,
     TypeTimeout, TypeReply, TypeFail, TypeImport, TypePress, TypeRelease, TypeRestart
     DEF Next, Talker
<1>3. QED
  BY <1>1, <1>2
-----------------------------------------------------------------------------
(* Every step leaves each process as it was, or the step is of that        *)
(* process, of the request or of a button: here, what matters to NoOrphan. *)
LEMMA OrphanInit == Init => NoOrphan
BY DEF Init, NoOrphan, Processes

LEMMA OrphanNext == TypeParts /\ NoOrphan /\ [Next]_vars => NoOrphan'
<1> SUFFICES ASSUME TypeParts, NoOrphan, [Next]_vars PROVE NoOrphan'
  OBVIOUS
<1>1. /\ Processes = 1..Len(pi) /\ Len(pi) \in Nat
      /\ Processes' = 1..Len(pi') /\ Len(pi') \in Nat
  BY TypeNext, LenProperties DEF TypeParts, Processes
<1>2. CASE CloseClient
  BY <1>1, <1>2, CloseEffect, KilledRow DEF NoOrphan, TypeParts
<1>3. CASE OpenClient
  <2>1. CASE client # 0
    BY <1>3, <2>1, OpenEffect DEF NoOrphan, Processes
  <2>2. CASE client = 0
    BY <1>1, <1>3, <2>2, OpenEffect DEF NoOrphan
  <2>3. QED
    BY <2>1, <2>2
<1>4. CASE UNCHANGED <<client, pi>>
  BY <1>4 DEF NoOrphan, Processes
<1>5. CASE Pi
  <2>1. PICK p \in 1..Len(pi) : Answer(p) \/ Say(p) \/ EndTurn(p) \/ Die(p)
    BY <1>1, <1>5 DEF Pi
  <2>2. CASE Die(p)
    <3>1. PICK row : row = Killed(p)
      OBVIOUS
    <3>2. /\ Len(pi') = Len(pi) /\ ~row.alive /\ client' = client
          /\ \A q \in 1..Len(pi) : pi'[q] = IF q = p THEN row ELSE pi[q]
      BY <2>2, <3>1, KilledRow, OneChanged DEF Die, TypeParts
    <3>3. QED
      BY <1>1, <3>2 DEF NoOrphan
  <2>3. CASE Answer(p) \/ Say(p) \/ EndTurn(p)
    <3>1. PICK type \in {"accept", "reject", "text", "end", "quiet"}, t \in 1..MaxTurns :
             Emits(p, type, t)
      BY <2>3, SpeakerHasTurn DEF Answer, Say, EndTurn, Ends
    <3>2. /\ Len(pi') = Len(pi) /\ client' = client
          /\ \A q \in 1..Len(pi) : pi'[q].alive = pi[q].alive
      BY <3>1, EmitsEffect DEF Emits
    <3>3. QED
      BY <1>1, <3>2 DEF NoOrphan
  <2>4. QED
    BY <2>1, <2>2, <2>3
<1>6. CASE Send
  <2>1. CASE \E p \in 1..(Len(pi) + 1) : Prompts(p)
    <3>1. PICK p \in 1..(Len(pi) + 1) : Prompts(p)
      BY <2>1
    <3>2. /\ client' = p
          /\ \A q \in 1..Len(pi') : (q \in 1..Len(pi) /\ pi'[q] = pi[q]) \/ q = p
      BY <1>6, <3>1, SendEffect, PromptsEffect
    <3>3. \A q \in 1..Len(pi) : pi[q].alive => q = p
      BY <1>1, <3>1 DEF NoOrphan, Prompts
    <3>4. QED
      BY <1>1, <3>2, <3>3 DEF NoOrphan
  <2>2. QED
    BY <1>4, <1>6, <2>1, SendEffect
<1>7. CASE TakeEvent
  BY <1>1, <1>7, TakeEffect DEF NoOrphan, TakeEvent
<1>8. CASE Write
  <2>1. \A q \in 1..Len(pi) : pi'[q].alive = pi[q].alive
    <3>1. PICK p : p = talk.pi
      OBVIOUS
    <3>2. /\ \A q \in 1..Len(pi) : q # p => pi'[q] = pi[q]
          /\ pi[p].alive = pi'[p].alive
      BY <1>8, <3>1, WriteEffect
    <3>3. QED
      BY <3>2
  <2>2. QED
    BY <1>1, <1>8, <2>1, WriteEffect DEF NoOrphan
<1>9. CASE Restart
  BY <1>1, <1>9, RestartEffect DEF NoOrphan, Exited
<1>10. QED
  BY <1>2, <1>3, <1>4, <1>5, <1>6, <1>7, <1>8, <1>9
     DEF Next, vars, Talker, Receive, Attach, Open, Timeout, Reply, Fail, DropClient, Import,
         Press, Release

(* ProcessesOwned: the chat and its processes keep their types, and every  *)
(* Pi process that is alive is the one the registry knows (the pops and    *)
(* spawns of _close_client and _client), whatever requests, buttons and    *)
(* deaths of processes interleave, with or without the races.              *)
THEOREM ProcessesStayOwned == Spec => []ProcessesOwned
<1>1. TypeParts /\ NoOrphan => ProcessesOwned
  BY TypeApart DEF TypeInv, ProcessesOwned
<1>2. QED
  BY <1>1, TypeInit, TypeNext, OrphanInit, OrphanNext, PTL DEF Spec
-----------------------------------------------------------------------------
(* Replies.  Without the two races of the deadline, a process that no      *)
(* prompt waits for owes nothing: nothing in its queue, no prompt to       *)
(* answer, no turn under way.                                              *)
Quiet(q) == q.queue = <<>> /\ q.asked = 0 /\ q.turn = 0

Silenced == \A p \in Processes : ~pi[p].alive => pi[p].asked = 0 /\ pi[p].turn = 0

Settled ==
    \A p \in Processes : pi[p].alive =>
        \/ Quiet(pi[p])
        \/ talk.at = "loop" /\ p = talk.pi
        \/ talk.at = "fail" /\ ~KeepsClient

(* What the process of the prompt under way owes is of that prompt's turn, *)
(* in this order: the acknowledgement, texts, one end.                     *)
Owes(q) ==
    /\ q.asked # 0 => q.asked = talk.turn /\ q.turn = 0 /\ q.queue = <<>> /\ ~talk.acked
    /\ q.turn # 0 =>
          /\ q.turn = talk.turn
          /\ \A i \in 1..Len(q.queue) : q.queue[i].type \notin Ends
          /\ q.queue = <<>> => talk.acked
    /\ \A i \in 1..Len(q.queue) :
          /\ q.queue[i].turn = talk.turn /\ q.queue[i].type # "reject"
          /\ q.queue[i].type = "accept" <=> (i = 1 /\ ~talk.acked)
          /\ q.queue[i].type \in Ends => i = Len(q.queue)

Exchange == talk.at = "loop" => Owes(pi[talk.pi])

OwnTexts ==
    /\ talk.at \in {"loop", "reply"} =>
           talk.texts \subseteq {talk.turn} /\ talk.ended \in {0, talk.turn}
    /\ talk.at = "write" => ~talk.acked /\ talk.texts = {} /\ talk.ended = 0

ReplyInv == Silenced /\ Settled /\ Exchange /\ OwnTexts /\ OwnReply /\ ImportAfterTurn

LEMMA ReplyInit == Init => ReplyInv
BY DEF Init, ReplyInv, Silenced, Settled, Exchange, OwnTexts, OwnReply, ImportAfterTurn,
       Processes, Idle

(* A step that leaves the processes alone and the prompt outside its loop. *)
LEMMA ReplyKept ==
    ASSUME TypeParts, ReplyInv, UNCHANGED pi,
           \A p \in Processes : pi[p].alive => Quiet(pi[p]),
           talk'.at \in Places \ {"write", "loop"},
           talk'.at = "reply" => OwnTexts'
    PROVE  Silenced' /\ Settled' /\ Exchange' /\ OwnTexts'
<1>1. Silenced'
  BY DEF ReplyInv, Silenced, Processes
<1>2. Settled'
  BY DEF Settled, Processes, Quiet
<1>3. QED
  BY <1>1, <1>2 DEF Exchange, OwnTexts

(* Closing the client leaves no process alive.                             *)
LEMMA AllClosed ==
    ASSUME TypeParts, NoOrphan, ReplyInv, CloseClient
    PROVE  Silenced' /\ \A p \in Processes' : ~pi'[p].alive
<1>1. Processes = 1..Len(pi) /\ Processes' = 1..Len(pi)
  BY CloseEffect, LenProperties DEF TypeParts, Processes
<1>2. \A p \in 1..Len(pi) : pi'[p] = IF p = client THEN Killed(client) ELSE pi[p]
  BY CloseEffect
<1>3. ASSUME NEW p \in 1..Len(pi)
      PROVE  ~pi'[p].alive /\ pi'[p].asked = 0 /\ pi'[p].turn = 0
  <2>1. CASE p = client
    BY <1>2, <2>1, KilledRow
  <2>2. CASE p # client
    BY <1>1, <1>2, <2>2 DEF NoOrphan, ReplyInv, Silenced
  <2>3. QED
    BY <2>1, <2>2
<1>4. QED
  BY <1>1, <1>3 DEF Silenced

(* A process that only falls silent owes no more than before.              *)
LEMMA OwesKept ==
    ASSUME TypeParts, NEW c \in 1..Len(pi), Owes(pi[c]), UNCHANGED talk,
           pi'[c].queue = pi[c].queue, pi'[c].asked \in {0, pi[c].asked},
           pi'[c].turn \in {0, pi[c].turn}
    PROVE  Owes(pi[c])'
<1>1. PICK old : old = pi[c]
  OBVIOUS
<1>2. PICK new : new = pi'[c]
  OBVIOUS
<1>3. /\ new.queue = old.queue /\ new.asked \in {0, old.asked} /\ new.turn \in {0, old.turn}
      /\ Owes(old)
  BY <1>1, <1>2
<1>4. Owes(new)
  BY <1>3 DEF Owes
<1>5. QED
  BY <1>2, <1>4 DEF Owes

LEMMA ReplyPi == ASSUME TypeParts, NoOrphan, ReplyInv, Pi PROVE ReplyInv'
<1>1. PICK p \in 1..Len(pi) : Answer(p) \/ Say(p) \/ EndTurn(p) \/ Die(p)
  BY LenProperties DEF Pi, Processes, TypeParts
<1>2. UNCHANGED <<kind, transcript, talk, imports>> /\ pi[p] \in Process
  BY <1>1, SpeakerHasTurn DEF Answer, Say, EndTurn, Die, Emits
<1>3. Processes = 1..Len(pi) /\ talk \in Talk
  BY LenProperties DEF Processes, TypeParts
<1>4. OwnTexts' /\ OwnReply' /\ ImportAfterTurn'
  BY <1>2 DEF ReplyInv, OwnTexts, OwnReply, ImportAfterTurn
<1>5. CASE Die(p)
  <2>1. PICK row : row = Killed(p)
    OBVIOUS
  <2>2. /\ ~row.alive /\ row.asked = 0 /\ row.turn = 0 /\ row.queue = pi[p].queue
        /\ Processes' = 1..Len(pi)
        /\ \A q \in 1..Len(pi) : pi'[q] = IF q = p THEN row ELSE pi[q]
    BY <1>5, <2>1, KilledRow, OneChanged, LenProperties DEF Die, TypeParts, Processes
  <2>3. Silenced' /\ Settled'
    BY <1>2, <1>3, <2>2 DEF ReplyInv, Silenced, Settled, KeepsClient
  <2>4. Exchange'
    <3>1. SUFFICES ASSUME talk.at = "loop" PROVE Owes(pi[talk.pi])'
      BY <1>2 DEF Exchange
    <3>2. PICK c : c = talk.pi
      OBVIOUS
    <3>3. c \in 1..Len(pi) /\ Owes(pi[c])
      BY <3>1, <3>2 DEF ReplyInv, Exchange, TypeParts
    <3>4. /\ pi'[c].queue = pi[c].queue /\ pi'[c].asked \in {0, pi[c].asked}
          /\ pi'[c].turn \in {0, pi[c].turn}
      BY <2>2, <3>3
    <3>5. Owes(pi[c])'
      BY <1>2, <3>3, <3>4, OwesKept
    <3>6. QED
      BY <1>2, <3>2, <3>5
  <2>5. QED
    BY <1>4, <2>3, <2>4 DEF ReplyInv
<1>6. CASE Answer(p) \/ Say(p) \/ EndTurn(p)
  <2>1. pi[p].alive /\ (pi[p].asked # 0 \/ pi[p].turn # 0)
    BY <1>6 DEF Answer, Say, EndTurn
  <2>2. \/ talk.at = "loop" /\ p = talk.pi
        \/ talk.at = "fail" /\ ~KeepsClient
    BY <1>3, <2>1 DEF ReplyInv, Settled, Quiet
  <2>3. PICK type \in {"accept", "reject", "text", "end", "quiet"} :
           \E t \in 1..MaxTurns :
              /\ Emits(p, type, t)
              /\ \/ type \in {"accept", "reject"} /\ t = pi[p].asked
                    /\ (pi[p].turn = 0 => type = "accept")
                 \/ type \notin {"accept", "reject"} /\ t = pi[p].turn /\ pi[p].turn # 0
    BY <1>6, SpeakerHasTurn DEF Answer, Say, EndTurn, Ends
  <2>4. PICK t \in 1..MaxTurns :
              /\ Emits(p, type, t)
              /\ \/ type \in {"accept", "reject"} /\ t = pi[p].asked
                    /\ (pi[p].turn = 0 => type = "accept")
                 \/ type \notin {"accept", "reject"} /\ t = pi[p].turn /\ pi[p].turn # 0
    BY <2>3
  <2>5. /\ Processes' = 1..Len(pi)
        /\ \A q \in 1..Len(pi) : q # p => pi'[q] = pi[q]
        /\ pi'[p].alive = pi[p].alive
        /\ pi'[p].queue = Append(pi[p].queue, [type |-> type, turn |-> t])
        /\ pi'[p].asked = IF type \in {"accept", "reject"} THEN 0 ELSE pi[p].asked
        /\ type = "accept" => pi'[p].turn = t
        /\ type \in Ends => pi'[p].turn = 0
        /\ type \notin Ends \cup {"accept"} => pi'[p].turn = pi[p].turn
    <3>1. Emits(p, type, t)
      BY <2>4
    <3>2. /\ pi' \in Seq(Process) /\ Len(pi') = Len(pi)
          /\ \A q \in 1..Len(pi) : q # p => pi'[q] = pi[q]
          /\ pi'[p].alive = pi[p].alive
          /\ pi'[p].queue = Append(pi[p].queue, [type |-> type, turn |-> t])
          /\ pi'[p].asked = IF type \in {"accept", "reject"} THEN 0 ELSE pi[p].asked
          /\ type = "accept" => pi'[p].turn = t
          /\ type \in Ends => pi'[p].turn = 0
          /\ type \notin Ends \cup {"accept"} => pi'[p].turn = pi[p].turn
      BY <3>1, EmitsEffect
    <3>3. Processes' = 1..Len(pi)
      BY <3>2, LenProperties DEF Processes
    <3>4. QED
      BY <3>2, <3>3
  <2>6. Silenced' /\ Settled'
    BY <1>2, <1>3, <2>1, <2>2, <2>5 DEF ReplyInv, Silenced, Settled, KeepsClient, Quiet
  <2>7. Exchange'
    <3>1. SUFFICES ASSUME talk.at = "loop" PROVE Owes(pi[p])'
      BY <1>2, <2>2 DEF Exchange
    <3>2. Owes(pi[p]) /\ p = talk.pi
      BY <2>2, <3>1 DEF ReplyInv, Exchange
    <3>3. PICK queue : queue = pi[p].queue
      OBVIOUS
    <3>4. PICK event : event = [type |-> type, turn |-> t]
      OBVIOUS
    <3>5. /\ queue \in Seq(Event) /\ Len(queue) \in Nat
          /\ (queue = <<>>) = (Len(queue) = 0)
      BY <1>2, <3>3, EmptySeq DEF Process
    <3>6. /\ pi'[p].queue = Append(queue, event) /\ event.type = type /\ event.turn = t
          /\ Len(Append(queue, event)) = Len(queue) + 1
          /\ \A i \in 1..Len(queue) : Append(queue, event)[i] = queue[i]
          /\ Append(queue, event)[Len(queue) + 1] = event
          /\ Append(queue, event) # <<>>
      <4>1. /\ pi'[p].queue = Append(queue, event)
            /\ event.type = type /\ event.turn = t /\ event \in Event
        BY <2>5, <3>3, <3>4 DEF Event
      <4>2. QED
        BY <3>5, <4>1, AppendProperties
    <3>7. CASE type \in {"accept", "reject"}
      <4>1. type = "accept" /\ t = talk.turn /\ ~talk.acked /\ Len(queue) = 0 /\ t # 0
        BY <2>1, <2>4, <3>2, <3>3, <3>5, <3>7 DEF Owes
      <4>2. pi'[p].asked = 0 /\ pi'[p].turn = t
        BY <2>5, <4>1
      <4>3. QED
        BY <1>2, <3>6, <4>1, <4>2 DEF Owes, Ends
    <3>8. CASE type \notin {"accept", "reject"}
      <4>1. /\ t = talk.turn /\ pi[p].turn = t /\ t # 0 /\ pi[p].asked = 0
            /\ \A i \in 1..Len(queue) : queue[i].type \notin Ends
            /\ Len(queue) = 0 => talk.acked
            /\ \A i \in 1..Len(queue) :
                  /\ queue[i].turn = talk.turn /\ queue[i].type # "reject"
                  /\ queue[i].type = "accept" <=> (i = 1 /\ ~talk.acked)
        BY <2>4, <3>2, <3>3, <3>5, <3>8 DEF Owes
      <4>2. /\ pi'[p].asked = 0 /\ pi'[p].turn \in {0, t}
            /\ type \in Ends => pi'[p].turn = 0
        BY <2>5, <3>8, <4>1 DEF Ends
      <4>3. ASSUME NEW i \in 1..(Len(queue) + 1)
            PROVE  /\ pi'[p].queue[i].turn = talk.turn
                   /\ pi'[p].queue[i].type # "reject"
                   /\ pi'[p].queue[i].type = "accept" <=> (i = 1 /\ ~talk.acked)
                   /\ pi'[p].queue[i].type \in Ends => i = Len(queue) + 1 /\ type \in Ends
        <5>1. CASE i = Len(queue) + 1
          BY <3>5, <3>6, <3>8, <4>1, <5>1
        <5>2. CASE i \in 1..Len(queue)
          BY <3>6, <4>1, <5>2
        <5>3. QED
          BY <3>5, <5>1, <5>2
      <4>4. QED
        BY <1>2, <3>6, <4>1, <4>2, <4>3 DEF Owes
    <3>9. QED
      BY <3>7, <3>8
  <2>8. QED
    BY <1>4, <2>6, <2>7 DEF ReplyInv
<1>7. QED
  BY <1>1, <1>5, <1>6

(* The request, from its first step to the prompt.                         *)
LEMMA ReplyReceive ==
    ASSUME TypeParts, NoOrphan, ReplyInv, NEW req \in Requests, Receive(req)
    PROVE  ReplyInv'
<1>1. talk.at = "idle" /\ talk'.at \in {"attach", "open"}
  BY IdleTalk DEF Receive, Talk
<1>2. \A p \in Processes : pi[p].alive => Quiet(pi[p])
  BY <1>1 DEF ReplyInv, Settled
<1>3. Silenced' /\ Settled' /\ Exchange' /\ OwnTexts'
  BY <1>1, <1>2, ReplyKept DEF Receive, Places
<1>4. QED
  BY <1>3 DEF ReplyInv, Receive, OwnReply, ImportAfterTurn

(* Steps that close the client while no prompt is in its loop.             *)
LEMMA ReplyClosed ==
    ASSUME TypeParts, NoOrphan, ReplyInv, CloseClient,
           talk'.at \notin {"write", "loop", "reply"},
           UNCHANGED transcript, imports' \subseteq imports \cup {FALSE}
    PROVE  ReplyInv'
<1>1. Silenced' /\ Settled'
  BY AllClosed DEF Settled, Processes
<1>2. Exchange' /\ OwnTexts'
  BY DEF Exchange, OwnTexts
<1>3. QED
  BY <1>1, <1>2 DEF ReplyInv, OwnReply, ImportAfterTurn

LEMMA ReplyAttach == ASSUME TypeParts, NoOrphan, ReplyInv, Attach PROVE ReplyInv'
<1>1. talk.at = "attach" /\ talk'.at = "open"
  BY DEF Attach, TypeParts, Talk
<1>2. CASE CloseClient
  BY <1>1, <1>2, ReplyClosed DEF Attach
<1>3. CASE UNCHANGED <<client, pi>>
  <2>1. \A p \in Processes : pi[p].alive => Quiet(pi[p])
    BY <1>1 DEF ReplyInv, Settled
  <2>2. Silenced' /\ Settled' /\ Exchange' /\ OwnTexts'
    BY <1>1, <1>3, <2>1, ReplyKept DEF Places
  <2>3. QED
    BY <2>2 DEF ReplyInv, Attach, OwnReply, ImportAfterTurn
<1>4. QED
  BY <1>2, <1>3 DEF Attach

(* A new process owes nothing.                                             *)
LEMMA ReplyFresh ==
    ASSUME TypeParts, ReplyInv, \A p \in Processes : pi[p].alive => Quiet(pi[p]),
           pi' \in Seq(Process),
           \A q \in 1..Len(pi') : \/ q \in 1..Len(pi) /\ pi'[q] = pi[q]
                                \/ pi'[q] = NewProcess
    PROVE  Silenced' /\ Settled'
<1>1. Processes = 1..Len(pi) /\ Processes' = 1..Len(pi')
  BY LenProperties DEF Processes, TypeParts
<1>2. Quiet(NewProcess) /\ NewProcess.alive
  BY DEF Quiet, NewProcess
<1>3. Silenced'
  BY <1>1, <1>2 DEF ReplyInv, Silenced
<1>4. \A q \in 1..Len(pi') : pi'[q].alive =>
          pi'[q].queue = <<>> /\ pi'[q].asked = 0 /\ pi'[q].turn = 0
  BY <1>1, <1>2 DEF Quiet
<1>5. QED
  BY <1>1, <1>3, <1>4 DEF Settled, Quiet

LEMMA ReplyOpen == ASSUME TypeParts, NoOrphan, ReplyInv, Open PROVE ReplyInv'
<1>1. talk.at = "open" /\ talk'.at \in {"send", "idle", "fail"}
  BY LostTalk DEF Open, TypeParts, Talk
<1>2. \A p \in Processes : pi[p].alive => Quiet(pi[p])
  BY <1>1 DEF ReplyInv, Settled
<1>3. CASE UNCHANGED <<client, pi>>
  <2>1. Silenced' /\ Settled' /\ Exchange' /\ OwnTexts'
    BY <1>1, <1>2, <1>3, ReplyKept DEF Places
  <2>2. QED
    BY <2>1 DEF ReplyInv, Open, OwnReply, ImportAfterTurn
<1>4. CASE OpenClient /\ client = 0
  <2>1. /\ pi' \in Seq(Process) /\ Len(pi') = Len(pi) + 1 /\ Len(pi) \in Nat
        /\ pi'[Len(pi) + 1] = NewProcess
        /\ \A q \in 1..Len(pi) : pi'[q] = pi[q]
    BY <1>4, OpenEffect, LenProperties DEF TypeParts
  <2>2. \A q \in 1..Len(pi') : \/ q \in 1..Len(pi) /\ pi'[q] = pi[q]
                               \/ pi'[q] = NewProcess
    BY <2>1
  <2>3. Silenced' /\ Settled'
    BY <1>2, <2>1, <2>2, ReplyFresh
  <2>4. Exchange' /\ OwnTexts'
    BY <1>1 DEF Exchange, OwnTexts
  <2>5. QED
    BY <2>3, <2>4 DEF ReplyInv, Open, OwnReply, ImportAfterTurn
<1>5. QED
  BY <1>3, <1>4 DEF Open, OpenClient

(* A new entry of the user or of the greeting says nothing for Pi.         *)
LEMMA OwnReplyNote ==
    ASSUME TypeParts, OwnReply, NEW role, NEW turn, NEW texts,
           texts \subseteq {turn}, transcript' = Note(role, turn, texts)
    PROVE  OwnReply'
<1>1. PICK entry : entry = [role |-> role, turn |-> turn, texts |-> texts]
  OBVIOUS
<1>2. transcript' = Append(transcript, entry) /\ entry.turn = turn /\ entry.texts = texts
  BY <1>1 DEF Note
<1>3. DOMAIN transcript = 1..Len(transcript) /\ Len(transcript) \in Nat
  BY LenProperties DEF TypeParts
<1>4. /\ DOMAIN transcript' = 1..(Len(transcript) + 1)
      /\ \A i \in 1..Len(transcript) : transcript'[i] = transcript[i]
      /\ transcript'[Len(transcript) + 1] = entry
  BY <1>2, <1>3 DEF TypeParts
<1>5. ASSUME NEW i \in 1..(Len(transcript) + 1)
      PROVE  transcript'[i].texts \subseteq {transcript'[i].turn}
  <2>1. CASE i = Len(transcript) + 1
    BY <1>2, <1>4, <2>1
  <2>2. CASE i \in 1..Len(transcript)
    BY <1>3, <1>4, <2>2 DEF OwnReply
  <2>3. QED
    BY <1>3, <2>1, <2>2
<1>6. QED
  BY <1>4, <1>5 DEF OwnReply

LEMMA ReplySend == ASSUME TypeParts, NoOrphan, ReplyInv, Send PROVE ReplyInv'
<1>1. talk.at = "send" /\ \A p \in Processes : pi[p].alive => Quiet(pi[p])
  BY DEF Send, ReplyInv, Settled
<1>2. OwnReply'
  <2>1. transcript' = Note(Speaks, turns + 1, {})
    BY DEF Send
  <2>2. QED
    BY <2>1, OwnReplyNote DEF ReplyInv
<1>3. ImportAfterTurn'
  BY DEF Send, ReplyInv, ImportAfterTurn
<1>4. CASE UNCHANGED <<client, pi>> /\ talk' \in {[talk EXCEPT !.at = "fail"], Lost}
  <2>1. talk'.at \in {"fail", "idle"}
    BY <1>4, LostTalk DEF TypeParts, Talk
  <2>2. QED
    BY <1>1, <1>2, <1>3, <1>4, <2>1, ReplyKept DEF ReplyInv, Places
<1>5. CASE \E p \in 1..(Len(pi) + 1) : Prompts(p)
  <2>1. PICK p \in 1..(Len(pi) + 1) : Prompts(p)
    BY <1>5
  <2>2. /\ talk'.at = "write" /\ ~talk'.acked /\ talk'.texts = {} /\ talk'.ended = 0
        /\ pi' \in Seq(Process)
        /\ \A q \in 1..Len(pi') : \/ q \in 1..Len(pi) /\ pi'[q] = pi[q]
                                  \/ pi'[q] = NewProcess
    BY <2>1, SendEffect, PromptsEffect
  <2>3. Silenced' /\ Settled'
    BY <1>1, <2>2, ReplyFresh
  <2>4. Exchange' /\ OwnTexts'
    BY <2>2 DEF Exchange, OwnTexts
  <2>5. QED
    BY <1>2, <1>3, <2>3, <2>4 DEF ReplyInv
<1>6. QED
  BY <1>4, <1>5, SendEffect

(* The process that is written to owes nothing else.                       *)
LEMMA ReplyWrite == ASSUME TypeParts, NoOrphan, ReplyInv, Write PROVE ReplyInv'
<1>1. talk.at = "write" /\ \A p \in Processes : pi[p].alive => Quiet(pi[p])
  BY DEF Write, ReplyInv, Settled
<1>2. OwnReply' /\ ImportAfterTurn'
  BY DEF Write, ReplyInv, OwnReply, ImportAfterTurn
<1>3. PICK p : p = talk.pi
  OBVIOUS
<1>4. /\ p \in 1..Len(pi) /\ talk.turn \in 1..MaxTurns /\ pi' \in Seq(Process)
      /\ Len(pi') = Len(pi) /\ Len(pi) \in Nat
      /\ \A q \in 1..Len(pi) : q # p => pi'[q] = pi[q]
  BY <1>3, WriteEffect
<1>5. Processes = 1..Len(pi) /\ Processes' = 1..Len(pi)
  BY <1>4, LenProperties DEF Processes, TypeParts
<1>6. CASE UNCHANGED pi /\ talk' = Lost
  <2>1. talk'.at = "idle"
    BY <1>6, LostTalk
  <2>2. QED
    BY <1>1, <1>2, <1>6, <2>1, ReplyKept DEF ReplyInv, Places
<1>7. CASE /\ pi[p].alive /\ pi'[p].alive /\ pi'[p].queue = pi[p].queue
           /\ pi'[p].turn = pi[p].turn /\ pi'[p].asked = talk.turn
           /\ talk' = [talk EXCEPT !.at = "loop"]
  <2>1. /\ talk'.at = "loop" /\ talk'.pi = p /\ talk'.turn = talk.turn
        /\ ~talk'.acked /\ talk'.texts = {} /\ talk'.ended = 0
    <3>1. ~talk.acked /\ talk.texts = {} /\ talk.ended = 0
      BY <1>1 DEF ReplyInv, OwnTexts
    <3>2. QED
      BY <1>3, <1>7, <3>1 DEF TypeParts, Talk
  <2>2. pi'[p].queue = <<>> /\ pi'[p].turn = 0 /\ pi'[p].asked = talk.turn
    BY <1>1, <1>4, <1>5, <1>7 DEF Quiet
  <2>3. Silenced'
    BY <1>4, <1>5, <1>7 DEF ReplyInv, Silenced
  <2>4. Settled'
    BY <1>1, <1>4, <1>5, <2>1 DEF Settled, Quiet
  <2>5. Exchange'
    BY <2>1, <2>2 DEF Exchange, Owes
  <2>6. OwnTexts'
    BY <2>1 DEF OwnTexts
  <2>7. QED
    BY <1>2, <2>3, <2>4, <2>5, <2>6 DEF ReplyInv
<1>8. QED
  BY <1>3, <1>6, <1>7, WriteEffect

(* The prompt consumes what its process owes it, and nothing is left when  *)
(* it has read the end of its turn.                                        *)
LEMMA ReplyTakeEvent == ASSUME TypeParts, NoOrphan, ReplyInv, TakeEvent PROVE ReplyInv'
<1>1. PICK c : c = talk.pi
  OBVIOUS
<1>2. PICK queue : queue = pi[c].queue
  OBVIOUS
<1>3. PICK event : event = Head(queue)
  OBVIOUS
<1>4. /\ c \in 1..Len(pi) /\ queue # <<>> /\ event \in Event
      /\ talk' = Consumed(event)
      /\ pi' \in Seq(Process) /\ Len(pi') = Len(pi)
      /\ \A q \in 1..Len(pi) : q # c => pi'[q] = pi[q]
      /\ pi'[c].alive = pi[c].alive /\ pi'[c].asked = pi[c].asked
      /\ pi'[c].turn = pi[c].turn /\ pi'[c].queue = Tail(queue)
  BY <1>1, <1>2, <1>3, TakeEffect
<1>5. queue \in Seq(Event)
  BY <1>2, <1>4, SpeakerHasTurn DEF Process
<1>6. /\ Len(queue) \in Nat /\ Len(queue) >= 1 /\ event = queue[1]
      /\ Tail(queue) \in Seq(Event) /\ Len(Tail(queue)) = Len(queue) - 1
      /\ \A i \in 1..(Len(queue) - 1) : Tail(queue)[i] = queue[i + 1]
      /\ Tail(queue) = <<>> <=> Len(queue) = 1
  <2>1. Len(queue) \in Nat /\ Len(queue) >= 1
    BY <1>4, <1>5, EmptySeq, LenProperties
  <2>2. event = queue[1]
    BY <1>3, <1>4, <1>5
  <2>3. /\ Tail(queue) \in Seq(Event) /\ Len(Tail(queue)) = Len(queue) - 1
        /\ \A i \in 1..(Len(queue) - 1) : Tail(queue)[i] = queue[i + 1]
    BY <1>4, <1>5, HeadTailProperties
  <2>4. PICK rest : rest = Tail(queue)
    OBVIOUS
  <2>5. rest = <<>> <=> Len(rest) = 0
    BY <2>3, <2>4, EmptySeq
  <2>6. Tail(queue) = <<>> <=> Len(queue) = 1
    BY <2>1, <2>3, <2>4, <2>5
  <2>7. QED
    BY <2>1, <2>2, <2>3, <2>6
<1>7. talk.at = "loop" /\ talk \in Talk /\ Owes(pi[c])
  BY <1>1 DEF TakeEvent, ReplyInv, Exchange, TypeParts
<1>8. /\ event.turn = talk.turn /\ event.type # "reject"
      /\ event.type = "accept" <=> ~talk.acked
      /\ event.type \in Ends => Len(queue) = 1
      /\ pi[c].asked = 0
      /\ pi[c].turn # 0 => pi[c].turn = talk.turn /\ event.type \notin Ends
  <2>1. 1 \in 1..Len(queue)
    BY <1>6
  <2>2. QED
    BY <1>2, <1>4, <1>6, <1>7, <2>1 DEF Owes
<1>9. /\ talk'.pi = c /\ talk'.turn = talk.turn /\ talk'.req = talk.req
      /\ talk'.acked
      /\ talk'.texts = IF event.type = "text" THEN talk.texts \cup {event.turn}
                       ELSE talk.texts
      /\ talk'.ended = IF event.type = "end" THEN event.turn ELSE talk.ended
      /\ talk'.at \in {"reply", "loop"}
      /\ talk'.at = "reply" <=> event.type \in Ends /\ talk.acked
  <2>1. PICK t : t = Consumed(event)
    OBVIOUS
  <2>2. /\ t.pi = talk.pi /\ t.turn = talk.turn /\ t.req = talk.req
        /\ t.acked = (talk.acked \/ (event.type = "accept" /\ event.turn = talk.turn))
        /\ t.texts = IF event.type = "text" THEN talk.texts \cup {event.turn}
                     ELSE talk.texts
        /\ t.ended = IF event.type = "end" THEN event.turn ELSE talk.ended
        /\ t.at \in {"fail", "reply", "loop"}
        /\ t.at = "fail" <=> (event.type = "reject" /\ event.turn = talk.turn)
        /\ t.at = "reply" <=> (event.type \in Ends /\ talk.acked)
    BY <1>4, <1>7, <2>1, ConsumedParts
  <2>3. talk' = t
    BY <1>4, <2>1
  <2>4. talk.acked \/ event.type = "accept"
    BY <1>8
  <2>5. QED
    BY <1>1, <1>8, <2>2, <2>3, <2>4
<1>10. OwnTexts'
  BY <1>7, <1>8, <1>9 DEF ReplyInv, OwnTexts
<1>11. Processes = 1..Len(pi) /\ Processes' = 1..Len(pi)
  BY <1>4, LenProperties DEF Processes, TypeParts
<1>12. Silenced'
  BY <1>4, <1>11 DEF ReplyInv, Silenced
<1>13. talk'.at = "reply" => Quiet(pi'[c])
  BY <1>4, <1>6, <1>8, <1>9 DEF Quiet
<1>14. Settled'
  <2>1. \A p \in 1..Len(pi) : p # c /\ pi[p].alive => Quiet(pi'[p])
    BY <1>1, <1>4, <1>7, <1>11 DEF ReplyInv, Settled, Quiet
  <2>2. \A p \in 1..Len(pi) : pi'[p].alive =>
            Quiet(pi'[p]) \/ (talk'.at = "loop" /\ p = talk'.pi)
    BY <1>4, <1>9, <1>13, <2>1
  <2>3. QED
    BY <1>11, <2>2 DEF Settled, Quiet
<1>15. Exchange'
  <2>1. SUFFICES ASSUME talk'.at = "loop" PROVE Owes(pi[c])'
    BY <1>9 DEF Exchange
  <2>2. PICK rest : rest = Tail(queue)
    OBVIOUS
  <2>3. pi'[c].queue = rest /\ Len(rest) = Len(queue) - 1 /\ (rest = <<>> <=> Len(queue) = 1)
    BY <1>4, <1>6, <2>2
  <2>4. \A i \in 1..Len(queue) :
           /\ queue[i].turn = talk.turn /\ queue[i].type # "reject"
           /\ queue[i].type = "accept" <=> (i = 1 /\ ~talk.acked)
           /\ queue[i].type \in Ends => i = Len(queue) /\ pi[c].turn = 0
    BY <1>2, <1>7 DEF Owes
  <2>5. ASSUME NEW i \in 1..Len(rest)
        PROVE  /\ rest[i].turn = talk.turn /\ rest[i].type # "reject"
               /\ rest[i].type # "accept"
               /\ rest[i].type \in Ends => i = Len(rest) /\ pi[c].turn = 0
    <3>1. PICK j : j = i + 1
      OBVIOUS
    <3>2. j \in 1..Len(queue) /\ j # 1 /\ rest[i] = queue[j]
      BY <1>6, <2>2, <2>3, <3>1
    <3>3. /\ queue[j].turn = talk.turn /\ queue[j].type # "reject"
          /\ queue[j].type # "accept"
          /\ queue[j].type \in Ends => j = Len(queue) /\ pi[c].turn = 0
      BY <2>4, <3>2
    <3>4. j = Len(queue) => i = Len(rest)
      <4>1. PICK n \in Nat : n = Len(queue) /\ Len(rest) = n - 1
        BY <1>6, <2>3
      <4>2. QED
        BY <3>1, <4>1
    <3>5. QED
      BY <3>2, <3>3, <3>4
  <2>6. PICK new : new = pi'[c]
    OBVIOUS
  <2>7. /\ new.asked = 0 /\ new.queue = rest
        /\ new.turn # 0 => new.turn = talk'.turn /\ talk'.acked
        /\ new.turn = pi[c].turn /\ talk'.turn = talk.turn /\ talk'.acked
    BY <1>4, <1>8, <1>9, <2>3, <2>6
  <2>8. \A i \in 1..Len(new.queue) :
           /\ new.queue[i].turn = talk'.turn /\ new.queue[i].type # "reject"
           /\ new.queue[i].type # "accept"
           /\ new.queue[i].type \in Ends => i = Len(new.queue) /\ new.turn = 0
    BY <2>5, <2>7
  <2>9. QED
    BY <2>6, <2>7, <2>8 DEF Owes
<1>16. OwnReply' /\ ImportAfterTurn'
  BY DEF TakeEvent, ReplyInv, OwnReply, ImportAfterTurn
<1>17. QED
  BY <1>10, <1>12, <1>14, <1>15, <1>16 DEF ReplyInv

(* Without the races the deadline ends a prompt only when nothing is       *)
(* queued, and one that keeps its client only when that has died.          *)
LEMMA ReplyTimeout ==
    ASSUME TypeParts, NoOrphan, ReplyInv, Races = {}, Timeout
    PROVE  ReplyInv'
<1>1. /\ talk.at = "loop" /\ KeepsClient => ~pi[talk.pi].alive
      /\ talk' = [talk EXCEPT !.at = "fail"] /\ UNCHANGED <<kind, transcript, pi, imports>>
  BY DEF Timeout
<1>2. talk'.at = "fail" /\ talk'.req = talk.req
  BY <1>1 DEF TypeParts, Talk
<1>3. KeepsClient' = KeepsClient
  BY <1>1, <1>2 DEF KeepsClient
<1>4. Settled'
  BY <1>1, <1>2, <1>3 DEF ReplyInv, Settled, Quiet, Processes
<1>5. QED
  BY <1>1, <1>2, <1>4
     DEF ReplyInv, Silenced, Processes, Exchange, OwnTexts, OwnReply, ImportAfterTurn

LEMMA ReplyReply == ASSUME TypeParts, NoOrphan, ReplyInv, Reply PROVE ReplyInv'
<1>1. talk.at = "reply" /\ talk'.at \in {"import", "idle"}
  BY IdleTalk DEF Reply, TypeParts, Talk
<1>2. \A p \in Processes : pi[p].alive => Quiet(pi[p])
  BY <1>1 DEF ReplyInv, Settled
<1>3. Silenced' /\ Settled' /\ Exchange' /\ OwnTexts'
  BY <1>1, <1>2, ReplyKept DEF Reply, Places
<1>4. Text(talk) \subseteq {talk.turn}
  BY <1>1 DEF ReplyInv, OwnTexts, Text
<1>5. transcript' = transcript \/ transcript' = Note("assistant", talk.turn, Text(talk))
  BY DEF Reply
<1>6. OwnReply'
  BY <1>4, <1>5, OwnReplyNote DEF ReplyInv, OwnReply
<1>7. QED
  BY <1>3, <1>6 DEF ReplyInv, Reply, ImportAfterTurn

LEMMA ReplyFail == ASSUME TypeParts, NoOrphan, ReplyInv, Fail PROVE ReplyInv'
<1>1. talk.at = "fail" /\ talk'.at = "idle"
  BY LostTalk DEF Fail
<1>2. CASE KeepsClient
  <2>1. \A p \in Processes : pi[p].alive => Quiet(pi[p])
    BY <1>1, <1>2 DEF ReplyInv, Settled
  <2>2. Silenced' /\ Settled' /\ Exchange' /\ OwnTexts'
    BY <1>1, <1>2, <2>1, ReplyKept DEF Fail, DropClient, Places
  <2>3. QED
    BY <2>2 DEF ReplyInv, Fail, OwnReply, ImportAfterTurn
<1>3. CASE ~KeepsClient
  BY <1>1, <1>3, ReplyClosed DEF Fail, DropClient
<1>4. QED
  BY <1>2, <1>3

(* The process of a reply has ended its turn or died.                      *)
LEMMA ReplyImport == ASSUME TypeParts, NoOrphan, ReplyInv, Import PROVE ReplyInv'
<1>1. talk.at = "import" /\ talk'.at \in {"idle", "send"}
  BY IdleTalk DEF Import, TypeParts, Talk
<1>2. \A p \in Processes : pi[p].alive => Quiet(pi[p])
  BY <1>1 DEF ReplyInv, Settled
<1>3. talk.pi \in Processes /\ talk.turn # 0
  BY <1>1, LenProperties DEF TypeParts, Processes
<1>4. pi[talk.pi].turn = 0
  <2>1. CASE pi[talk.pi].alive
    BY <1>2, <1>3, <2>1 DEF Quiet
  <2>2. CASE ~pi[talk.pi].alive
    BY <1>3, <2>2 DEF ReplyInv, Silenced
  <2>3. QED
    BY <2>1, <2>2
<1>5. imports' = imports \cup {FALSE}
  BY <1>3, <1>4 DEF Import
<1>6. CASE CloseClient
  BY <1>1, <1>5, <1>6, ReplyClosed DEF Import
<1>7. CASE UNCHANGED <<client, pi, status>>
  <2>1. Silenced' /\ Settled' /\ Exchange' /\ OwnTexts'
    BY <1>1, <1>2, <1>7, ReplyKept DEF Places
  <2>2. QED
    BY <1>5, <2>1 DEF ReplyInv, Import, OwnReply, ImportAfterTurn
<1>8. QED
  BY <1>6, <1>7 DEF Import

(* A button closes the client under a prompt, which may then still read    *)
(* what was queued.                                                        *)
LEMMA ReplyPress ==
    ASSUME TypeParts, NoOrphan, ReplyInv, NEW what \in {"close", "reset"}, Press(what)
    PROVE  ReplyInv'
<1>1. CloseClient /\ UNCHANGED <<kind, transcript, talk, imports>>
  BY DEF Press
<1>2. Silenced' /\ Settled'
  BY <1>1, AllClosed DEF Settled, Processes
<1>3. Exchange'
  <2>1. SUFFICES ASSUME talk.at = "loop" PROVE Owes(pi[talk.pi])'
    BY <1>1 DEF Exchange
  <2>2. PICK c : c = talk.pi
    OBVIOUS
  <2>3. c \in 1..Len(pi) /\ Owes(pi[c])
    BY <2>1, <2>2 DEF ReplyInv, Exchange, TypeParts
  <2>4. /\ pi'[c].queue = pi[c].queue /\ pi'[c].asked \in {0, pi[c].asked}
        /\ pi'[c].turn \in {0, pi[c].turn}
    <3>1. pi'[c] = IF c = client THEN Killed(client) ELSE pi[c]
      BY <1>1, <2>3, CloseEffect
    <3>2. CASE c = client
      BY <2>3, <3>1, <3>2, KilledRow
    <3>3. CASE c # client
      BY <3>1, <3>3
    <3>4. QED
      BY <3>2, <3>3
  <2>5. Owes(pi[c])'
    BY <1>1, <2>3, <2>4, OwesKept
  <2>6. QED
    BY <1>1, <2>2, <2>5
<1>4. QED
  BY <1>1, <1>2, <1>3 DEF ReplyInv, OwnTexts, OwnReply, ImportAfterTurn

LEMMA ReplyRelease == ASSUME TypeParts, NoOrphan, ReplyInv, Release PROVE ReplyInv'
<1>1. UNCHANGED <<kind, pi, talk, imports>> /\ transcript' \in {transcript, <<>>}
  BY DEF Release
<1>2. Silenced' /\ Settled' /\ Exchange' /\ OwnTexts' /\ ImportAfterTurn'
  BY <1>1 DEF ReplyInv, Silenced, Settled, Processes, Exchange, Owes, OwnTexts, KeepsClient,
              ImportAfterTurn, Quiet
<1>3. OwnReply'
  BY <1>1 DEF ReplyInv, OwnReply
<1>4. QED
  BY <1>2, <1>3 DEF ReplyInv

LEMMA ReplyRestart == ASSUME TypeParts, NoOrphan, ReplyInv, Restart PROVE ReplyInv'
<1>1. /\ \A q \in 1..Len(pi) : pi'[q] = Exited
      /\ Processes' = 1..Len(pi) /\ talk'.at = "idle"
  BY RestartEffect, LenProperties, LostTalk DEF Restart, Processes, TypeParts
<1>2. Silenced' /\ Settled'
  BY <1>1 DEF Silenced, Settled, Exited
<1>3. Exchange' /\ OwnTexts'
  BY <1>1 DEF Exchange, OwnTexts
<1>4. QED
  BY <1>2, <1>3 DEF ReplyInv, Restart, OwnReply, ImportAfterTurn

LEMMA ReplyNext ==
    Races = {} => (TypeParts /\ NoOrphan /\ ReplyInv /\ [Next]_vars => ReplyInv')
<1> SUFFICES ASSUME Races = {}, TypeParts, NoOrphan, ReplyInv, [Next]_vars
             PROVE  ReplyInv'
  OBVIOUS
<1>1. CASE UNCHANGED vars
  BY <1>1 DEF vars, ReplyInv, Silenced, Settled, Processes, Exchange, Owes, OwnTexts,
              KeepsClient, OwnReply, ImportAfterTurn, Quiet
<1>2. CASE Next
  BY <1>2, ReplyPi, ReplyReceive, ReplyAttach, ReplyOpen, ReplySend, ReplyWrite,
     ReplyTakeEvent, ReplyTimeout, ReplyReply, ReplyFail, ReplyImport, ReplyPress,
     ReplyRelease, ReplyRestart
     DEF Next, Talker
<1>3. QED
  BY <1>1, <1>2

(* OwnReply: what the chat shows as the assistant's answer to a prompt was *)
(* said by Pi in the turn of that prompt (PiRpcClient.prompt), although    *)
(* processes are reused, closed under a prompt and die with events queued, *)
(* unless the deadline cuts a turn off that goes on, or keeps a client     *)
(* that is still at work: without the two Races.                           *)
THEOREM RepliesAreOwn == ASSUME Races = {} PROVE Spec => []OwnReply
<1>1. ReplyInv => OwnReply
  BY DEF ReplyInv
<1>2. Races = {}
  OBVIOUS
<1>3. TypeParts /\ NoOrphan /\ ReplyInv /\ [Next]_vars => ReplyInv'
  BY <1>2, ReplyNext
<1>4. QED
  BY <1>1, <1>3, TypeInit, TypeNext, OrphanInit, OrphanNext, ReplyInit, PTL DEF Spec

(* ImportAfterTurn: finish_session imports the artifacts only when the     *)
(* process of its prompt has ended that turn, or died, under the same      *)
(* assumption.                                                             *)
THEOREM ImportsFollowTheTurn == ASSUME Races = {} PROVE Spec => []ImportAfterTurn
<1>1. ReplyInv => ImportAfterTurn
  BY DEF ReplyInv
<1>2. Races = {}
  OBVIOUS
<1>3. TypeParts /\ NoOrphan /\ ReplyInv /\ [Next]_vars => ReplyInv'
  BY <1>2, ReplyNext
<1>4. QED
  BY <1>1, <1>3, TypeInit, TypeNext, OrphanInit, OrphanNext, ReplyInit, PTL DEF Spec
=============================================================================
