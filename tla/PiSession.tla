------------------------------ MODULE PiSession ------------------------------
(***************************************************************************)
(* The chat with one agent over Pi RPC: the requests that prompt (start,   *)
(* message, finish), the requests that close or reset the session while a  *)
(* prompt is answered, the registry of clients, and the Pi processes with  *)
(* their queues of events.                                                 *)
(*                                                                         *)
(* A prompt is a turn, numbered; of what Pi says only the turn is kept.    *)
(* Pi rejects a prompt that comes during a turn.  kind tells the recruiter *)
(* chat from the Master CV builder, which overrides send_message.          *)
(*                                                                         *)
(* A failure the adapter raises as PiRpcError is caught by the request; a  *)
(* broken pipe, a spawn the operating system refuses and a restart of the  *)
(* API are not, and end the request where it is.                           *)
(***************************************************************************)
EXTENDS Integers, Sequences, FiniteSets, FiniteSetsExt

CONSTANTS
    Kinds,        \* of "onboarding", "builder"
    Repairs,      \* onboarding_artifact_repair_attempts
    Races,        \* of "cut_off", "slow_kept": see README
    MaxTurns,     \* bounds: prompts, processes, events waiting in a queue,
    MaxProcesses, \* requests that close or reset
    MaxQueue,     \* and restarts
    MaxButtons

ASSUME PiSessionAssumption ==
    /\ Kinds \subseteq {"onboarding", "builder"}
    /\ Races \subseteq {"cut_off", "slow_kept"}
    /\ {Repairs, MaxTurns, MaxProcesses, MaxQueue, MaxButtons} \subseteq Nat

VARIABLES
    kind,
    status, runtime,  \* the session's state file
    transcript,       \* entries of user and assistant, and the note of the greeting
    client,           \* _PI_RPC_CLIENTS: the registered process, 0 for none
    pi,               \* the processes
    talk,             \* the request that prompts
    button,           \* the request that closes or resets, after it closed the client
    imports,          \* history: the process of each import, and whether it was busy
    turns, buttons

vars == <<kind, status, runtime, transcript, client, pi, talk, button, imports,
          turns, buttons>>
-----------------------------------------------------------------------------
Requests == {"start", "message", "finish"}
Idle == [req |-> "none", at |-> "idle", pi |-> 0, turn |-> 0, acked |-> FALSE,
         force |-> FALSE, texts |-> {}, ended |-> 0, repairs |-> 0, lost |-> FALSE]

Processes == DOMAIN pi
Turns == 0..MaxTurns
Event == [type : {"accept", "reject", "text", "end", "quiet"}, turn : 1..MaxTurns]
Entry == [role : {"user", "internal", "note"}, turn : Turns, texts : {{}}]
         \cup [role : {"assistant"}, turn : Turns, texts : SUBSET (1..MaxTurns)]

TypeOK ==
    /\ kind \in Kinds
    /\ status \in {"not_started", "running", "waiting", "failed", "closed"}
    /\ runtime \in BOOLEAN
    /\ transcript \in Seq(Entry) /\ client \in Processes \cup {0}
    /\ pi \in Seq([alive : BOOLEAN, queue : Seq(Event), asked : Turns, turn : Turns])
    /\ talk \in [req : Requests \cup {"none"},
                 at : {"idle", "attach", "open", "send", "write", "loop", "reply", "fail", "import"},
                 pi : Processes \cup {0}, turn : Turns, acked : BOOLEAN, force : BOOLEAN,
                 texts : SUBSET (1..MaxTurns), ended : Turns, repairs : 0..Repairs,
                 lost : BOOLEAN]
    /\ button \in {"idle", "close", "reset"}
    /\ imports \subseteq BOOLEAN
    /\ turns \in Turns /\ buttons \in 0..MaxButtons

Init ==
    /\ kind \in Kinds
    /\ status = "not_started" /\ runtime = FALSE
    /\ transcript = <<>> /\ client = 0 /\ pi = <<>>
    /\ talk = Idle /\ button = "idle" /\ imports = {}
    /\ turns = 0 /\ buttons = 0
-----------------------------------------------------------------------------
(* External: the Pi processes.                                             *)
Ends == {"end", "quiet"}  \* agent_end, with a text of the assistant or without one
Emits(p, type, t) ==
    /\ pi' = [pi EXCEPT ![p].queue = Append(@, [type |-> type, turn |-> t]),
                        ![p].asked = IF type \in {"accept", "reject"} THEN 0 ELSE @,
                        ![p].turn = CASE type = "accept" -> t
                                      [] type \in Ends -> 0
                                      [] OTHER -> @]
    /\ UNCHANGED <<kind, status, runtime, transcript, client, talk, button, imports,
                   turns, buttons>>

Answer(p) == /\ pi[p].alive /\ pi[p].asked # 0
             /\ Emits(p, IF pi[p].turn = 0 THEN "accept" ELSE "reject", pi[p].asked)
Say(p) == /\ pi[p].alive /\ pi[p].turn # 0 /\ Len(pi[p].queue) < MaxQueue
          /\ Emits(p, "text", pi[p].turn)
EndTurn(p) == pi[p].alive /\ pi[p].turn # 0 /\ \E type \in Ends : Emits(p, type, pi[p].turn)
Killed(p) == [pi[p] EXCEPT !.alive = FALSE, !.asked = 0, !.turn = 0]
Die(p) ==
    /\ pi[p].alive /\ pi' = [pi EXCEPT ![p] = Killed(p)]
    /\ UNCHANGED <<kind, status, runtime, transcript, client, talk, button, imports,
                   turns, buttons>>

Pi == \E p \in Processes : Answer(p) \/ Say(p) \/ EndTurn(p) \/ Die(p)
-----------------------------------------------------------------------------
(* _close_client pops the registered client and terminates its process;    *)
(* _client spawns one when none is registered.                             *)
NotTerminated == client' = 0 /\ UNCHANGED pi  \* mutant: the client is only forgotten

CloseClient ==
    /\ client' = 0
    /\ pi' = IF client = 0 THEN pi ELSE [pi EXCEPT ![client] = Killed(client)]

Exited     == [alive |-> FALSE, queue |-> <<>>, asked |-> 0, turn |-> 0]
NewProcess == [alive |-> TRUE, queue |-> <<>>, asked |-> 0, turn |-> 0]
OpenClient ==
    IF client # 0 THEN UNCHANGED <<client, pi>>
    ELSE /\ Len(pi) < MaxProcesses
         /\ pi' = Append(pi, NewProcess) /\ client' = Len(pi) + 1

Note(role, turn, texts) == Append(transcript, [role |-> role, turn |-> turn, texts |-> texts])

(* The request ends and leaves the state file as it is.                    *)
Lost == [Idle EXCEPT !.lost = (status' = "waiting")]

(* Neither empty replies nor the prompts of finish are shown.              *)
Shown(entry) == \/ entry.role = "user"
                \/ entry.role = "assistant" /\ entry.texts # {}
Visible == {i \in DOMAIN transcript : Shown(transcript[i])}
Greeted == \E i \in DOMAIN transcript : transcript[i].role = "note"

Receive(req) ==
    /\ talk.at = "idle" /\ turns < MaxTurns
    /\ req = "finish" => kind = "onboarding"
    /\ talk' = [Idle EXCEPT !.req = req, !.at = IF req = "start" THEN "attach" ELSE "open"]
    /\ UNCHANGED <<kind, status, runtime, transcript, client, pi, button, imports, turns, buttons>>

(* attach_session: a session whose state names no runtime starts afresh.   *)
(* The builder's start has no such step.                                   *)
Attach ==
    /\ talk.at = "attach"
    /\ IF kind = "onboarding" /\ ~runtime THEN CloseClient ELSE UNCHANGED <<client, pi>>
    /\ IF kind = "onboarding" THEN status' = "running" /\ runtime' = TRUE
       ELSE UNCHANGED <<status, runtime>>
    /\ talk' = [talk EXCEPT !.at = "open", !.force = client' = 0]
    /\ UNCHANGED <<kind, transcript, button, imports, turns, buttons>>

(* start_or_attach, and whether the greeting is asked for (force); the     *)
(* builder asks for it once.                                               *)
MustGreet == \/ ~Greeted
             \/ kind = "onboarding" /\ (talk.force \/ Visible = {})
HasGreeting == \E i \in Visible : transcript[i].role = "assistant"
Open ==
    /\ talk.at = "open"
    /\ \/ /\ OpenClient
          /\ status' = "running"
          /\ talk' = CASE talk.req # "start" \/ MustGreet -> [talk EXCEPT !.at = "send"]
                       [] HasGreeting \/ kind = "builder" -> Idle
                       [] OTHER -> [talk EXCEPT !.at = "fail"]
       \/ /\ client = 0                          \* no process: no executable, or worse
          /\ UNCHANGED <<client, pi, status>>
          /\ \/ talk' = Lost
             \/ talk.req # "finish" /\ talk' = [talk EXCEPT !.at = "fail"]
    /\ UNCHANGED <<kind, runtime, transcript, button, imports, turns, buttons>>

(* The prompt is noted, and "waiting"; the client is looked up again.  A    *)
(* process that has exited by the poll of PiRpcClient._send raises.        *)
Speaks == CASE talk.req = "start" -> "note"
            [] talk.req = "message" -> "user"
            [] talk.req = "finish" -> "internal"
Polled(p) == [talk EXCEPT !.at = "write", !.pi = p, !.turn = turns + 1,
                          !.acked = FALSE, !.texts = {}, !.ended = 0]
Send ==
    /\ talk.at = "send" /\ turns < MaxTurns
    /\ transcript' = Note(Speaks, turns + 1, {})
    /\ status' = "waiting"
    /\ turns' = turns + 1
    /\ \/ /\ client # 0 /\ UNCHANGED <<client, pi>>
          /\ talk' = IF pi[client].alive THEN Polled(client) ELSE [talk EXCEPT !.at = "fail"]
       \/ /\ client = 0 /\ Len(pi) < MaxProcesses
          /\ client' = Len(pi) + 1 /\ pi' = Append(pi, NewProcess)
          /\ talk' = Polled(Len(pi) + 1)
       \/ /\ client = 0 /\ UNCHANGED <<client, pi>>
          /\ talk' \in {[talk EXCEPT !.at = "fail"], Lost}
    /\ UNCHANGED <<kind, runtime, button, imports, buttons>>

(* The write.  When the process has exited since the poll the pipe is      *)
(* broken, and nothing catches that.                                       *)
Write ==
    /\ talk.at = "write"
    /\ UNCHANGED <<kind, status, runtime, transcript, client, button, imports, turns, buttons>>
    /\ IF pi[talk.pi].alive
       THEN /\ pi' = [pi EXCEPT ![talk.pi].asked = talk.turn]
            /\ talk' = [talk EXCEPT !.at = "loop"]
       ELSE talk' = Lost /\ UNCHANGED pi

(* The loop of PiRpcClient.prompt.  It ends with the first end of a turn   *)
(* after the acknowledgement; when nothing was said in the events, the     *)
(* text is that of the last end among them.                                *)
Text(t) == IF t.texts = {} /\ t.ended # 0 THEN {t.ended} ELSE t.texts
EndsTurn(event) == event.type \in Ends /\ talk.acked
AckEnds(event) == event.type = "accept"  \* mutant: the acknowledgement is taken for the end

Completes(event) == EndsTurn(event)
Consumed(event) ==
    [talk EXCEPT
        !.acked = @ \/ (event.type = "accept" /\ event.turn = talk.turn),
        !.texts = IF event.type = "text" THEN @ \cup {event.turn} ELSE @,
        !.ended = IF event.type = "end" THEN event.turn ELSE @,
        !.at = CASE event.type = "reject" /\ event.turn = talk.turn -> "fail"
                 [] Completes(event) -> "reply"
                 [] OTHER -> @]

TakeEvent ==
    /\ talk.at = "loop" /\ pi[talk.pi].queue # <<>>
    /\ talk' = Consumed(Head(pi[talk.pi].queue))
    /\ pi' = [pi EXCEPT ![talk.pi].queue = Tail(@)]
    /\ UNCHANGED <<kind, status, runtime, transcript, client, button, imports, turns, buttons>>

(* The deadline.  With an empty queue it raises; while events keep coming  *)
(* it ends the loop, and what was said so far is the reply ("cut_off").    *)
KeepsClient == talk.req = "start" \/ kind = "builder"
Timeout ==
    /\ talk.at = "loop"
    /\ \/ /\ pi[talk.pi].queue = <<>>
          /\ KeepsClient /\ pi[talk.pi].alive => "slow_kept" \in Races
          /\ talk' = [talk EXCEPT !.at = "fail"]
       \/ /\ "cut_off" \in Races /\ pi[talk.pi].alive
          /\ talk' = [talk EXCEPT !.at = IF talk.acked THEN "reply" ELSE "fail"]
    /\ UNCHANGED <<kind, status, runtime, transcript, client, pi, button, imports, turns, buttons>>

(* A start that was answered with nothing fails (require_plain_reply).     *)
Reply ==
    /\ talk.at = "reply"
    /\ transcript' = IF talk.req = "start" /\ Text(talk) = {} THEN transcript
                     ELSE Note("assistant", talk.turn, Text(talk))
    /\ IF talk.req = "start" /\ kind = "onboarding" /\ Text(talk) = {}
       THEN status' = "failed" ELSE status' = "running"
    /\ talk' = IF talk.req = "finish" THEN [talk EXCEPT !.at = "import"] ELSE Idle
    /\ UNCHANGED <<kind, runtime, client, pi, button, imports, turns, buttons>>

(* send_message of the recruiter chat discards the client and says so;     *)
(* a failed start keeps it; the builder's requests only raise.             *)
NotDropped == UNCHANGED <<client, pi>>  \* mutant: a failed prompt's client is used again
NotSaid == status                       \* mutant: only the request raises

DropClient == IF KeepsClient THEN UNCHANGED <<client, pi>> ELSE CloseClient
Failed == IF kind = "onboarding" THEN "failed" ELSE status

Fail ==
    /\ talk.at = "fail"
    /\ DropClient
    /\ status' = Failed
    /\ talk' = IF kind = "onboarding" THEN Idle ELSE Lost
    /\ UNCHANGED <<kind, runtime, transcript, button, imports, turns, buttons>>

(* finish imports what the agent wrote, asks for repairs while files fail  *)
(* validation, and closes the session when the import was clean.           *)
RepairsLeft == talk.repairs < Repairs

Import ==
    /\ talk.at = "import"
    /\ imports' = imports \cup {pi[talk.pi].turn = talk.turn}
    /\ \/ /\ CloseClient /\ status' = "closed"       \* imported
          /\ talk' = Idle
       \/ /\ UNCHANGED <<client, pi, status>>        \* validation failures
          /\ IF RepairsLeft /\ turns < MaxTurns
             THEN talk' = [talk EXCEPT !.at = "send", !.repairs = @ + 1]
             ELSE talk' = Idle
    /\ UNCHANGED <<kind, runtime, transcript, button, turns, buttons>>

(* close_session and reset_session: the client first, then the files.      *)
Press(what) ==
    /\ button = "idle" /\ buttons < MaxButtons /\ kind = "onboarding"
    /\ CloseClient
    /\ button' = what /\ buttons' = buttons + 1
    /\ UNCHANGED <<kind, status, runtime, transcript, talk, imports, turns>>
Release ==
    /\ button # "idle" /\ button' = "idle"
    /\ IF button = "close" THEN status' = "closed" /\ UNCHANGED <<runtime, transcript>>
       ELSE status' = "not_started" /\ runtime' = FALSE /\ transcript' = <<>>
    /\ UNCHANGED <<kind, client, pi, talk, imports, turns, buttons>>

(* The API restarts: the request and the registry are gone; a Pi whose     *)
(* standard input is closed exits.                                         *)
Restart ==
    /\ buttons < MaxButtons /\ buttons' = buttons + 1
    /\ UNCHANGED <<kind, status, runtime, transcript, imports, turns>>
    /\ pi' = [p \in Processes |-> Exited] /\ client' = 0
    /\ talk' = Lost /\ button' = "idle"

Talker == \/ Attach \/ Open \/ Send \/ Write \/ TakeEvent \/ Timeout
          \/ Reply \/ Fail \/ Import
Next == \/ Pi \/ Talker \/ Release \/ Restart
        \/ \E req \in Requests : Receive(req)
        \/ \E what \in {"close", "reset"} : Press(what)

(* A request runs to its end, and a Pi that lives goes on: its turns end.  *)
Fairness == /\ WF_vars(Talker) /\ WF_vars(Release)
            /\ \A p \in 1..MaxProcesses : WF_vars(p \in Processes /\ Answer(p))
                                          /\ WF_vars(p \in Processes /\ EndTurn(p))
Spec == Init /\ [][Next]_vars /\ Fairness
-----------------------------------------------------------------------------
(* An assistant's entry is what Pi said in the turn that the entry answers,*)
(* never what an earlier prompt left in the queue of a reused process.     *)
OwnReply ==
    \A i \in DOMAIN transcript : transcript[i].texts \subseteq {transcript[i].turn}

(* What finish imports, the agent has finished writing.                    *)
ImportAfterTurn == TRUE \notin imports

(* A Pi process that lives is the registered one: nobody else could ever   *)
(* close it.                                                               *)
NoOrphan == \A p \in Processes : pi[p].alive => p = client

(* The chat does not show "waiting" for ever: a prompt that is answered,   *)
(* rejected, or timed out, and a Pi that exits before or during it, change *)
(* the state; only what nobody catches leaves it, and every failure of a   *)
(* builder's prompt.                                                       *)
WaitingEnds == status = "waiting" ~> status # "waiting" \/ talk.lost

(* The chat and its processes keep their types, and no process escapes it. *)
ProcessesOwned == TypeOK /\ NoOrphan
=============================================================================
