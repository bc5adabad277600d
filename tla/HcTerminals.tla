---------------------------- MODULE HcTerminals ----------------------------
(***************************************************************************)
(* Soldiers on the hc backend (internal/herdr: hc.go; internal/soldier:    *)
(* herdr_run.go).  herdr-core has terminals and labels and nothing else,   *)
(* so a soldier's name is a label that vexillum checks, puts and looks up  *)
(* by itself: a dispatch starts a terminal, takes a name for it, launches  *)
(* the agent there and types the prompt; later commands and the sentinel   *)
(* find the terminal again by the name on record.  One action is one call  *)
(* of hc, with what the caller decides on its answer.                      *)
(***************************************************************************)
EXTENDS Naturals, FiniteSets

CONSTANTS HcTask,      \* tasks, whose prompts produce the same name
          Slug,         \* that name
          HcEvent,      \* what may happen besides: dispatches that overlap, an agent that exits, a
                        \* terminal closed by hand, a running task that is struck
          MaxTerminals  \* bound: terminals started

ASSUME HcAssumption ==
    /\ Slug \notin HcTask /\ 0 \notin HcTask \cup {Slug} /\ MaxTerminals \in Nat
    /\ HcEvent \subseteq {"overlap", "exit", "close", "strike"}

Address == 1..MaxTerminals
Nowhere == 0
\* A task's own name is the slug with a part of its id (disambiguatedName).
Names   == HcTask \cup {Slug}

VARIABLES term,    \* each terminal: its life, labels, foreground program, status word, input
          hcRec,     \* each task's record: its status, tab and agent name
          call,    \* the command that works on each task
          watch,   \* the sentinel's cache of names
          strayed  \* history: <<task, the task of the terminal it was sent to or read from>>

hcVars == <<term, hcRec, call, watch, strayed>>

NoTerm == [life |-> "none", task |-> Slug, name |-> Nowhere, run |-> "shell",
           word |-> "unknown", in |-> FALSE, moved |-> FALSE]
NewTask == [status |-> "pending", tab |-> Nowhere, name |-> Slug]
NoCall == [at |-> "none", name |-> Slug, cache |-> Nowhere]
HcInit ==
    /\ term = [a \in Address |-> NoTerm]
    /\ hcRec = [k \in HcTask |-> NewTask]
    /\ call = [k \in HcTask |-> NoCall]
    /\ watch = [n \in Names |-> Nowhere]
    /\ strayed = {}

Alive(a)    == a # Nowhere /\ term[a].life = "live"
Known(a)    == a # Nowhere /\ term[a].life \in {"live", "finished"}
\* hc ls --label vexillum.agent=n
Labelled(n) == {a \in Address : Alive(a) /\ term[a].name = n}
\* atShellPrompt and launched: what it ran has exited.
AgentGone(a) == term[a].run = "exited"

Calls(k, c)     == call' = [call EXCEPT ![k] = c]
EndsCall(k)      == Calls(k, NoCall)
Records(k, st) == hcRec' = [hcRec EXCEPT ![k].status = st]
Fails(k)       == Records(k, "failed") /\ EndsCall(k)
CallAt(k, s)       == call[k].at = s
\* Something is sent to terminal a, or read from it, for task k.
Sent(k, a) == strayed' = IF term[a].task \in {k, Slug} THEN strayed ELSE strayed \cup {<<k, term[a].task>>}

-----------------------------------------------------------------------------
(* A dispatch.                                                              *)

\* CreateTab and the record of what it answered (RunInHerdr).
CreateTab(k) ==
    /\ CallAt(k, "none") /\ hcRec[k].status \in {"pending", "lost"} /\ hcRec[k].tab = Nowhere
    /\ \E a \in Address :
          /\ term[a].life = "none" /\ \A b \in 1..(a - 1) : term[b].life # "none"
          /\ term' = [term EXCEPT ![a] = [NoTerm EXCEPT !.life = "live"]]
          /\ hcRec' = [hcRec EXCEPT ![k] = [status |-> "running", tab |-> a, name |-> Slug]]
    /\ Calls(k, [NoCall EXCEPT !.at = "bind"])
    /\ UNCHANGED <<watch, strayed>>

\* BindTask
BindTask(k) ==
    /\ CallAt(k, "bind")
    /\ IF Known(hcRec[k].tab)
       THEN /\ term' = [term EXCEPT ![hcRec[k].tab].task = k]
            /\ Calls(k, [call[k] EXCEPT !.at = "check"]) /\ UNCHANGED hcRec
       ELSE Fails(k) /\ UNCHANGED term
    /\ UNCHANGED <<watch, strayed>>

\* AgentStart lists the terminals that carry the name; startAgent falls back,
\* once, to the task's own.
\* (A change of the code: nobody is asked.)
NeverTaken(n, a) == FALSE
Taken(n, a) == Labelled(n) \ {a} # {}
CheckName(k) ==
    /\ CallAt(k, "check")
    /\ "overlap" \in HcEvent \/ \A o \in HcTask \ {k} : ~CallAt(o, "label")
    /\ IF ~Known(hcRec[k].tab) \/ (Taken(call[k].name, hcRec[k].tab) /\ call[k].name = k) THEN Fails(k)
       ELSE /\ Calls(k, IF Taken(call[k].name, hcRec[k].tab) THEN [call[k] EXCEPT !.name = k]
                       ELSE [call[k] EXCEPT !.at = "label"])
            /\ UNCHANGED hcRec
    /\ UNCHANGED <<term, watch, strayed>>

\* ... labels its own with it, and remembers where the name is.
LabelName(k) ==
    /\ CallAt(k, "label")
    /\ IF Known(hcRec[k].tab)
       THEN /\ term' = [term EXCEPT ![hcRec[k].tab].name = call[k].name]
            /\ Calls(k, [call[k] EXCEPT !.at = "launch", !.cache = hcRec[k].tab]) /\ UNCHANGED hcRec
       ELSE Fails(k) /\ UNCHANGED term
    /\ UNCHANGED <<watch, strayed>>

\* The launch line is typed into the shell, which runs the agent; a first run in
\* a directory opens a dialog.
TypeLaunch(k) ==
    /\ CallAt(k, "launch")
    /\ IF Alive(hcRec[k].tab)
       THEN /\ \E r \in {"agent", "dialog", "exited"} : term' = [term EXCEPT ![hcRec[k].tab].run = r]
            /\ Calls(k, [call[k] EXCEPT !.at = "start"])
            /\ Sent(k, hcRec[k].tab) /\ UNCHANGED hcRec
       ELSE Fails(k) /\ UNCHANGED <<term, strayed>>
    /\ UNCHANGED watch

\* AgentStart watches the terminal until it reports a status, is back at its
\* shell, or the window passes.
Started(k) ==
    LET a == hcRec[k].tab IN
    /\ CallAt(k, "start")
    /\ \/ (~Alive(a) \/ AgentGone(a)) /\ Fails(k)
       \/ Alive(a) /\ term[a].word # "unknown" /\ Calls(k, [call[k] EXCEPT !.at = "named"]) /\ UNCHANGED hcRec
       \/ Alive(a) /\ ~AgentGone(a) /\ term[a].word = "unknown"
          /\ Calls(k, [call[k] EXCEPT !.at = "notready"]) /\ UNCHANGED hcRec
    /\ UNCHANGED <<term, watch, strayed>>

-----------------------------------------------------------------------------
(* Finding a terminal by name.                                              *)

\* terminal: the cached address while it still is a live terminal of that name,
\* else one that carries the label.
Cached(n, c) == Alive(c) /\ term[c].name = n
Resolves(n, c, a) == IF Cached(n, c) THEN a = c ELSE a \in Labelled(n)
NotFound(n, c)  == ~Cached(n, c) /\ Labelled(n) = {}
\* writable: what is typed goes to a terminal vexillum started, that has not finished.
Writable(n, c, a) == Resolves(n, c, a) /\ Alive(a)

\* startAgentOnce on agent_not_ready: the dialog it knows is answered ...
DismissDialog(k) ==
    /\ CallAt(k, "notready")
    /\ \E a \in Address :
          /\ Resolves(call[k].name, call[k].cache, a) /\ term[a].run = "dialog"
          /\ term' = [term EXCEPT ![a].run = "agent"]
          /\ Sent(k, a)
          /\ Calls(k, [call[k] EXCEPT !.cache = a])
    /\ UNCHANGED <<hcRec, watch>>
\* ... and AgentReady asked until the agent reports, is gone, or the time is up.
AwaitReady(k) ==
    /\ CallAt(k, "notready")
    /\ \/ \E a \in Address : /\ Resolves(call[k].name, call[k].cache, a)
                             /\ ~AgentGone(a) /\ term[a].word # "unknown"
                             /\ Calls(k, [call[k] EXCEPT !.at = "named", !.cache = a]) /\ UNCHANGED hcRec
       \/ NotFound(call[k].name, call[k].cache) /\ Fails(k)
       \/ \E a \in Address : /\ Resolves(call[k].name, call[k].cache, a)
                             /\ Fails(k)
    /\ UNCHANGED <<term, watch, strayed>>

\* The name that is live goes on record.
RecordName(k) ==
    /\ CallAt(k, "named")
    /\ hcRec' = [hcRec EXCEPT ![k].name = call[k].name]
    /\ Calls(k, [call[k] EXCEPT !.at = "prompt"])
    /\ UNCHANGED <<term, watch, strayed>>

-----------------------------------------------------------------------------
(* Prompting: the end of a dispatch, and vx prompt.                         *)

\* vx prompt: another process, that remembers nothing.
Reprompt(k) ==
    /\ CallAt(k, "none") /\ hcRec[k].status = "done"
    /\ Records(k, "running")
    /\ Calls(k, [NoCall EXCEPT !.at = "prompt", !.name = hcRec[k].name])
    /\ UNCHANGED <<term, watch, strayed>>

\* AgentPrompt types the text and remembers the state before it.  hc refuses a
\* terminal that is blocked.
SendText(k) ==
    /\ CallAt(k, "prompt")
    /\ \/ NotFound(call[k].name, call[k].cache) /\ Fails(k) /\ UNCHANGED <<term, strayed>>
       \/ \E a \in Address :
             /\ Writable(call[k].name, call[k].cache, a)
             /\ IF term[a].word = "blocked" THEN Fails(k) /\ UNCHANGED <<term, strayed>>
                ELSE /\ term' = [term EXCEPT ![a].in = TRUE, ![a].moved = FALSE]
                     /\ Sent(k, a)
                     /\ Calls(k, [call[k] EXCEPT !.at = "look", !.cache = a]) /\ UNCHANGED hcRec
    /\ UNCHANGED watch

\* Then it watches: the agent works, or its turn ended or its status moved since ...
Took(a) == term[a].word = "working" \/ (term[a].word # "unknown" /\ term[a].moved)
LookAfter(k) ==
    LET a == call[k].cache IN
    /\ CallAt(k, "look")
    /\ IF Alive(a) THEN /\ Took(a) /\ EndsCall(k)
                        /\ IF term[a].word = "idle" THEN Records(k, "done") ELSE UNCHANGED hcRec
       ELSE Fails(k)
    /\ UNCHANGED <<term, watch, strayed>>
\* ... or no sign is seen in time.  A terminal that has reported is typed into
\* again, a few times (promptWithStalledRetry); one that never did is not.
Stalled(k) ==
    LET a == call[k].cache IN
    /\ CallAt(k, "look") /\ Alive(a) /\ ~Took(a)
    /\ \/ term[a].word # "unknown" /\ Calls(k, [call[k] EXCEPT !.at = "prompt"]) /\ UNCHANGED hcRec
       \/ Fails(k)
    /\ UNCHANGED <<term, watch, strayed>>

-----------------------------------------------------------------------------
(* Answering: vx decide, with keys (AnswerBlocked).                         *)

\* MapAgentStatus; a soldier that works, or does not say, is followed on.
StatusOf == [idle |-> "done", blocked |-> "blocked"]
\* Again a process that remembers nothing.
Decides(k) ==
    /\ CallAt(k, "none") /\ hcRec[k].status = "blocked"
    /\ Calls(k, [NoCall EXCEPT !.at = "keys", !.name = hcRec[k].name])
    /\ UNCHANGED <<term, hcRec, watch, strayed>>

\* AgentSendKeys.
PressKeys(k) ==
    /\ CallAt(k, "keys")
    /\ \/ NotFound(call[k].name, call[k].cache) /\ EndsCall(k) /\ UNCHANGED <<term, strayed>>
       \/ \E a \in Address :
             /\ Writable(call[k].name, call[k].cache, a)
             /\ term' = IF term[a].word = "blocked" THEN [term EXCEPT ![a].word = "working", ![a].moved = TRUE]
                        ELSE term
             /\ Sent(k, a)
             /\ Calls(k, [call[k] EXCEPT !.at = "probe", !.cache = a])
    /\ UNCHANGED <<hcRec, watch>>

\* AgentWait: a status it waits for is told, blocked only once the grace is over;
\* else its time is up.  finishAnswerBlocked records what it heard.
Probes(k) ==
    /\ CallAt(k, "probe") /\ EndsCall(k)
    /\ \/ NotFound(call[k].name, call[k].cache)
          /\ (Records(k, "lost") \/ UNCHANGED hcRec) /\ UNCHANGED strayed
       \/ \E a \in Address :
             /\ Resolves(call[k].name, call[k].cache, a) /\ Sent(k, a)
             /\ Records(k, IF term[a].word \in DOMAIN StatusOf THEN StatusOf[term[a].word] ELSE "running")
    /\ UNCHANGED <<term, watch>>

-----------------------------------------------------------------------------
(* Strike, the sentinel, and what soldiers and people do.                   *)

\* TabClose of the recorded tab: kill, then rm; one that is gone already is
\* fine.  The record of a task that is followed, or waits for an answer, stays as
\* it is; any other is never read again, and its id stands for the next task.
Followed == {"running", "blocked"}
Kill(k) ==
    /\ CallAt(k, "none") /\ hcRec[k].tab # Nowhere
    /\ hcRec[k].status \notin Followed \/ "strike" \in HcEvent
    /\ term' = IF Alive(hcRec[k].tab) THEN [term EXCEPT ![hcRec[k].tab].life = "finished"] ELSE term
    /\ Calls(k, [NoCall EXCEPT !.at = "rm"])
    /\ UNCHANGED <<hcRec, watch, strayed>>
RemoveTab(k) ==
    /\ CallAt(k, "rm")
    /\ term' = [term EXCEPT ![hcRec[k].tab] = [NoTerm EXCEPT !.life = "gone"]]
    /\ hcRec' = IF hcRec[k].status \in Followed THEN [hcRec EXCEPT ![k].tab = Nowhere]
              ELSE [hcRec EXCEPT ![k] = NewTask]
    /\ EndsCall(k)
    /\ UNCHANGED <<watch, strayed>>

\* The sentinel asks for the status of a running task by the name on record.
Named(k) == ~\E s \in {"bind", "check", "label", "launch", "start", "notready", "named"} : CallAt(k, s)
ReadStatus(k) ==
    LET n == hcRec[k].name IN
    /\ hcRec[k].status = "running"
    /\ \/ /\ NotFound(n, watch[n])
          /\ Records(k, "lost") /\ watch' = [watch EXCEPT ![n] = Nowhere] /\ UNCHANGED strayed
       \/ \E a \in Address :
             /\ Resolves(n, watch[n], a)
             /\ watch' = [watch EXCEPT ![n] = a]
             /\ IF Named(k) THEN Sent(k, a) ELSE UNCHANGED strayed
             /\ IF AgentGone(a) THEN Records(k, "lost")
                ELSE IF term[a].word \in DOMAIN StatusOf THEN Records(k, StatusOf[term[a].word])
                ELSE UNCHANGED hcRec
    /\ UNCHANGED <<term, call>>

\* The agent: it comes up, takes a text (or an answer typed in its pane), ends
\* its turn; it may exit to the shell.
Report(a) ==
    /\ Alive(a) /\ term[a].run = "agent" /\ term[a].word = "unknown"
    /\ term' = [term EXCEPT ![a].word = "idle", ![a].moved = TRUE]
    /\ UNCHANGED <<hcRec, call, watch, strayed>>
TakeText(a) ==
    /\ Alive(a) /\ term[a].run = "agent"
    /\ (term[a].in /\ term[a].word = "idle") \/ term[a].word = "blocked"
    /\ term' = [term EXCEPT ![a].in = FALSE, ![a].word = "working", ![a].moved = TRUE]
    /\ UNCHANGED <<hcRec, call, watch, strayed>>
EndTurn(a) ==
    /\ Alive(a) /\ term[a].run = "agent" /\ term[a].word = "working"
    /\ \E w \in {"idle", "blocked"} : term' = [term EXCEPT ![a].word = w, ![a].moved = TRUE]
    /\ UNCHANGED <<hcRec, call, watch, strayed>>
AgentExits(a) ==
    /\ "exit" \in HcEvent /\ Alive(a) /\ term[a].run = "agent"
    /\ term' = [term EXCEPT ![a].run = "exited"]
    /\ UNCHANGED <<hcRec, call, watch, strayed>>
\* A person closes a terminal; without "close", only one whose
\* task is over and which no command works on.
PersonCloses(a) ==
    /\ Alive(a) /\ term[a].task # Slug
    /\ \/ "close" \in HcEvent
       \/ hcRec[term[a].task].status \in {"failed", "lost"} /\ CallAt(term[a].task, "none")
    /\ term' = [term EXCEPT ![a].life = "finished"]
    /\ UNCHANGED <<hcRec, call, watch, strayed>>

Dispatch(k) == \/ CreateTab(k) \/ BindTask(k) \/ CheckName(k) \/ LabelName(k) \/ TypeLaunch(k)
               \/ Started(k) \/ DismissDialog(k) \/ AwaitReady(k) \/ RecordName(k)
Prompting(k) == Reprompt(k) \/ SendText(k) \/ LookAfter(k) \/ Stalled(k)
Answering(k) == Decides(k) \/ PressKeys(k) \/ Probes(k)
HcNext ==
    \/ \E k \in HcTask : Dispatch(k) \/ Prompting(k) \/ Answering(k) \/ Kill(k) \/ RemoveTab(k) \/ ReadStatus(k)
    \/ \E a \in Address : Report(a) \/ TakeText(a) \/ EndTurn(a) \/ AgentExits(a) \/ PersonCloses(a)
HcSpec == HcInit /\ [][HcNext]_hcVars

-----------------------------------------------------------------------------
(* Properties *)

\* What is sent for a task, and what the sentinel reads for it once its dispatch
\* has recorded a name, is sent to and read from the terminal started for it
\* (hc.go: a name only resolves to a terminal that carries the labels and that
\* name): names are reused after a strike, remembered by a sentinel that lives
\* longer than they do, and wanted by two tasks at once.
ReachesOwn == strayed = {}
=============================================================================
