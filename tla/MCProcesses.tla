---------------------------- MODULE MCProcesses ----------------------------
(* The forum server and listener, the sentinel and the awaits, on small      *)
(* instances.  They share no state that another reads, so one behaviour      *)
(* exercises one of them: their state spaces are added, not multiplied.      *)
EXTENDS ForumServer, SentinelLife, Awaiters, ListenerLife

VARIABLE part

InPart(p, next, rest) == part = p /\ next /\ UNCHANGED <<part, rest>>
ForumPart(next) == InPart("forum", next, <<sentinelVars, awaiterVars, listenerVars>>)
SentinelPart(next) == InPart("sentinel", next, <<serverVars, awaiterVars, listenerVars>>)
AwaitPart(next) == InPart("awaits", next, <<serverVars, sentinelVars, listenerVars>>)
ListenerPart(next) == InPart("listener", next, <<serverVars, sentinelVars, awaiterVars>>)

ProcessInit == part \in {"forum", "sentinel", "awaits", "listener"}
               /\ ServerInit /\ SentinelInit /\ AwaitInit /\ ListenerInit
ProcessNext == ForumPart(ServerNext) \/ SentinelPart(SentinelNext) \/ AwaitPart(AwaitNext)
               \/ ListenerPart(ListenerNext)
ProcessVars == <<part, serverVars, sentinelVars, awaiterVars, listenerVars>>

\* Every process that can take its next step does; nobody has to come or go.
ProcessFair ==
    /\ \A p \in Server : WF_ProcessVars(ForumPart(ServerStep(p)))
    /\ \A c \in Asker : WF_ProcessVars(ForumPart(AskStep(c)))
    /\ \A p \in Sentinel : /\ WF_ProcessVars(SentinelPart(SentinelStep(p)))
                           /\ SF_ProcessVars(SentinelPart(TakeFlock(p)))
    /\ \A a \in Poller : WF_ProcessVars(SentinelPart(PollStep(a)))
ProcessSpec == ProcessInit /\ [][ProcessNext]_ProcessVars /\ ProcessFair

\* One forum server and one listener, unless one was killed, and a listener a
\* command was told of goes on (see OneUnlessCrashed and ListenerKept).
OneOfEach == OneUnlessCrashed /\ ListenerKept
\* As long as awaits poll, a sentinel of the installed build ends up running (see Watched).
SentinelWatched == part = "sentinel" => Watched
\* Every command that needs a forum server gets an answer (see EveryoneServed).
ForumServed == part = "forum" => EveryoneServed
=============================================================================
