----------------------------- MODULE EpisodeView -----------------------------
(***************************************************************************)
(* The page of one Episode: _EpisodeView of ui/app.py.                     *)
(*                                                                         *)
(* Its handlers are coroutines of one event loop: what a handler does      *)
(* between two awaits is one step.  Commands and reads run in threads, and *)
(* their answers come in any order, late, or not at all.  Each read takes  *)
(* a token, and only the answer of the newest one is shown.  Buttons that  *)
(* are disabled or gone are not heard.  What a command does to the Episode *)
(* is EpisodeDecisionLoop's; here it has a version and a work state.       *)
(* Definitions marked "Mistake" are as in ArtifactStore.                   *)
(***************************************************************************)
EXTENDS Integers

CONSTANTS Handlers,     \* how many may be under way at once
          MaxVersion,   \* bound of the model
          None

VARIABLES episode,    \* as the database has it
          receipts,   \* commands of this page that have committed
          view,       \* what the page shows
          handler,    \* each handler that is under way
          known       \* history: the latest version that the page was told of

vars == <<episode, receipts, view, handler, known>>

\* The owner is the user of the page, or somebody else.
WorkStates == {"OPEN", "CLAIMED", "CLAIMED_BY_OTHER", "ACKNOWLEDGED"}
Episode == [version : 0 .. MaxVersion, work : WorkStates]

\* A command id is of its action and of the brief that it was rendered with.
Command == [action : {"ClaimEpisode", "AcknowledgeEpisode", "RequestCheck"},
            version : 0 .. MaxVersion]

\* checks: the plan has recommendations that this principal may request.
Loading == [kind |-> "loading"]
Brief(e, checks) ==
  [kind |-> "brief", episode |-> e, primary |-> e.work \in {"OPEN", "CLAIMED"}, checks |-> checks]
\* "stale": the newer request is authoritative; "failed": nothing has committed.
Errors == {"stale", "failed", "conflict", "incoherent", "offline", "permission"}
Error(reason) == [kind |-> "error", reason |-> reason]
HasRetry(reason) == reason \in {"conflict", "incoherent", "offline"}

Views == {Loading} \cup {Brief(e, c) : e \in Episode, c \in BOOLEAN}
           \cup {[Brief(e, FALSE) EXCEPT !.primary = FALSE] : e \in Episode}
           \cup {[Brief(e, TRUE) EXCEPT !.primary = FALSE] : e \in Episode}
           \cup {Error(r) : r \in Errors}

Idle == [pc |-> "idle"]

\* newest: its token is the last that was taken.
TypeOK ==
  /\ episode \in Episode
  /\ receipts \subseteq Command
  /\ view \in Views
  /\ known \in 0 .. MaxVersion
  /\ \A h \in Handlers : handler[h] # Idle =>
       /\ handler[h].pc \in {"command", "committed", "read", "answered", "failed"}
       /\ handler[h].of \in {"load", "commit", "check"}

Init ==
  /\ episode = [version |-> 0, work |-> "OPEN"]
  /\ receipts = {}
  /\ view = Loading
  /\ \E h \in Handlers : handler = [i \in Handlers |->
       IF i = h THEN [of |-> "load", pc |-> "read", newest |-> TRUE] ELSE Idle]
  /\ known = 0

\* Somebody else works on the Episode, or a revision of it is published.
OthersWork ==
  /\ episode.version < MaxVersion
  /\ \E work \in WorkStates :
       /\ <<episode.work, work>> \in {<<"OPEN", "CLAIMED_BY_OTHER">>} \cup {<<w, w>> : w \in WorkStates}
       /\ episode' = [version |-> episode.version + 1, work |-> work]
  /\ UNCHANGED <<receipts, view, handler, known>>

-----------------------------------------------------------------------------
At(h, pc) == handler[h] # Idle /\ handler[h].pc = pc
End(h) == handler' = [handler EXCEPT ![h] = Idle]

\* guard.next(), and the thread that reads.
StartRead(h, of) ==
  handler' = [i \in Handlers |->
    IF i = h THEN [of |-> of, pc |-> "read", newest |-> TRUE]
    ELSE IF handler[i] # Idle /\ handler[i].pc \in {"read", "answered", "failed"}
         THEN [handler[i] EXCEPT !.newest = FALSE]
         ELSE handler[i]]

Load(h) == view' = Loading /\ StartRead(h, "load")

\* The one button of an error.
ClickRetry(h) ==
  /\ handler[h] = Idle
  /\ view.kind = "error" /\ HasRetry(view.reason)
  /\ Load(h)
  /\ UNCHANGED <<episode, receipts, known>>

\* episode_action
ActionOf(e) == IF e.work = "OPEN" THEN "ClaimEpisode" ELSE "AcknowledgeEpisode"

\* commit, up to the thread: only this button is disabled.
ClickPrimary(h) ==
  /\ handler[h] = Idle
  /\ view.kind = "brief" /\ view.primary
  /\ view' = [view EXCEPT !.primary = FALSE]
  /\ handler' = [handler EXCEPT ![h] =
       [of |-> "commit", pc |-> "command",
        command |-> [action |-> ActionOf(view.episode), version |-> view.episode.version]]]
  /\ UNCHANGED <<episode, receipts, known>>

\* A command that has a receipt is answered by it; another one needs its version.
Accepted(c) == c \in receipts \/ (c.version = episode.version /\ c.version < MaxVersion)

WorkAfter(action) ==
  CASE action = "ClaimEpisode" -> "CLAIMED"
    [] action = "AcknowledgeEpisode" -> "ACKNOWLEDGED"
    [] OTHER -> episode.work

Execute(c) ==
  /\ receipts' = receipts \cup {c}
  /\ episode' = IF c \in receipts THEN episode
                ELSE [version |-> c.version + 1, work |-> WorkAfter(c.action)]

Newer(version) == IF version > known THEN version ELSE known

\* request_recommended_check: all buttons are disabled and the command is
\* executed on the event loop, so that nothing of the page comes in between.
\* A plan that is not of the brief is loaded again, without any command.
RequestCheck(h) ==
  LET c == [action |-> "RequestCheck", version |-> view.episode.version] IN
    \/ /\ Accepted(c)
       /\ Execute(c)
       /\ known' = Newer(c.version + 1)
       /\ view' = [view EXCEPT !.primary = FALSE, !.checks = FALSE]
       /\ StartRead(h, "check")
    \/ Load(h) /\ UNCHANGED <<episode, receipts, known>>         \* a conflict
    \/ /\ \E reason \in Errors \ {"stale", "conflict", "incoherent"} : view' = Error(reason)
       /\ \/ UNCHANGED <<episode, receipts>>
          \/ Accepted(c) /\ Execute(c)                     \* its answer was lost
       /\ UNCHANGED <<handler, known>>

ClickCheck(h) ==
  /\ handler[h] = Idle
  /\ view.kind = "brief" /\ view.checks
  /\ RequestCheck(h)

-----------------------------------------------------------------------------
\* Threads.  A failure of a command may come after its commit.
ThreadExecutes(h) ==
  /\ At(h, "command")
  /\ LET c == handler[h].command IN
       \/ /\ Accepted(c)
          /\ Execute(c)
          /\ \E pc \in {"committed", "failed"} :
               handler' = [handler EXCEPT ![h] =
                 [of |-> "commit", pc |-> pc, newest |-> FALSE, version |-> c.version + 1,
                  reasons |-> {"offline", "failed"}]]
       \/ /\ handler' = [handler EXCEPT ![h] =
               [of |-> "commit", pc |-> "failed", newest |-> FALSE,
                reasons |-> Errors \ {"stale", "incoherent"}]]
          /\ UNCHANGED <<episode, receipts>>
  /\ UNCHANGED <<view, known>>

\* The Episode as one coherent read has it, or a failure, or the 30 seconds of
\* AsyncLoader.
ThreadReads(h) ==
  /\ At(h, "read")
  /\ handler' = [handler EXCEPT ![h] =
       [of |-> handler[h].of, pc |-> "answered", newest |-> handler[h].newest, got |-> episode]]
  /\ UNCHANGED <<episode, receipts, view, known>>

ReadFails(h) ==
  /\ At(h, "read")
  /\ handler' = [handler EXCEPT ![h] =
       [of |-> handler[h].of, pc |-> "failed", newest |-> handler[h].newest,
        reasons |-> Errors \ {"stale"}]]
  /\ UNCHANGED <<episode, receipts, view, known>>

-----------------------------------------------------------------------------
\* The handler goes on when its thread has answered.

ReadBack(h) ==
  /\ At(h, "committed")
  /\ known' = Newer(handler[h].version)
  /\ StartRead(h, "commit")
  /\ UNCHANGED <<episode, receipts, view>>

\* Mistake: whatever is answered is shown.
AlwaysNewest(h) == TRUE

\* guard.is_current(token)
IsNewest(h) == handler[h].newest

\* render_brief, or the error of a superseded response.
Show(h) ==
  /\ At(h, "answered")
  /\ IF IsNewest(h)
     THEN /\ \E checks \in BOOLEAN : view' = Brief(handler[h].got, checks)
          /\ known' = Newer(handler[h].got.version)
     ELSE view' = Error("stale") /\ UNCHANGED known
  /\ End(h)
  /\ UNCHANGED <<episode, receipts>>

\* Mistake: a failure is left to the log.
LeavesView(h, reason) == view

\* render_error
Failed(h, reason) == Error(reason)

\* An exception is shown, whether or not it was superseded; a check that meets a
\* conflict loads again.
Fail(h) ==
  /\ At(h, "failed")
  /\ \E reason \in handler[h].reasons :
       IF handler[h].of = "check" /\ reason \in {"conflict", "incoherent"} THEN Load(h)
       ELSE view' = Failed(h, reason) /\ End(h)
  /\ UNCHANGED <<episode, receipts, known>>

Next ==
  \/ OthersWork
  \/ \E h \in Handlers :
       \/ ClickRetry(h) \/ ClickPrimary(h) \/ ClickCheck(h)
       \/ ThreadExecutes(h) \/ ThreadReads(h) \/ ReadFails(h)
       \/ ReadBack(h) \/ Show(h) \/ Fail(h)

Spec == Init /\ [][Next]_vars

-----------------------------------------------------------------------------
\* A page that waits has a handler under way that will render it: it never
\* stays at "loading", or with its buttons disabled, for good.
Waits ==
  view = Loading \/ (view.kind = "brief" /\ ~view.primary /\ view.episode.work \in {"OPEN", "CLAIMED"})
WaitsForSomebody == Waits => \E h \in Handlers : handler[h] # Idle

\* What is rendered never goes back: not behind what was rendered before, and
\* not behind a command that was answered, whichever reads overtake each other.
Rendered == view'.kind = "brief" /\ (view.kind = "brief" => view'.episode # view.episode)
NeverGoesBack == [][Rendered => view'.episode.version >= known]_vars
=============================================================================
