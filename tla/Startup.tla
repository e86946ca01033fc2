-------------------------------- MODULE Startup --------------------------------
(***************************************************************************)
(* From launch to the first playback.  The saved session of the broker is  *)
(* checked; without one a login window comes first.  Then the panes, saved *)
(* with the names of their streams, wait for the metadata of the sidebar:  *)
(* on a tick each waiting pane that is due sends its streams round as a    *)
(* message (ResolveStreams), which makes the pane ready if every ticker is *)
(* known by then, and if not is tried again.  A program that was saved in  *)
(* Replay plays by itself as soon as that makes the last pane ready.       *)
(*                                                                         *)
(* Left out: what is stored of a session, the windows (Layouts has them),  *)
(* panes that are added or maximized (only a maximized one is ticked), and *)
(* playback itself, which is ReplaySession's.                              *)
(***************************************************************************)
EXTENDS TickersTable

CONSTANTS
  SavedPanes,   \* of the active layout
  Tachibana,    \* the exchange that needs a session
  MaxLogins     \* bound: logins under way

ASSUME StartupAssumption ==
  /\ SavedPanes # {} /\ Tachibana \in Exchanges /\ MaxLogins \in Nat \ {0}

VARIABLES
  stage,      \* "restoring", "login" (login_window) or "dashboard"
  timer,      \* is_headless: ticks come from a timer, not from a window
  inReplay,   \* the mode
  autoPlay,   \* pending_auto_play
  playSent,   \* the Play of auto-play is on its way
  playing,    \* the session is not Idle
  logins,     \* logins whose answer is still to come
  waiting,    \* panes that are open: their streams' tickers, ready, due
  resolving,  \* ResolveStreams on their way
  spent,      \* history: auto-play was used, given up, or overtaken by the user
  touched     \* history: the user closed or changed a pane that waited

startVars == <<stage, timer, inReplay, autoPlay, playSent, playing, logins,
               waiting, resolving, spent, touched>>
replayVars == <<inReplay, autoPlay, playSent, playing, spent>>

PaneState == [tickers : SUBSET Symbols, ready : BOOLEAN, due : BOOLEAN]

TypeOKStartup ==
  /\ TypeOKTable
  /\ stage \in {"restoring", "login", "dashboard"} /\ logins \in 0 .. MaxLogins
  /\ \A b \in {timer, inReplay, autoPlay, playSent, playing, spent, touched} : b \in BOOLEAN
  /\ DOMAIN waiting \subseteq SavedPanes
  /\ \A p \in DOMAIN waiting : waiting[p] \in PaneState
  /\ resolving \subseteq [pane : SavedPanes, tickers : SUBSET Symbols]

-----------------------------------------------------------------------------
(* A saved Replay with a range that can be read is to play by itself.      *)
StartupInit ==
  /\ TableInit
  /\ stage = "restoring" /\ timer \in BOOLEAN
  /\ inReplay \in BOOLEAN /\ autoPlay \in BOOLEAN /\ (autoPlay => inReplay)
  /\ playSent = FALSE /\ playing = FALSE /\ logins = 0
  /\ waiting \in [SavedPanes -> {[tickers |-> T, ready |-> FALSE, due |-> TRUE] :
                                 T \in SUBSET Symbols}]
  /\ resolving = {} /\ spent = FALSE /\ touched = FALSE

Lacks(p) == ~waiting[p].ready /\ waiting[p].tickers # {}

AllPanesReady == \A p \in DOMAIN waiting : ~Lacks(p)

-----------------------------------------------------------------------------
(* The session of the broker.                                              *)

(* The broker's tickers in the file of an earlier download, if it can be   *)
(* read, and the present ones.  Two downloads at once count as one.        *)
CachedMaster   == {{}, {[exchange |-> Tachibana, from |-> "disk"]}}
MasterDownload == {[exchange |-> Tachibana, from |-> "master"]}

(* transition_to_dashboard                                                 *)
OpenDashboard ==
  /\ stage' = "dashboard"
  /\ \E file \in CachedMaster : answers' = answers \cup file \cup MasterDownload
  /\ UNCHANGED <<tickersInfo, rows, rowIndex, sortVars, selected, unavailable, stats>>

SessionRestored ==
  /\ stage = "restoring"
  /\ OpenDashboard
  /\ UNCHANGED <<timer, replayVars, logins, waiting, resolving, touched>>

HasTachibanaPane ==
  \E p \in DOMAIN waiting : Lacks(p) /\ waiting[p].tickers \cap Listing[Tachibana] # {}

(* handle_session_restore_result: auto-play is given up for good if a pane *)
(* needs the session.                                                      *)
NoSession ==
  /\ stage = "restoring"
  /\ stage' = "login"
  /\ LET given == autoPlay /\ HasTachibanaPane
     IN  autoPlay' = (autoPlay /\ ~given) /\ spent' = (spent \/ given)
  /\ UNCHANGED <<timer, inReplay, playSent, playing, logins, waiting, resolving,
                 touched, tableVars>>

LoginSubmit ==
  /\ stage = "login" /\ logins < MaxLogins
  /\ logins' = logins + 1
  /\ UNCHANGED <<stage, timer, replayVars, waiting, resolving, touched, tableVars>>

(* A second answer opens the dashboard again.                              *)
LoginCompleted ==
  /\ logins > 0 /\ logins' = logins - 1
  /\ OpenDashboard
  /\ UNCHANGED <<timer, replayVars, waiting, resolving, touched>>

LoginFailed ==
  /\ logins > 0 /\ logins' = logins - 1
  /\ UNCHANGED <<stage, timer, replayVars, waiting, resolving, touched, tableVars>>

-----------------------------------------------------------------------------
(* Metadata, after which each waiting pane is due (refresh_waiting_panes). *)

Refreshed ==
  [p \in DOMAIN waiting |->
     IF Lacks(p) THEN [waiting[p] EXCEPT !.due = TRUE] ELSE waiting[p]]

(* At launch the broker's tickers are those in memory, if any.             *)
Brought(a) ==
  IF a.exchange = Tachibana /\ a.from = "launch" THEN {{}, Listing[a.exchange]}
  ELSE {Listing[a.exchange]}

MetadataArrives(a) ==
  /\ \E T \in Brought(a) : UpdateMetadata(a, T)
  /\ waiting' = Refreshed
  /\ UNCHANGED <<stage, timer, replayVars, logins, resolving, touched>>

MetadataFails(a) ==
  /\ a.exchange = Tachibana => a.from = "master"
  /\ MetadataFetchFailed(a)
  /\ UNCHANGED startVars

Known(t) == t \in DOMAIN tickersInfo /\ tickersInfo[t]

-----------------------------------------------------------------------------
(* Ticks: none with a login window, and before the main window is there    *)
(* only those of the timer, which runs in Replay.                          *)
Ticks ==
  \/ stage = "dashboard"
  \/ stage = "restoring" /\ timer /\ inReplay

Tick ==
  /\ Ticks
  /\ LET due == {p \in DOMAIN waiting : Lacks(p) /\ waiting[p].due}
     IN  /\ due # {}
         /\ resolving' = resolving \cup {[pane |-> p, tickers |-> waiting[p].tickers] : p \in due}
         /\ waiting' = [p \in DOMAIN waiting |->
                          IF p \in due THEN [waiting[p] EXCEPT !.due = FALSE] ELSE waiting[p]]
  /\ UNCHANGED <<stage, timer, replayVars, logins, touched, tableVars>>

RetryInterval(p) ==
  /\ p \in DOMAIN waiting /\ Lacks(p) /\ ~waiting[p].due
  /\ waiting' = [waiting EXCEPT ![p].due = TRUE]
  /\ UNCHANGED <<stage, timer, replayVars, logins, resolving, touched, tableVars>>

NothingToPlay == UNCHANGED <<autoPlay, playSent, spent>>

(* ResolveStreams: the streams are the pane's when it sent them.  A pane   *)
(* that is gone is passed over.                                            *)
ResolveStreams(m) ==
  /\ m \in resolving /\ resolving' = resolving \ {m}
  /\ IF \A t \in m.tickers : Known(t)
     THEN /\ waiting' = [p \in DOMAIN waiting |->
                           IF p = m.pane THEN [tickers |-> m.tickers, ready |-> TRUE, due |-> FALSE]
                           ELSE waiting[p]]
          /\ IF autoPlay /\ inReplay /\ AllPanesReady'
             THEN autoPlay' = FALSE /\ playSent' = TRUE /\ spent' = TRUE
             ELSE NothingToPlay
     ELSE UNCHANGED waiting /\ NothingToPlay
  /\ UNCHANGED <<stage, timer, inReplay, playing, logins, touched, tableVars>>

-----------------------------------------------------------------------------
(* The user, at the dashboard or through the HTTP API.                     *)

HandlePlay(valid) ==
  /\ autoPlay' = FALSE /\ spent' = TRUE
  /\ playing' = (playing \/ valid)
  /\ UNCHANGED <<stage, timer, inReplay, logins, waiting, resolving, touched, tableVars>>

UserPlay(valid) == HandlePlay(valid) /\ UNCHANGED playSent
SentPlay(valid) == playSent /\ playSent' = FALSE /\ HandlePlay(valid)

FlagSurvivesLive == FALSE          \* mutant of LeavesReplay
LeavesReplay     == inReplay

SwitchMode ==
  /\ inReplay' = ~inReplay
  /\ autoPlay' = (autoPlay /\ ~LeavesReplay)
  /\ playing' = (playing /\ ~inReplay)
  /\ spent' = (spent \/ inReplay)
  /\ UNCHANGED <<stage, timer, playSent, logins, waiting, resolving, touched, tableVars>>

ClosePane(p) ==
  /\ stage = "dashboard" /\ Cardinality(DOMAIN waiting) > 1
  /\ waiting' = [q \in DOMAIN waiting \ {p} |-> waiting[q]]
  /\ touched' = (touched \/ Lacks(p))
  /\ UNCHANGED <<stage, timer, replayVars, logins, resolving, tableVars>>

TickerSelected(p, t) ==
  /\ stage = "dashboard" /\ Known(t)
  /\ waiting' = [waiting EXCEPT ![p] = [tickers |-> {t}, ready |-> TRUE, due |-> FALSE]]
  /\ touched' = (touched \/ Lacks(p))
  /\ UNCHANGED <<stage, timer, replayVars, logins, resolving, tableVars>>

StartupNext ==
  \/ SessionRestored \/ NoSession \/ LoginSubmit \/ LoginCompleted \/ LoginFailed
  \/ \E a \in answers : MetadataArrives(a) \/ MetadataFails(a)
  \/ Tick \/ \E p \in SavedPanes : RetryInterval(p)
  \/ \E m \in resolving : ResolveStreams(m)
  \/ \E valid \in BOOLEAN : UserPlay(valid) \/ SentPlay(valid)
  \/ SwitchMode
  \/ \E p \in DOMAIN waiting : ClosePane(p) \/ \E t \in Symbols : TickerSelected(p, t)

StartupSpec == StartupInit /\ [][StartupNext]_<<tableVars, startVars>>

-----------------------------------------------------------------------------
(* Auto-play never comes late: it plays once at most, in Replay, and not   *)
(* after the user has played, has been to Live, or was told that it is     *)
(* off, however long the metadata takes and whatever pane comes last.      *)
AutoPlayIsNeverStale ==
  [][playSent' /\ ~playSent => inReplay /\ ~playing /\ ~spent]_startVars

(* And it does come, once the metadata are there, to a user who leaves the *)
(* panes alone.  A pane that is closed, or given another ticker, is ready  *)
(* without a message, so that nothing looks whether it was the last one.   *)
Resolvable ==
  /\ stage = "dashboard" /\ autoPlay
  /\ \E p \in DOMAIN waiting : Lacks(p)
  /\ \A p \in DOMAIN waiting, t \in Symbols : t \in waiting[p].tickers => Known(t)

AutoPlayComes == Resolvable ~> (~autoPlay \/ touched)
=============================================================================
