-------------------------- MODULE SessionProperties --------------------------
(***************************************************************************)
(* What the replay controller promises, and what its documentation says of *)
(* it, over the states and steps of ReplaySession.                         *)
(***************************************************************************)
EXTENDS ReplaySession

(* A loading session can always finish: it waits for at least one answer,  *)
(* and never for more than its own loads can still give, so no order of    *)
(* completions, late ones included, leaves it waiting for nothing          *)
(* (pending_count against the tasks Play and ReloadKlineStream spawn).     *)
OwnLoads == {l \in loads : l.epoch = epoch}

LoadsOutstanding ==
  session = "Loading" => pending >= 1 /\ pending <= Cardinality(OwnLoads)

(* While a session loads, its clock waits or is paused at the start of the *)
(* range, and a clock is never asked for a due time it does not have       *)
(* (StepClock::tick's expect); without a session there is nothing left of  *)
(* the previous one.                                                       *)
ClockFitsSession ==
  /\ ClockOK(clock)
  /\ session = "Loading" => clock.status # "Playing" /\ clock.now = clock.start
  /\ session = "Idle" => clock = NoClock /\ active = {} /\ store = NoData
  /\ session # "Loading" => pending = 0

(* The two "start by yourself" flags cannot be left behind: a pending      *)
(* resume belongs to a session that is loading, a pending auto-play to a   *)
(* replay nobody has started yet (docs/spec/replay.md, invariant 5).       *)
FlagsAreNotLeftBehind ==
  /\ resumePending => session = "Loading"
  /\ autoPlay => session = "Idle" /\ mode = "Replay"

(* No chart runs a whole step ahead of the virtual time: what is to come   *)
(* is not shown (the half-open [prev, now) of a tick, the floor of seek).  *)
NoLookAhead ==
  session # "Idle" =>
    \A p \in Panes : \A b \in charts[p].bars : b < clock.now + clock.step

(* Nothing that has passed is missing: a pane whose stream is played shows *)
(* every stored bar between the start and the virtual time, whatever mix   *)
(* of ticks, late ticks, steps and seeks led there.  A pane whose reload   *)
(* is still on its way is exempt.                                          *)
AwaitsReload(p) == \E m \in reloads : m.new = panes[p]

PlaybackSkipsNoBar ==
  session = "Active" =>
    \A p \in Panes :
      (panes[p] \in active /\ ~AwaitsReload(p)) =>
        KlinesIn(panes[p], clock.start, clock.now) \subseteq charts[p].bars

(* The sessions of the Replay mode.  The HTTP command Play can start one   *)
(* in Live; what follows from that is not held against the rest.           *)
SafeNext == Next /\ (mode' = "Live" => session' = "Idle")
SafeSpec == Init /\ [][SafeNext]_vars

(* A paused clock starts again only because the user asked: by Resume now  *)
(* or while the data was loading, or by a new Play.  A reload or a load    *)
(* that completes does not restart it (dispatcher.rs, "Paused 状態では     *)
(* Waiting に遷移させない").                                               *)
PlayAsked == UserPlay \/ QueuedPlay \/ \E range \in Ranges : ApiPlay(range)

PausedUntilAsked ==
  [][(session # "Idle" /\ clock.status = "Paused" /\ clock'.status = "Playing")
       => Resume \/ resumePending \/ PlayAsked]_vars

(* The speed survives a restart of the replay (invariant 7 of              *)
(* docs/spec/replay.md, section 12.3).                                     *)
SpeedSurvivesRestart ==
  [][(session # "Idle" /\ session' # "Idle" /\ ~CycleSpeed)
       => clock'.speed = clock.speed]_vars

(* The controller's session is a Playback: time runs forward only while it  *)
(* plays, stops at the end, stands at the start while data loads, and goes *)
(* back only by a seek that leaves it paused or by less than a step        *)
(* (handle_user_message, handle_load_event, handle_system_event, tick).    *)
Abstract == INSTANCE Playback WITH AlwaysLoads <- FALSE,
  phase <- session, start <- clock.start, end <- clock.end, time <- clock.now,
  step <- clock.step, playing <- clock.status = "Playing"

ImplementsPlayback == Abstract!Spec

(* Loading ends: every session that loads becomes active or is given up.   *)
LoadingEnds == (session = "Loading") ~> (session # "Loading")

(* Once the user and the panes are left alone, a session comes to rest:    *)
(* it neither plays nor waits for data for ever.  No load may outlive the  *)
(* Play or the reload it was started for: see WaitingIsReleased for what   *)
(* happens otherwise.                                                      *)
Hands == User \/ FireAutoPlay \/ SyncReplayBuffers \/ Reloading
NoStaleLoads == \A l \in loads : l.epoch = epoch

PlaybackComesToRest ==
  ([]NoStaleLoads /\ <>[][~Hands]_vars) =>
    <>[](mode = "Replay" => session # "Loading" /\ clock.status = "Paused")

-----------------------------------------------------------------------------
(* A statement of the documentation that the code does not keep.           *)

(* docs/spec/replay.md, 7.3: Waiting is released automatically.            *)
WaitingIsReleased == (clock.status = "Waiting") ~> (clock.status # "Waiting")
=============================================================================
