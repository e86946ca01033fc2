------------------------------- MODULE Playback -------------------------------
(***************************************************************************)
(* What a replay session promises, whoever controls it: the GUI's          *)
(* ReplayController (ReplaySession) and the headless engine (Headless)     *)
(* are two pieces of code with one session type and one clock type, and    *)
(* both implement this (src/src/replay/mod.rs, ReplaySession and           *)
(* ReplayState; src/src/replay/clock.rs).                                  *)
(*                                                                         *)
(* A session has a range and a virtual time in it.  Time runs forward by   *)
(* itself only while an active session plays, and playing stops at the end *)
(* of the range.  Any other move is a jump, and a jump leaves the session  *)
(* standing; the one exception is the snap of a new step size, which takes *)
(* back less than a step.  While data loads, time stands at the start.     *)
(***************************************************************************)
EXTENDS Integers

CONSTANT AlwaysLoads   \* whether every session has data to wait for

VARIABLES phase,      \* the constructor of ReplaySession
          start, end, \* full_range()
          time,       \* now_ms(); the start of the empty range without a session
          step,       \* step_size_ms
          playing     \* is_playing()

range == <<start, end>>
pvars == <<phase, range, time, step, playing>>

Init ==
  /\ phase = "Idle" /\ playing = FALSE
  /\ start = 0 /\ end = 0 /\ time = 0

(* Play, or a reload.                                                      *)
Begin ==
  /\ start' <= end' /\ time' = start'
  /\ phase' = "Loading" /\ playing' = FALSE

(* Where there is nothing to load a session plays at once.                 *)
BeginEmpty ==
  /\ ~AlwaysLoads
  /\ start' <= end' /\ time' = start'
  /\ phase' = "Active" /\ playing' = TRUE

(* The data is there.  A session that was paused while it loaded stands.   *)
Ready ==
  /\ phase = "Loading" /\ phase' = "Active"
  /\ playing' \in BOOLEAN
  /\ UNCHANGED <<range, time, step>>

(* Back to Live, or a load failed.                                         *)
GiveUp ==
  /\ phase' = "Idle" /\ playing' = FALSE
  /\ start' = 0 /\ end' = 0 /\ time' = 0

StartOrStop ==
  /\ phase = "Active"
  /\ playing' = ~playing
  /\ UNCHANGED <<phase, range, time, step>>

Advance ==
  /\ phase = "Active" /\ playing
  /\ time < time' /\ time' <= end
  /\ playing' = (time' < end)
  /\ UNCHANGED <<phase, range, step>>

Jump ==
  /\ phase # "Idle"
  /\ start <= time' /\ time' <= end
  /\ phase = "Loading" => time' = start
  /\ playing' = FALSE
  /\ UNCHANGED <<phase, range, step>>

Snap ==
  /\ phase # "Idle"
  /\ start <= time' /\ time' <= time /\ time - time' < step'
  /\ UNCHANGED <<phase, range, playing>>

Next == Begin \/ BeginEmpty \/ Ready \/ GiveUp \/ StartOrStop \/ Advance \/ Jump \/ Snap

Spec == Init /\ [][Next]_pvars
=============================================================================
