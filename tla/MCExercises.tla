----------------------------- MODULE MCExercises -----------------------------
(* The exercises, for model checking: a behaviour is a run of one of them. *)
EXTENDS Program408, MCCalibration, Trajectory

MCValues == -1 .. 3

(* Two's complement. *)
MCOverflow(a, b) == ((a + b + INT_MAX + 1) % (2 * INT_MAX + 2)) - INT_MAX - 1

Unused408 == fn = "none" /\ args = <<>> /\ result = NONE
UnusedCalibration ==
  /\ stage = "unused" /\ cameras = <<>> /\ looked = 0 /\ camera = NoBone
  /\ glove_data = <<>> /\ tracker_data = <<>> /\ fingers = <<>> /\ found = <<>> /\ u_v = <<>>
UnusedTrajectory ==
  /\ reading = "unused" /\ tokens = <<>> /\ blank = FALSE
  /\ taken = 0 /\ eof = FALSE /\ fail = FALSE /\ poses = <<>> /\ lines = <<>>

exerciseVars == <<vars, calibrationVars, trajectoryVars>>

ExercisesInit ==
  \/ Init /\ UnusedCalibration /\ UnusedTrajectory
  \/ Unused408 /\ CalibrationInit /\ UnusedTrajectory
  \/ Unused408 /\ UnusedCalibration /\ TrajectoryInit

ExercisesNext ==
  \/ fn # "none" /\ Next /\ UNCHANGED <<calibrationVars, trajectoryVars>>
  \/ stage # "unused" /\ CalibrationNext /\ UNCHANGED <<vars, trajectoryVars>>
  \/ reading # "unused" /\ TrajectoryNext /\ UNCHANGED <<vars, calibrationVars>>

ExercisesSpec == ExercisesInit /\ [][ExercisesNext]_exerciseVars
==============================================================================
