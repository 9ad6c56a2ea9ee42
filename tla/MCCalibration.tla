---------------------------- MODULE MCCalibration ----------------------------
(* Files and bones for model checking Calibration.  Coordinates are the integers modulo a
   prime, in which 3/5 and 4/5 are 18 and 24: a ring in which there are rotations by
   other angles than quarter turns, and every identity between exact coordinates holds. *)
EXTENDS Calibration, TLC

Prime == 29
MCScalars == 0 .. Prime - 1
MCAdd(a, b) == (a + b) % Prime
MCMul(a, b) == (a * b) % Prime
MCNeg(a) == (-a) % Prime
Triple(x, y, z) == <<x % Prime, y % Prime, z % Prime>>
MCOffset == Triple(-35, 10, 52) \* millimetres

(* Rotations by the angle with cosine 3/5 and sine 4/5, and a quarter turn. *)
AboutX == <<Triple(1, 0, 0), Triple(0, 18, -24), Triple(0, 24, 18)>>
AboutY == <<Triple(18, 0, 24), Triple(0, 1, 0), Triple(-24, 0, 18)>>
AboutZ == <<Triple(0, -1, 0), Triple(1, 0, 0), Triple(0, 0, 1)>>
AboutXY == Compose(AboutX, AboutY)
Pose(R, x, y, z) == [R |-> R, t |-> Triple(x, y, z)]

MCMotions == {Identity, Pose(AboutX, 1, 0, 2), Pose(AboutXY, 0, -3, 0), Pose(AboutZ, 5, 1, 0)}

Bone(id, name, pose) == [id |-> id, name |-> name, pose |-> pose]
Hand(pose) == Bone(255, "LHR-8FFB7245-right", pose)
Horizon == Bone(255, "LHR-A20BFD8E-horizon", Pose(AboutX, 611, -878, -1396))
Chest(pose) == Bone(255, "LHR-C8B833F1-chest", pose)

(* As the program has them, in other orders, and without a bone. *)
MCTrackerData ==
  LET hand == Hand(Pose(AboutXY, 393, -826, -1293))
      chest == Chest(Pose(AboutZ, 624, -537, -967))
  IN  {<<hand, Horizon, chest>>, <<chest, hand>>, <<Horizon, hand>>, <<>>}
MCGloveData ==
  LET wrist == Bone(25, "RightHand_Hand", Pose(AboutZ, 3, 0, 1))
      metacarpal == Bone(26, "RightHand_Thumb_Metacarpal", Pose(AboutX, -11, -27, -21))
      proximal == Bone(27, "RightHand_Thumb_Proximal", Pose(AboutY, -47, -52, -26))
  IN  {<<wrist, metacarpal, proximal>>, <<metacarpal, wrist, proximal>>, <<proximal>>, <<wrist>>}

Camera(topic, ext, IntMat, DistCoeff, ImageSize) ==
  [topic |-> topic, named |-> TRUE, complete |-> TRUE, ext |-> ext, IntMat |-> IntMat,
   DistCoeff |-> DistCoeff, ImageSize |-> ImageSize]
Entries ==
  LET good == Camera(camera_topic, Pose(AboutX, 10, -20, 30), 9, 4, 2)
  IN  {good,
       Camera(camera_topic, Pose(AboutY, -10, 0, 5), 9, 8, 2),
       Camera("other", Pose(AboutZ, 7, 7, 7), 9, 5, 2),
       [good EXCEPT !.IntMat = 4], [good EXCEPT !.DistCoeff = 6],
       [good EXCEPT !.ImageSize = 0], [good EXCEPT !.complete = FALSE],
       [good EXCEPT !.topic = "", !.named = FALSE]}
MCCameraLists == {<<>>} \cup {<<a>> : a \in Entries} \cup (Entries \X Entries)
==============================================================================
