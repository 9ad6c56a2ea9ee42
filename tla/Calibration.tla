----------------------------- MODULE Calibration -----------------------------
(***************************************************************************)
(* The camera projection exercise (00_testscript): the camera's entry is   *)
(* taken from a calibration file, the bones of a glove are carried by a    *)
(* chain of rigid motions from the glove's frame to that of a tracker on   *)
(* the chest, and projected into the image.                                *)
(*                                                                         *)
(* Geometry is exact: coordinates are the elements of a commutative ring,  *)
(* such as the real numbers, and a rotation is a matrix, by rows, whose    *)
(* transpose is its inverse.  The image is modelled up to the lens: a      *)
(* pixel is the ray to it, and OpenCV is modelled by what it does to rays. *)
(***************************************************************************)
EXTENDS Integers, Sequences, Subsequences

CONSTANTS
  Scalars, zero, one, add(_, _), mul(_, _), neg(_), \* coordinates, and their arithmetic
  P_wrist2rh_tracker, \* where the tracker sits on the wrist: a measured value
  CameraLists,   \* what the file may hold: its camera entries, in order
  GloveData,     \* what the glove may send
  TrackerData,   \* what the trackers may send
  Motions        \* rigid motions, with which results are compared

ASSUME RingAssumption ==
  /\ zero \in Scalars /\ one \in Scalars
  /\ \A a \in Scalars :
       neg(a) \in Scalars /\ add(a, zero) = a /\ add(a, neg(a)) = zero /\ mul(a, one) = a
  /\ \A a, b \in Scalars :
       /\ add(a, b) \in Scalars /\ mul(a, b) \in Scalars
       /\ add(a, b) = add(b, a) /\ mul(a, b) = mul(b, a)
  /\ \A a, b, c \in Scalars :
       /\ add(add(a, b), c) = add(a, add(b, c)) /\ mul(mul(a, b), c) = mul(a, mul(b, c))
       /\ mul(a, add(b, c)) = add(mul(a, b), mul(a, c))

camera_topic == "/sensor_camera_senyun/fpv_lf_fisheye/compressed"

-----------------------------------------------------------------------------
(* Rigid motions [R, t], which take v to Rv + t. *)
Dot(u, v) == add(add(mul(u[1], v[1]), mul(u[2], v[2])), mul(u[3], v[3]))
Rotate(R, v) == <<Dot(R[1], v), Dot(R[2], v), Dot(R[3], v)>>
Plus(u, v) == <<add(u[1], v[1]), add(u[2], v[2]), add(u[3], v[3])>>
Minus(u) == <<neg(u[1]), neg(u[2]), neg(u[3])>>
Apply(T, v) == Plus(Rotate(T.R, v), T.t)
Transpose(R) == [i \in 1 .. 3 |-> <<R[1][i], R[2][i], R[3][i]>>]
InverseOf(T) == [R |-> Transpose(T.R), t |-> Minus(Rotate(Transpose(T.R), T.t))]
Identity ==
  [R |-> <<<<one, zero, zero>>, <<zero, one, zero>>, <<zero, zero, one>>>>,
   t |-> <<zero, zero, zero>>]
Compose(A, B) ==
  [i \in 1 .. 3 |-> [j \in 1 .. 3 |-> Dot(A[i], <<B[1][j], B[2][j], B[3][j]>>)]]

Positions == [1 .. 3 -> Scalars]
Poses == [R : [1 .. 3 -> Positions], t : Positions]
Bones == [id : Int, name : STRING, pose : Poses]
IsRotation(R) ==
  Compose(R, Transpose(R)) = Identity.R /\ Compose(Transpose(R), R) = Identity.R

(* A file holds a list of entries; a skeleton has one bone of a name. *)
ASSUME CalibrationAssumption ==
  /\ P_wrist2rh_tracker \in Positions
  /\ \A list \in CameraLists : Len(list) \in Nat
  /\ \A list \in GloveData \cup TrackerData :
       /\ list \in Seq(Bones)
       /\ \A i, j \in DOMAIN list : list[i].name = list[j].name => i = j
       /\ \A i \in DOMAIN list : IsRotation(list[i].pose.R)
  /\ Motions \subseteq Poses /\ \A g \in Motions : IsRotation(g.R)

(* The pose of a body to the motion that takes the world to its frame. *)
makeT(pose) == InverseOf(pose)

-----------------------------------------------------------------------------
(* GetBoneDataByName(). *)

NoName == ""
NoBone == [id |-> 0, name |-> NoName, pose |-> Identity]

SameId(a, b) == a.id = b.id \* mutation: bones are compared by their id
SameBone(a, b) == a = b

(* std::remove() of the element in slot i from the first n.  The value it compares
   with is a reference to that slot, which the elements it keeps are moved over; a
   bone that was moved has lost its name. *)
RemoveFrom(slots, n, i) ==
  LET first == CHOOSE j \in 1 .. n : /\ SameBone(slots[j], slots[i])
                                     /\ \A h \in 1 .. j - 1 : ~SameBone(slots[h], slots[i])
      scan[j \in first .. n] ==
        IF j = first THEN [slots |-> slots, size |-> first - 1]
        ELSE LET before == scan[j - 1]
                 bone == before.slots[j]
             IN  IF SameBone(bone, before.slots[i]) THEN before
                 ELSE [slots |-> [before.slots EXCEPT ![j].name = NoName, ![before.size + 1] = bone],
                       size |-> before.size + 1]
  IN  scan[n]

(* The loop runs to the end the list had at first, while erase() shortens it. *)
GetBoneDataByName(list, bone_name) ==
  LET visit[i \in 0 .. Len(list)] ==
        IF i = 0 THEN [slots |-> list, size |-> Len(list), bone |-> NoBone]
        ELSE LET before == visit[i - 1]
                 left == RemoveFrom(before.slots, before.size, i)
             IN  IF before.slots[i].name # bone_name THEN before
                 ELSE [slots |-> left.slots, size |-> left.size, bone |-> before.slots[i]]
      end == visit[Len(list)]
  IN  [bone |-> end.bone, list |-> SubSeq(end.slots, 1, end.size)]

-----------------------------------------------------------------------------
(* The chain of motions. *)

(* Half a turn about y, then about z. *)
R_wrist2rh_tracker ==
  <<<<one, zero, zero>>, <<zero, neg(one), zero>>, <<zero, zero, neg(one)>>>>
T_wrist2rh_tracker == makeT([R |-> R_wrist2rh_tracker, t |-> P_wrist2rh_tracker])

ForgetInverse(hand) == makeT(hand.pose) \* mutation: without .inverse()
T_rh_tracker2world(hand) == InverseOf(makeT(hand.pose))

InChest(wrist, hand, chest, position) ==
  LET in_wrist == Apply(makeT(wrist.pose), position)
      in_rh_tracker == Apply(T_wrist2rh_tracker, in_wrist)
      in_world == Apply(T_rh_tracker2world(hand), in_rh_tracker)
  IN  Apply(makeT(chest.pose), in_world)

(* OpenCV moves the point by rvec and tvec before it projects it; it refuses numbers
   of distortion coefficients that no lens model has. *)
ProjectPoints(point, ext) == Apply(ext, point)
LensModel(isFisheye) == IF isFisheye THEN {4} ELSE {0, 4, 5, 8, 12, 14}

(* pose3DTo2D(): into the camera's frame, then to OpenCV, with the extrinsics. *)
InCamera(Pw, ext) == Rotate(Transpose(ext.R), Plus(Pw, Minus(ext.t)))
pose3DTo2D(Pw, ext) == ProjectPoints(InCamera(Pw, ext), ext)
Throws3DTo2D(camera) ==
  camera.IntMat # 9 \/ camera.DistCoeff \notin LensModel(camera.isFisheye)

-----------------------------------------------------------------------------
VARIABLES
  stage,        \* "load", "parse", "lookup", "project", "print", "done", "terminated"
  cameras,      \* the camera entries of the file
  looked,       \* how many of them have been looked at
  camera,       \* what was taken from them
  glove_data,   \* the bones as they came
  tracker_data,
  fingers,      \* the glove's bones that are left to project
  found,        \* the bones looked up: wrist, hand and chest
  u_v           \* the pixels printed

calibrationVars == <<stage, cameras, looked, camera, glove_data, tracker_data, fingers, found, u_v>>

CalibrationInit ==
  /\ stage = "load" /\ cameras = <<>> /\ looked = 0 /\ fingers = <<>> /\ u_v = <<>>
  /\ glove_data \in GloveData /\ tracker_data \in TrackerData
  /\ found = [wrist |-> NoBone, hand |-> NoBone, chest |-> NoBone]
  /\ \E isFisheye \in BOOLEAN : \* never assigned
       camera = [topic |-> "", ext |-> Identity, IntMat |-> 0, DistCoeff |-> 0,
                 ImageSize |-> 0, isFisheye |-> isFisheye]

(* A file that is not there ends the program, as does any other exception. *)
LoadFile ==
  /\ stage = "load"
  /\ \/ stage' = "terminated" /\ UNCHANGED cameras
     \/ stage' = "parse" /\ cameras' \in CameraLists
  /\ UNCHANGED <<looked, camera, glove_data, tracker_data, fingers, found, u_v>>

(* parseCamera(): one entry.  The topic is that of the last entry, whatever it is;
   the rest is that of the last entry that has the topic asked for.  An entry without a
   topic throws, and so does one that was asked for and lacks a field. *)
AnyTopic(entry) == TRUE \* mutation: without the comparison
Requested(entry) == entry.topic = camera_topic
Throws(entry) == ~entry.named \/ (Requested(entry) /\ ~entry.complete)
parseCamera ==
  /\ stage = "parse"
  /\ IF looked = Len(cameras) THEN stage' = "lookup" /\ UNCHANGED <<looked, camera>>
     ELSE LET entry == cameras[looked + 1]
          IN  /\ looked' = looked + 1
              /\ \/ Throws(entry) /\ stage' = "terminated" /\ UNCHANGED camera
                 \/ /\ ~Throws(entry) /\ UNCHANGED stage
                    /\ camera' =
                         IF Requested(entry)
                         THEN [camera EXCEPT !.topic = entry.topic, !.ext = entry.ext,
                                 !.IntMat = entry.IntMat, !.DistCoeff = entry.DistCoeff,
                                 !.ImageSize = entry.ImageSize]
                         ELSE [camera EXCEPT !.topic = entry.topic]
  /\ UNCHANGED <<cameras, glove_data, tracker_data, fingers, found, u_v>>

(* HandleGloveAndTrackerData(): the three bones the motions are made of. *)
LookUp ==
  /\ stage = "lookup" /\ stage' = "project"
  /\ LET glove == GetBoneDataByName(glove_data, "RightHand_Hand")
         right == GetBoneDataByName(tracker_data, "LHR-8FFB7245-right")
         chest == GetBoneDataByName(right.list, "LHR-C8B833F1-chest")
     IN  /\ found' = [wrist |-> glove.bone, hand |-> right.bone, chest |-> chest.bone]
         /\ fingers' = glove.list
  /\ UNCHANGED <<cameras, looked, camera, glove_data, tracker_data, u_v>>

(* One of the bones that are left: to the chest, then into the image. *)
Project ==
  /\ stage = "project"
  /\ \/ fingers = <<>> /\ stage' = "print" /\ UNCHANGED <<fingers, u_v>>
     \/ /\ fingers # <<>> /\ Throws3DTo2D(camera)
        /\ stage' = "terminated" /\ UNCHANGED <<fingers, u_v>>
     \/ /\ fingers # <<>> /\ ~Throws3DTo2D(camera)
        /\ LET Pw == InChest(found.wrist, found.hand, found.chest, Head(fingers).pose.t)
           IN  u_v' = Append(u_v, pose3DTo2D(Pw, camera.ext))
        /\ fingers' = Tail(fingers)
        /\ UNCHANGED stage
  /\ UNCHANGED <<cameras, looked, camera, glove_data, tracker_data, found>>

(* main() prints the camera; imageSize[0] of an empty vector is read through a null
   pointer. *)
PrintCamera ==
  /\ stage = "print"
  /\ stage' = IF camera.ImageSize = 0 THEN "terminated" ELSE "done"
  /\ UNCHANGED <<cameras, looked, camera, glove_data, tracker_data, fingers, found, u_v>>

CalibrationEnded == stage \in {"done", "terminated"} /\ UNCHANGED calibrationVars

CalibrationNext ==
  LoadFile \/ parseCamera \/ LookUp \/ Project \/ PrintCamera \/ CalibrationEnded

CalibrationSpec == CalibrationInit /\ [][CalibrationNext]_calibrationVars

-----------------------------------------------------------------------------
(* Properties. *)

Others ==
  Subsequence(glove_data, {i \in DOMAIN glove_data : glove_data[i].name # "RightHand_Hand"})
Named(list, name) == {i \in DOMAIN list : list[i].name = name}
IsBone(bone, list, name) ==
  \/ bone.name = name /\ \E i \in DOMAIN list : list[i] = bone
  \/ bone = NoBone /\ Named(list, name) = {}

(* Erasing inside the loop loses nothing: each bone looked up is the one of its name,
   also after another was taken from the same list, and every other bone of the glove
   is projected once, in order. *)
BonesLookedUp ==
  stage \in {"project", "print", "done"} =>
    /\ IsBone(found.wrist, glove_data, "RightHand_Hand")
    /\ IsBone(found.hand, tracker_data, "LHR-8FFB7245-right")
    /\ IsBone(found.chest, tracker_data, "LHR-C8B833F1-chest")
    /\ fingers = SubSeq(Others, Len(u_v) + 1, Len(Others))

(* The pixels depend on no frame: they would be the same if the glove had measured from
   another place, turned by any rotation, or the base station of the trackers had
   stood elsewhere. *)
Moved(g, bone) == [bone EXCEPT !.pose.R = Compose(g.R, @), !.pose.t = Apply(g, @)]
FrameIndependent ==
  \A g, w \in Motions, n \in 1 .. Len(u_v) :
    LET Pw == InChest(Moved(g, found.wrist), Moved(w, found.hand), Moved(w, found.chest),
                      Moved(g, Others[n]).pose.t)
    IN  NoBone \in {found.wrist, found.hand, found.chest} \/ u_v[n] = pose3DTo2D(Pw, camera.ext)

(* What is taken from the file is the calibration of the camera asked for, of its last
   entry if it has several, however many other cameras stand before or after it; and
   without an entry nothing is projected.  The topic itself is not part of it: it is
   that of the last entry of the file, whosever it is. *)
CameraRequested ==
  stage \in {"lookup", "project", "print", "done"} =>
    LET mine == {i \in 1 .. Len(cameras) : cameras[i].topic = camera_topic}
    IN  IF mine = {} THEN camera.IntMat = 0 /\ u_v = <<>>
        ELSE \E i \in mine :
               /\ \A j \in mine : j <= i
               /\ cameras[i].complete
               /\ \A field \in {"ext", "IntMat", "DistCoeff", "ImageSize"} :
                    camera[field] = cameras[i][field]

(* "The third step takes the chest's data into the camera's frame, by the camera's
   extrinsics; the fourth takes the data of the camera's frame to the image plane, by
   its intrinsics": a pixel is on the ray of the point in the camera's frame. *)
Across(u, v) == \A i, j \in 1 .. 3 : mul(u[i], v[j]) = mul(u[j], v[i])
ProjectsCameraFrame ==
  \A n \in 1 .. Len(u_v) :
    LET Pw == InChest(found.wrist, found.hand, found.chest, Others[n].pose.t)
    IN  Across(u_v[n], InCamera(Pw, camera.ext))
=============================================================================
