-------------------------- MODULE CalibrationProofs --------------------------
(***************************************************************************)
(* Proofs, for files, bones and points in any number, about the exercises  *)
(* that read a file: the camera that projects, the bones that are looked   *)
(* up, and the trajectory that is drawn.                                   *)
(***************************************************************************)
EXTENDS Calibration, Trajectory, SequenceLemmas

-----------------------------------------------------------------------------
(* The camera. *)

Fields == {"ext", "IntMat", "DistCoeff", "ImageSize"}

(* The camera is what the last entry with its topic among the first n says. *)
FromEntry(i) ==
  /\ cameras[i].complete
  /\ \A field \in Fields : camera[field] = cameras[i][field]
FromLast(n) ==
  \/ /\ \A i \in 1 .. n : cameras[i].topic # camera_topic
     /\ camera.IntMat = 0
  \/ \E i \in 1 .. n :
       /\ cameras[i].topic = camera_topic
       /\ \A j \in 1 .. n : cameras[j].topic = camera_topic => j <= i
       /\ FromEntry(i)

HasFields(c) ==
  c = [topic |-> c.topic, ext |-> c.ext, IntMat |-> c.IntMat, DistCoeff |-> c.DistCoeff,
       ImageSize |-> c.ImageSize, isFisheye |-> c.isFisheye]

(* Nothing is projected before the file was read or by a camera without a matrix. *)
CameraInv ==
  /\ HasFields(camera)
  /\ Len(cameras) \in Nat /\ looked \in 0 .. Len(cameras)
  /\ stage = "load" => looked = 0 /\ camera.IntMat = 0
  /\ stage \in {"load", "parse", "lookup"} => u_v = <<>>
  /\ u_v # <<>> => camera.IntMat = 9
  /\ stage \in {"parse", "lookup", "project", "print", "done"} => FromLast(looked)
  /\ stage \in {"lookup", "project", "print", "done"} => looked = Len(cameras)

LEMMA CameraInit == CalibrationInit => CameraInv
<1> SUFFICES ASSUME CalibrationInit PROVE CameraInv
  OBVIOUS
<1>1. stage = "load" /\ cameras = <<>> /\ looked = 0 /\ u_v = <<>>
  BY DEF CalibrationInit
<1>2. HasFields(camera) /\ camera.IntMat = 0
  <2>1. PICK isFisheye : camera = [topic |-> "", ext |-> Identity, IntMat |-> 0, DistCoeff |-> 0,
                                   ImageSize |-> 0, isFisheye |-> isFisheye]
    BY DEF CalibrationInit
  <2> QED
    BY <2>1 DEF HasFields
<1>3. Len(cameras) \in Nat /\ looked \in 0 .. Len(cameras)
  <2>1. Len(<<>>) = 0
    OBVIOUS
  <2> QED
    BY <1>1, <2>1
<1>4. stage \notin {"parse", "lookup", "project", "print", "done"}
  BY <1>1
<1> QED
  BY <1>1, <1>2, <1>3, <1>4 DEF CameraInv

(* Steps that leave the camera alone. *)
LEMMA CameraFrame ==
  ASSUME CameraInv, UNCHANGED <<cameras, looked, camera>>
  PROVE  /\ \A n : FromLast(n)' = FromLast(n)
         /\ HasFields(camera)'
  BY DEF CameraInv, FromLast, FromEntry

(* One more entry is looked at. *)
LEMMA OneEntry ==
  ASSUME CameraInv, parseCamera
  PROVE  CameraInv'
<1>1. /\ stage = "parse" /\ u_v = <<>> /\ u_v' = u_v /\ cameras' = cameras
      /\ Len(cameras) \in Nat /\ looked \in 0 .. Len(cameras) /\ FromLast(looked)
  BY DEF parseCamera, CameraInv
<1>2. CASE looked = Len(cameras)
  <2>1. stage' = "lookup" /\ UNCHANGED <<cameras, looked, camera>>
    BY <1>2 DEF parseCamera
  <2> QED
    BY <1>1, <1>2, <2>1, CameraFrame DEF CameraInv
<1>3. CASE looked # Len(cameras)
  <2>0. PICK n : n = looked + 1
    OBVIOUS
  <2> DEFINE entry == cameras[n]
  <2>1. /\ n \in Nat /\ looked' = n /\ looked' \in 0 .. Len(cameras)
    BY <1>1, <1>3, <2>0 DEF parseCamera
  <2>5. CASE Throws(entry) /\ stage' = "terminated" /\ UNCHANGED camera
    BY <1>1, <2>1, <2>5 DEF CameraInv, HasFields
  <2>2. CASE ~Requested(entry) /\ ~Throws(entry)
    <3>1. camera' = [camera EXCEPT !.topic = entry.topic] /\ stage' = "parse"
      BY <1>3, <2>0, <2>1, <2>2 DEF parseCamera
    <3>2. /\ HasFields(camera)'
          /\ \A field \in Fields : camera'[field] = camera[field]
          /\ camera'.IntMat = camera.IntMat
      BY <3>1 DEF CameraInv, HasFields, Fields
    <3>3. FromLast(n)'
      <4>1. cameras[n].topic # camera_topic
        BY <2>2 DEF Requested
      <4>2. \A i \in 1 .. n : i \in 1 .. looked \/ i = n
        BY <1>1, <2>0
      <4>3. \A i \in 1 .. looked : FromEntry(i) => FromEntry(i)'
        BY <1>1, <3>2 DEF FromEntry
      <4>4. CASE \A i \in 1 .. looked : cameras[i].topic # camera_topic
        <5>1. camera.IntMat = 0
          BY <1>1, <4>4 DEF FromLast
        <5> QED
          BY <1>1, <3>2, <4>1, <4>2, <4>4, <5>1 DEF FromLast
      <4>5. CASE \E i \in 1 .. looked : cameras[i].topic = camera_topic
        <5>1. PICK i \in 1 .. looked :
                /\ cameras[i].topic = camera_topic
                /\ \A j \in 1 .. looked : cameras[j].topic = camera_topic => j <= i
                /\ FromEntry(i)
          BY <1>1, <4>5 DEF FromLast
        <5>2. /\ i \in 1 .. n /\ FromEntry(i)'
              /\ \A j \in 1 .. n : cameras[j].topic = camera_topic => j <= i
          BY <1>1, <2>0, <4>1, <4>2, <4>3, <5>1
        <5> QED
          BY <1>1, <5>1, <5>2 DEF FromLast
      <4> QED
        BY <4>4, <4>5
    <3>4. FromLast(looked)'
      BY <2>0, <2>1, <3>3
    <3>5. Len(cameras)' \in Nat /\ looked' \in 0 .. Len(cameras)' /\ u_v' = <<>>
      BY <1>1, <2>1
    <3> QED
      BY <3>1, <3>2, <3>4, <3>5 DEF CameraInv
  <2>3. CASE Requested(entry) /\ ~Throws(entry)
    <3>0. entry.complete /\ stage' = "parse"
      BY <1>1, <1>3, <2>0, <2>3 DEF parseCamera, Throws
    <3>1. camera' = [camera EXCEPT !.topic = entry.topic, !.ext = entry.ext,
                       !.IntMat = entry.IntMat, !.DistCoeff = entry.DistCoeff,
                       !.ImageSize = entry.ImageSize]
      BY <1>3, <2>0, <2>3 DEF parseCamera
    <3>2. /\ HasFields(camera)'
          /\ \A field \in Fields : camera'[field] = entry[field]
      BY <3>1 DEF CameraInv, HasFields, Fields
    <3>3. FromLast(n)'
      <4>1. cameras[n].topic = camera_topic
        BY <2>3 DEF Requested
      <4>2. FromEntry(n)'
        BY <1>1, <3>0, <3>2 DEF FromEntry
      <4>3. n \in 1 .. n /\ \A j \in 1 .. n : j <= n
        BY <1>1, <2>0
      <4> QED
        BY <1>1, <4>1, <4>2, <4>3 DEF FromLast
    <3>4. FromLast(looked)'
      BY <2>0, <2>1, <3>3
    <3>5. u_v' = <<>> /\ Len(cameras)' \in Nat /\ looked' \in 0 .. Len(cameras)'
      BY <1>1, <2>1
    <3> QED
      BY <3>0, <3>2, <3>4, <3>5 DEF CameraInv
  <2> QED
    BY <1>1, <1>3, <2>0, <2>2, <2>3, <2>5 DEF parseCamera
<1> QED
  BY <1>2, <1>3

LEMMA CameraStep == CameraInv /\ [CalibrationNext]_calibrationVars => CameraInv'
<1> SUFFICES ASSUME CameraInv, [CalibrationNext]_calibrationVars PROVE CameraInv'
  OBVIOUS
<1>1. CASE LoadFile
  <2>1. UNCHANGED <<looked, camera, u_v>> /\ looked = 0 /\ camera.IntMat = 0 /\ u_v = <<>>
    BY <1>1 DEF LoadFile, CameraInv
  <2>2. /\ stage' \in {"terminated", "parse"}
        /\ Len(cameras') \in Nat
    BY <1>1, CalibrationAssumption DEF LoadFile, CameraInv
  <2>3. FromLast(0)'
    BY <2>1 DEF FromLast
  <2> QED
    BY <2>1, <2>2, <2>3 DEF CameraInv
<1>2. CASE parseCamera
  BY <1>2, OneEntry
<1>3. CASE LookUp
  <2>1. UNCHANGED <<cameras, looked, camera, u_v>> /\ stage = "lookup" /\ stage' = "project"
    BY <1>3 DEF LookUp
  <2> QED
    BY <2>1, CameraFrame DEF CameraInv
<1>4. CASE Project
  <2>1. /\ UNCHANGED <<cameras, looked, camera>> /\ stage = "project"
        /\ stage' \in {"project", "print", "terminated"}
        /\ u_v' = u_v \/ ~Throws3DTo2D(camera)
    BY <1>4 DEF Project
  <2>2. u_v' # <<>> => camera.IntMat = 9
    BY <2>1 DEF Throws3DTo2D, CameraInv
  <2> QED
    BY <2>1, <2>2, CameraFrame DEF CameraInv
<1>5. CASE PrintCamera
  <2>1. /\ UNCHANGED <<cameras, looked, camera, u_v>> /\ stage = "print"
        /\ stage' \in {"done", "terminated"}
    BY <1>5 DEF PrintCamera
  <2> QED
    BY <2>1, CameraFrame DEF CameraInv
<1>6. CASE UNCHANGED calibrationVars
  <2>1. UNCHANGED <<cameras, looked, camera, u_v, stage>>
    BY <1>6 DEF calibrationVars
  <2> QED
    BY <2>1, CameraFrame DEF CameraInv
<1> QED
  BY <1>1, <1>2, <1>3, <1>4, <1>5, <1>6 DEF CalibrationNext, CalibrationEnded

LEMMA CameraImplied == CameraInv => CameraRequested
<1> SUFFICES ASSUME CameraInv, stage \in {"lookup", "project", "print", "done"}
             PROVE  CameraRequested
  BY DEF CameraRequested
<1>1. FromLast(Len(cameras)) /\ (u_v # <<>> => camera.IntMat = 9)
  BY DEF CameraInv
<1>2. CASE \A i \in 1 .. Len(cameras) : cameras[i].topic # camera_topic
  <2>1. camera.IntMat = 0
    BY <1>1, <1>2 DEF FromLast
  <2> QED
    BY <1>1, <1>2, <2>1 DEF CameraRequested
<1>3. CASE \E i \in 1 .. Len(cameras) : cameras[i].topic = camera_topic
  BY <1>1, <1>3 DEF CameraRequested, FromLast, FromEntry, Fields
<1> QED
  BY <1>2, <1>3

(* Whatever cameras a calibration file lists, in any number and order, the one that
   projects is the last of the topic asked for, with all of its fields; and if
   there is none nothing is projected. *)
THEOREM CameraFromRequest == CalibrationSpec => []CameraRequested
<1> QED
  BY CameraInit, CameraStep, CameraImplied, PTL DEF CalibrationSpec

-----------------------------------------------------------------------------
(* The ring of the coordinates. *)
LEMMA RingTypes ==
  ASSUME NEW a \in Scalars, NEW b \in Scalars
  PROVE  add(a, b) \in Scalars /\ mul(a, b) \in Scalars /\ neg(a) \in Scalars
BY RingAssumption

LEMMA RingCommutes ==
  ASSUME NEW a \in Scalars, NEW b \in Scalars
  PROVE  add(a, b) = add(b, a) /\ mul(a, b) = mul(b, a)
BY RingAssumption

LEMMA RingAssociates ==
  ASSUME NEW a \in Scalars, NEW b \in Scalars, NEW c \in Scalars
  PROVE  add(add(a, b), c) = add(a, add(b, c)) /\ mul(mul(a, b), c) = mul(a, mul(b, c))
BY RingAssumption

LEMMA RingDistributes ==
  ASSUME NEW a \in Scalars, NEW b \in Scalars, NEW c \in Scalars
  PROVE  mul(a, add(b, c)) = add(mul(a, b), mul(a, c)) /\ mul(add(b, c), a) = add(mul(b, a), mul(c, a))
<1>1. mul(a, add(b, c)) = add(mul(a, b), mul(a, c))
  BY RingAssumption
<1>2. add(b, c) \in Scalars
  BY RingTypes
<1> QED
  BY <1>1, <1>2, RingCommutes

LEMMA RingUnits ==
  ASSUME NEW a \in Scalars
  PROVE  add(a, zero) = a /\ add(zero, a) = a /\ add(a, neg(a)) = zero /\ add(neg(a), a) = zero
         /\ mul(a, one) = a /\ mul(one, a) = a
<1>1. /\ zero \in Scalars /\ one \in Scalars /\ neg(a) \in Scalars
      /\ add(a, zero) = a /\ add(a, neg(a)) = zero /\ mul(a, one) = a
  BY RingAssumption
<1> QED
  BY <1>1, RingCommutes

(* What vanishes when it is added to a is the negative of a. *)
LEMMA NegativeOf ==
  ASSUME NEW a \in Scalars, NEW b \in Scalars, add(a, b) = zero
  PROVE  b = neg(a)
<1>1. neg(a) \in Scalars
  BY RingTypes
<1>2. add(neg(a), add(a, b)) = neg(a)
  BY <1>1, RingUnits
<1>3. add(add(neg(a), a), b) = b
  BY RingUnits
<1> QED
  BY <1>1, <1>2, <1>3, RingAssociates

LEMMA TimesZero ==
  ASSUME NEW a \in Scalars
  PROVE  mul(a, zero) = zero /\ mul(zero, a) = zero
<1>1. zero \in Scalars
  BY RingAssumption
<1>2. PICK x \in Scalars : x = mul(a, zero)
  BY <1>1, RingTypes
<1>3. add(x, x) = x
  <2>1. add(zero, zero) = zero
    BY <1>1, RingUnits
  <2> QED
    BY <1>1, <1>2, <2>1, RingDistributes
<1>4. neg(x) \in Scalars
  BY RingTypes
<1>5. add(add(x, x), neg(x)) = add(x, add(x, neg(x)))
  BY <1>4, RingAssociates
<1>6. x = zero
  BY <1>3, <1>5, RingUnits
<1> QED
  BY <1>1, <1>2, <1>6, RingCommutes

LEMMA FourSums ==
  ASSUME NEW a \in Scalars, NEW b \in Scalars, NEW c \in Scalars, NEW d \in Scalars
  PROVE  add(add(a, b), add(c, d)) = add(add(a, c), add(b, d))
<1>1. PICK x \in Scalars, y \in Scalars, z \in Scalars : x = add(c, d) /\ y = add(b, d) /\ z = add(b, c)
  BY RingTypes
<1>2. add(add(a, b), x) = add(a, add(b, x))
  BY RingAssociates
<1>3. add(b, x) = add(z, d)
  BY <1>1, RingAssociates
<1>4. z = add(c, b)
  BY <1>1, RingCommutes
<1>5. add(z, d) = add(c, y)
  BY <1>1, <1>4, RingAssociates
<1>6. add(a, add(c, y)) = add(add(a, c), y)
  BY RingAssociates
<1> QED
  BY <1>1, <1>2, <1>3, <1>5, <1>6

LEMMA NegativeSum ==
  ASSUME NEW a \in Scalars, NEW b \in Scalars
  PROVE  neg(add(a, b)) = add(neg(a), neg(b)) /\ mul(a, neg(b)) = neg(mul(a, b)) /\ neg(neg(a)) = a
<1>1. PICK x \in Scalars, y \in Scalars : x = neg(a) /\ y = neg(b)
  BY RingTypes
<1>2. neg(add(a, b)) = add(x, y)
  <2>1. add(add(a, b), add(x, y)) = add(add(a, x), add(b, y))
    BY FourSums
  <2>2. add(a, x) = zero /\ add(b, y) = zero /\ add(zero, zero) = zero
    BY <1>1, RingUnits, RingAssumption
  <2>3. add(a, b) \in Scalars /\ add(x, y) \in Scalars
    BY RingTypes
  <2> QED
    BY <2>1, <2>2, <2>3, NegativeOf
<1>3. mul(a, y) = neg(mul(a, b))
  <2>1. mul(a, add(b, y)) = add(mul(a, b), mul(a, y))
    BY RingDistributes
  <2>2. add(b, y) = zero /\ mul(a, zero) = zero
    BY <1>1, RingUnits, TimesZero
  <2>3. mul(a, b) \in Scalars /\ mul(a, y) \in Scalars
    BY RingTypes
  <2> QED
    BY <2>1, <2>2, <2>3, NegativeOf
<1>4. neg(x) = a
  <2>1. add(x, a) = zero
    BY <1>1, RingUnits
  <2> QED
    BY <2>1, NegativeOf
<1> QED
  BY <1>1, <1>2, <1>3, <1>4

-----------------------------------------------------------------------------
(* Rigid motions. *)
Matrices == [1 .. 3 -> Positions]

LEMMA PositionIs ==
  ASSUME NEW u \in Positions
  PROVE  u[1] \in Scalars /\ u[2] \in Scalars /\ u[3] \in Scalars
BY DEF Positions

LEMMA PositionsSame ==
  ASSUME NEW u \in Positions, NEW v \in Positions, u[1] = v[1], u[2] = v[2], u[3] = v[3]
  PROVE  u = v
BY DEF Positions

LEMMA TripleType ==
  ASSUME NEW a \in Scalars, NEW b \in Scalars, NEW c \in Scalars
  PROVE  <<a, b, c>> \in Positions
BY DEF Positions

LEMMA RowsAre ==
  ASSUME NEW A \in Matrices
  PROVE  A[1] \in Positions /\ A[2] \in Positions /\ A[3] \in Positions
BY DEF Matrices

LEMMA ColumnType ==
  ASSUME NEW A \in Matrices, NEW j \in 1 .. 3
  PROVE  <<A[1][j], A[2][j], A[3][j]>> \in Positions
BY DEF Matrices, Positions

LEMMA DotType ==
  ASSUME NEW u \in Positions, NEW v \in Positions
  PROVE  Dot(u, v) \in Scalars
<1>1. PICK x \in Scalars, y \in Scalars, z \in Scalars :
        x = mul(u[1], v[1]) /\ y = mul(u[2], v[2]) /\ z = mul(u[3], v[3])
  BY PositionIs, RingTypes
<1>2. add(add(x, y), z) \in Scalars
  BY RingTypes
<1> QED
  BY <1>1, <1>2 DEF Dot

LEMMA PositionTypes ==
  ASSUME NEW u \in Positions, NEW v \in Positions, NEW A \in Matrices
  PROVE  Plus(u, v) \in Positions /\ Minus(u) \in Positions /\ Rotate(A, u) \in Positions
<1>1. Plus(u, v) \in Positions
  BY PositionIs, RingTypes, TripleType DEF Plus
<1>2. Minus(u) \in Positions
  BY PositionIs, RingTypes, TripleType DEF Minus
<1>3. Dot(A[1], u) \in Scalars /\ Dot(A[2], u) \in Scalars /\ Dot(A[3], u) \in Scalars
  BY DotType, RowsAre
<1> QED
  BY <1>1, <1>2, <1>3, TripleType DEF Rotate

LEMMA MatrixTypes ==
  ASSUME NEW A \in Matrices, NEW B \in Matrices
  PROVE  Transpose(A) \in Matrices /\ Compose(A, B) \in Matrices
<1>1. \A i \in 1 .. 3 : <<A[1][i], A[2][i], A[3][i]>> \in Positions
  BY ColumnType
<1>2. Transpose(A) \in Matrices
  BY <1>1 DEF Transpose, Matrices
<1>3. \A i, j \in 1 .. 3 : Dot(A[i], <<B[1][j], B[2][j], B[3][j]>>) \in Scalars
  <2> SUFFICES ASSUME NEW i \in 1 .. 3, NEW j \in 1 .. 3
               PROVE  Dot(A[i], <<B[1][j], B[2][j], B[3][j]>>) \in Scalars
    OBVIOUS
  <2>1. A[i] \in Positions
    BY DEF Matrices
  <2> QED
    BY <2>1, ColumnType, DotType
<1>4. \A i \in 1 .. 3 : [j \in 1 .. 3 |-> Dot(A[i], <<B[1][j], B[2][j], B[3][j]>>)] \in Positions
  BY <1>3 DEF Positions
<1>5. Compose(A, B) \in Matrices
  BY <1>4 DEF Compose, Matrices
<1> QED
  BY <1>2, <1>5

(* Sums. *)
LEMMA DotLinear ==
  ASSUME NEW r \in Positions, NEW u \in Positions, NEW v \in Positions
  PROVE  Dot(r, Plus(u, v)) = add(Dot(r, u), Dot(r, v)) /\ Dot(r, Minus(u)) = neg(Dot(r, u))
<1>1. PICK x \in [1 .. 3 -> Scalars], y \in [1 .. 3 -> Scalars] :
        x = [i \in 1 .. 3 |-> mul(r[i], u[i])] /\ y = [i \in 1 .. 3 |-> mul(r[i], v[i])]
  BY RingTypes DEF Positions
<1>2. Dot(r, u) = add(add(x[1], x[2]), x[3]) /\ Dot(r, v) = add(add(y[1], y[2]), y[3])
  BY <1>1 DEF Dot
<1>3. PICK x1 \in Scalars, x2 \in Scalars, x3 \in Scalars, y1 \in Scalars, y2 \in Scalars, y3 \in Scalars :
        x1 = x[1] /\ x2 = x[2] /\ x3 = x[3] /\ y1 = y[1] /\ y2 = y[2] /\ y3 = y[3]
  OBVIOUS
<1>4. Dot(r, Plus(u, v)) = add(add(add(x1, y1), add(x2, y2)), add(x3, y3))
  <2>1. \A i \in 1 .. 3 : mul(r[i], add(u[i], v[i])) = add(x[i], y[i])
    BY <1>1, RingDistributes DEF Positions
  <2>2. /\ Plus(u, v)[1] = add(u[1], v[1]) /\ Plus(u, v)[2] = add(u[2], v[2])
        /\ Plus(u, v)[3] = add(u[3], v[3])
    BY DEF Plus
  <2> QED
    BY <1>3, <2>1, <2>2 DEF Dot
<1>5. add(add(add(x1, y1), add(x2, y2)), add(x3, y3)) = add(Dot(r, u), Dot(r, v))
  <2>1. PICK s \in Scalars, t \in Scalars : s = add(x1, x2) /\ t = add(y1, y2)
    BY RingTypes
  <2>2. add(add(x1, y1), add(x2, y2)) = add(s, t)
    BY <2>1, FourSums
  <2>3. add(add(s, t), add(x3, y3)) = add(add(s, x3), add(t, y3))
    BY FourSums
  <2> QED
    BY <1>2, <1>3, <2>1, <2>2, <2>3
<1>6. Dot(r, Minus(u)) = neg(Dot(r, u))
  <2>1. \A i \in 1 .. 3 : mul(r[i], neg(u[i])) = neg(x[i])
    BY <1>1, NegativeSum DEF Positions
  <2>2. Minus(u)[1] = neg(u[1]) /\ Minus(u)[2] = neg(u[2]) /\ Minus(u)[3] = neg(u[3])
    BY DEF Minus
  <2>3. Dot(r, Minus(u)) = add(add(neg(x1), neg(x2)), neg(x3))
    BY <1>3, <2>1, <2>2 DEF Dot
  <2>4. PICK s \in Scalars : s = add(x1, x2) /\ neg(s) = add(neg(x1), neg(x2))
    BY RingTypes, NegativeSum
  <2>5. neg(add(s, x3)) = add(neg(s), neg(x3))
    BY NegativeSum
  <2> QED
    BY <1>2, <1>3, <2>3, <2>4, <2>5
<1> QED
  BY <1>4, <1>5, <1>6

LEMMA RotateLinear ==
  ASSUME NEW A \in Matrices, NEW u \in Positions, NEW v \in Positions
  PROVE  /\ Rotate(A, Plus(u, v)) = Plus(Rotate(A, u), Rotate(A, v))
         /\ Rotate(A, Minus(u)) = Minus(Rotate(A, u))
<1>1. \A i \in {1, 2, 3} : /\ Dot(A[i], Plus(u, v)) = add(Dot(A[i], u), Dot(A[i], v))
                           /\ Dot(A[i], Minus(u)) = neg(Dot(A[i], u))
  BY RowsAre, DotLinear
<1>2. Rotate(A, u)[1] = Dot(A[1], u) /\ Rotate(A, u)[2] = Dot(A[2], u) /\ Rotate(A, u)[3] = Dot(A[3], u)
  BY DEF Rotate
<1>3. Rotate(A, v)[1] = Dot(A[1], v) /\ Rotate(A, v)[2] = Dot(A[2], v) /\ Rotate(A, v)[3] = Dot(A[3], v)
  BY DEF Rotate
<1>4. Rotate(A, Plus(u, v)) =
        <<add(Dot(A[1], u), Dot(A[1], v)), add(Dot(A[2], u), Dot(A[2], v)),
          add(Dot(A[3], u), Dot(A[3], v))>>
  BY <1>1 DEF Rotate
<1>5. Rotate(A, Minus(u)) = <<neg(Dot(A[1], u)), neg(Dot(A[2], u)), neg(Dot(A[3], u))>>
  BY <1>1 DEF Rotate
<1> QED
  BY <1>2, <1>3, <1>4, <1>5 DEF Plus, Minus

(* Products. *)
Scaled(k, u) == <<mul(k, u[1]), mul(k, u[2]), mul(k, u[3])>>

LEMMA DotScaled ==
  ASSUME NEW r \in Positions, NEW k \in Scalars, NEW u \in Positions
  PROVE  Scaled(k, u) \in Positions /\ Dot(r, Scaled(k, u)) = mul(Dot(r, u), k)
<1>1. PICK x1 \in Scalars, x2 \in Scalars, x3 \in Scalars :
        x1 = mul(r[1], u[1]) /\ x2 = mul(r[2], u[2]) /\ x3 = mul(r[3], u[3])
  BY PositionIs, RingTypes
<1>2. ASSUME NEW a \in Scalars, NEW b \in Scalars PROVE mul(a, mul(k, b)) = mul(mul(a, b), k)
  <2>1. mul(k, b) = mul(b, k)
    BY RingCommutes
  <2> QED
    BY <2>1, RingAssociates
<1>3. Dot(r, Scaled(k, u)) = add(add(mul(x1, k), mul(x2, k)), mul(x3, k))
  <2>1. /\ Scaled(k, u)[1] = mul(k, u[1]) /\ Scaled(k, u)[2] = mul(k, u[2])
        /\ Scaled(k, u)[3] = mul(k, u[3])
    BY DEF Scaled
  <2> QED
    BY <1>1, <1>2, <2>1, PositionIs DEF Dot
<1>4. PICK s \in Scalars : s = add(x1, x2) /\ mul(s, k) = add(mul(x1, k), mul(x2, k))
  <2>1. add(x1, x2) \in Scalars
    BY RingTypes
  <2>2. mul(add(x1, x2), k) = add(mul(x1, k), mul(x2, k))
    BY RingDistributes
  <2> QED
    BY <2>1, <2>2
<1>5. mul(add(s, x3), k) = add(mul(s, k), mul(x3, k))
  BY RingDistributes
<1>6. Dot(r, u) = add(s, x3)
  BY <1>1, <1>4 DEF Dot
<1>7. Scaled(k, u) \in Positions
  BY PositionIs, RingTypes, TripleType DEF Scaled
<1> QED
  BY <1>3, <1>4, <1>5, <1>6, <1>7

LEMMA DotRotate ==
  ASSUME NEW r \in Positions, NEW B \in Matrices, NEW v \in Positions
  PROVE  Dot(r, Rotate(B, v)) =
           Dot(<<Dot(r, <<B[1][1], B[2][1], B[3][1]>>), Dot(r, <<B[1][2], B[2][2], B[3][2]>>),
                 Dot(r, <<B[1][3], B[2][3], B[3][3]>>)>>, v)
<1>1. PICK c1 \in Positions, c2 \in Positions, c3 \in Positions :
        /\ c1 = <<B[1][1], B[2][1], B[3][1]>>
        /\ c2 = <<B[1][2], B[2][2], B[3][2]>>
        /\ c3 = <<B[1][3], B[2][3], B[3][3]>>
  <2>1. 1 \in 1 .. 3 /\ 2 \in 1 .. 3 /\ 3 \in 1 .. 3
    OBVIOUS
  <2> QED
    BY <2>1, ColumnType
<1>2. v[1] \in Scalars /\ v[2] \in Scalars /\ v[3] \in Scalars
  BY PositionIs
<1>3. PICK s1 \in Positions, s2 \in Positions, s3 \in Positions :
        s1 = Scaled(v[1], c1) /\ s2 = Scaled(v[2], c2) /\ s3 = Scaled(v[3], c3)
  BY <1>2, DotScaled
<1>4. PICK t \in Positions : t = Plus(s1, s2)
  BY PositionTypes
<1>5. Rotate(B, v) = Plus(t, s3)
  <2>1. ASSUME NEW i \in {1, 2, 3}
        PROVE  add(add(s1[i], s2[i]), s3[i]) = Dot(B[i], v)
    <3>1. B[i][1] \in Scalars /\ B[i][2] \in Scalars /\ B[i][3] \in Scalars
      BY <2>1, PositionIs, RowsAre
    <3>2. s1[i] = mul(v[1], B[i][1]) /\ s2[i] = mul(v[2], B[i][2]) /\ s3[i] = mul(v[3], B[i][3])
      BY <1>1, <1>3, <2>1 DEF Scaled
    <3> QED
      BY <1>2, <3>1, <3>2, RingCommutes DEF Dot
  <2>2. /\ t[1] = add(s1[1], s2[1]) /\ t[2] = add(s1[2], s2[2]) /\ t[3] = add(s1[3], s2[3])
    BY <1>4 DEF Plus
  <2> QED
    BY <2>1, <2>2 DEF Rotate, Plus
<1>6. Dot(r, Plus(t, s3)) = add(add(Dot(r, s1), Dot(r, s2)), Dot(r, s3))
  BY <1>4, DotLinear
<1>7. /\ Dot(r, s1) = mul(Dot(r, c1), v[1]) /\ Dot(r, s2) = mul(Dot(r, c2), v[2])
      /\ Dot(r, s3) = mul(Dot(r, c3), v[3])
  BY <1>2, <1>3, DotScaled
<1>8. PICK d : d = <<Dot(r, c1), Dot(r, c2), Dot(r, c3)>>
  OBVIOUS
<1>9. Dot(d, v) = add(add(mul(Dot(r, c1), v[1]), mul(Dot(r, c2), v[2])), mul(Dot(r, c3), v[3]))
  <2>1. d[1] = Dot(r, c1) /\ d[2] = Dot(r, c2) /\ d[3] = Dot(r, c3)
    BY <1>8
  <2> QED
    BY <2>1 DEF Dot
<1> QED
  BY <1>1, <1>5, <1>6, <1>7, <1>8, <1>9

LEMMA RotateCompose ==
  ASSUME NEW A \in Matrices, NEW B \in Matrices, NEW v \in Positions
  PROVE  Rotate(Compose(A, B), v) = Rotate(A, Rotate(B, v))
<1>1. ASSUME NEW i \in {1, 2, 3} PROVE Dot(Compose(A, B)[i], v) = Dot(A[i], Rotate(B, v))
  <2>1. PICK r \in Positions : r = A[i]
    BY <1>1, RowsAre
  <2>2. PICK u : u = <<Dot(r, <<B[1][1], B[2][1], B[3][1]>>), Dot(r, <<B[1][2], B[2][2], B[3][2]>>),
                       Dot(r, <<B[1][3], B[2][3], B[3][3]>>)>>
    OBVIOUS
  <2>3. Dot(r, Rotate(B, v)) = Dot(u, v)
    BY <2>2, DotRotate
  <2>4. Compose(A, B)[i] = [j \in 1 .. 3 |-> Dot(r, <<B[1][j], B[2][j], B[3][j]>>)]
    BY <1>1, <2>1 DEF Compose
  <2>5. Compose(A, B)[i][1] = u[1] /\ Compose(A, B)[i][2] = u[2] /\ Compose(A, B)[i][3] = u[3]
    BY <2>2, <2>4
  <2> QED
    BY <2>1, <2>3, <2>5 DEF Dot
<1> QED
  BY <1>1 DEF Rotate

LEMMA DotCommutes ==
  ASSUME NEW u \in Positions, NEW v \in Positions
  PROVE  Dot(u, v) = Dot(v, u)
BY PositionIs, RingCommutes DEF Dot

LEMMA TransposeCompose ==
  ASSUME NEW A \in Matrices, NEW B \in Matrices
  PROVE  Transpose(Compose(A, B)) = Compose(Transpose(B), Transpose(A))
<1>1. PICK C \in Matrices, D \in Matrices : C = Transpose(A) /\ D = Transpose(B)
  BY MatrixTypes
<1>2. ASSUME NEW i \in {1, 2, 3}, NEW j \in {1, 2, 3} PROVE Compose(A, B)[j][i] = Compose(D, C)[i][j]
  <2>1. Compose(A, B)[j][i] = Dot(A[j], <<B[1][i], B[2][i], B[3][i]>>)
    BY <1>2 DEF Compose
  <2>2. Compose(D, C)[i][j] = Dot(D[i], <<C[1][j], C[2][j], C[3][j]>>)
    BY <1>2 DEF Compose
  <2>3. D[i] = <<B[1][i], B[2][i], B[3][i]>>
    BY <1>1, <1>2 DEF Transpose
  <2>4. C[1][j] = A[j][1] /\ C[2][j] = A[j][2] /\ C[3][j] = A[j][3]
    BY <1>1, <1>2 DEF Transpose
  <2>5. A[j] \in Positions /\ D[i] \in Positions
    BY <1>2, RowsAre
  <2>6. <<C[1][j], C[2][j], C[3][j]>> = A[j]
    <3>1. PICK u \in Positions : u = A[j]
      BY <2>5
    <3>2. <<u[1], u[2], u[3]>> \in Positions
      BY PositionIs, TripleType
    <3>3. <<u[1], u[2], u[3]>> = u
      BY <3>2, PositionsSame
    <3> QED
      BY <2>4, <3>1, <3>3
  <2> QED
    BY <2>1, <2>2, <2>3, <2>5, <2>6, DotCommutes
<1>3. PICK P \in Matrices, Q \in Matrices : P = Compose(A, B) /\ Q = Compose(D, C)
  BY MatrixTypes
<1>4. \A i \in 1 .. 3 : <<P[1][i], P[2][i], P[3][i]>> = Q[i]
  <2> SUFFICES ASSUME NEW i \in {1, 2, 3} PROVE <<P[1][i], P[2][i], P[3][i]>> = Q[i]
    OBVIOUS
  <2>1. Q[i] \in Positions
    BY RowsAre
  <2>2. <<P[1][i], P[2][i], P[3][i]>> \in Positions
    <3>1. i \in 1 .. 3
      OBVIOUS
    <3> QED
      BY <3>1, ColumnType
  <2>3. P[1][i] = Q[i][1] /\ P[2][i] = Q[i][2] /\ P[3][i] = Q[i][3]
    BY <1>2, <1>3
  <2> QED
    BY <2>1, <2>2, <2>3, PositionsSame
<1>5. Transpose(P) = Q
  BY <1>4 DEF Transpose, Matrices
<1> QED
  BY <1>1, <1>3, <1>5

LEMMA TransposeTwice ==
  ASSUME NEW A \in Matrices
  PROVE  Transpose(Transpose(A)) = A
<1>1. PICK C \in Matrices : C = Transpose(A)
  BY MatrixTypes
<1>2. \A i \in 1 .. 3 : <<C[1][i], C[2][i], C[3][i]>> = A[i]
  <2> SUFFICES ASSUME NEW i \in {1, 2, 3} PROVE <<C[1][i], C[2][i], C[3][i]>> = A[i]
    OBVIOUS
  <2>1. A[i] \in Positions
    BY RowsAre
  <2>2. <<C[1][i], C[2][i], C[3][i]>> \in Positions
    <3>1. i \in 1 .. 3
      OBVIOUS
    <3> QED
      BY <3>1, ColumnType
  <2>3. C[1][i] = A[i][1] /\ C[2][i] = A[i][2] /\ C[3][i] = A[i][3]
    BY <1>1 DEF Transpose
  <2> QED
    BY <2>1, <2>2, <2>3, PositionsSame
<1>3. Transpose(C) = A
  BY <1>2 DEF Transpose, Matrices
<1> QED
  BY <1>1, <1>3

LEMMA RotateIdentity ==
  ASSUME NEW v \in Positions
  PROVE  Rotate(Identity.R, v) = v
<1>1. ASSUME NEW a \in Scalars, NEW b \in Scalars, NEW c \in Scalars
      PROVE  /\ add(add(mul(one, a), mul(zero, b)), mul(zero, c)) = a
             /\ add(add(mul(zero, a), mul(one, b)), mul(zero, c)) = b
             /\ add(add(mul(zero, a), mul(zero, b)), mul(one, c)) = c
  <2>1. /\ mul(one, a) = a /\ mul(one, b) = b /\ mul(one, c) = c
        /\ mul(zero, a) = zero /\ mul(zero, b) = zero /\ mul(zero, c) = zero
    BY RingUnits, TimesZero
  <2>2. /\ add(a, zero) = a /\ add(zero, b) = b /\ add(b, zero) = b /\ add(zero, c) = c
        /\ add(zero, zero) = zero
    BY RingUnits, RingAssumption
  <2> QED
    BY <2>1, <2>2
<1>2. /\ Identity.R[1] = <<one, zero, zero>> /\ Identity.R[2] = <<zero, one, zero>>
      /\ Identity.R[3] = <<zero, zero, one>>
  BY DEF Identity
<1>3. Rotate(Identity.R, v) = <<v[1], v[2], v[3]>>
  <2>1. v[1] \in Scalars /\ v[2] \in Scalars /\ v[3] \in Scalars
    BY PositionIs
  <2>2. /\ Dot(<<one, zero, zero>>, v) = v[1] /\ Dot(<<zero, one, zero>>, v) = v[2]
        /\ Dot(<<zero, zero, one>>, v) = v[3]
    BY <1>1, <2>1 DEF Dot
  <2> QED
    BY <1>2, <2>2 DEF Rotate
<1>4. <<v[1], v[2], v[3]>> \in Positions
  BY PositionIs, TripleType
<1> QED
  BY <1>3, <1>4, PositionsSame

(* A rotation and its transpose undo each other. *)
IsTurn(R) ==
  /\ R \in Matrices
  /\ \A v \in Positions : Rotate(R, Rotate(Transpose(R), v)) = v /\ Rotate(Transpose(R), Rotate(R, v)) = v

LEMMA RotationTurns ==
  ASSUME NEW R \in Matrices, IsRotation(R)
  PROVE  IsTurn(R)
<1>1. PICK B \in Matrices : B = Transpose(R)
  BY MatrixTypes
<1>2. Compose(R, B) = Identity.R /\ Compose(B, R) = Identity.R
  BY <1>1 DEF IsRotation
<1>3. ASSUME NEW v \in Positions PROVE Rotate(R, Rotate(B, v)) = v /\ Rotate(B, Rotate(R, v)) = v
  <2>1. Rotate(R, Rotate(B, v)) = Rotate(Identity.R, v)
    BY <1>2, RotateCompose
  <2>2. Rotate(B, Rotate(R, v)) = Rotate(Identity.R, v)
    BY <1>2, RotateCompose
  <2> QED
    BY <2>1, <2>2, RotateIdentity
<1> QED
  BY <1>1, <1>3 DEF IsTurn

LEMMA TurnsCompose ==
  ASSUME NEW A, IsTurn(A), NEW B, IsTurn(B)
  PROVE  IsTurn(Compose(A, B))
<1>1. A \in Matrices /\ B \in Matrices
  BY DEF IsTurn
<1>2. PICK C \in Matrices, D \in Matrices : C = Transpose(A) /\ D = Transpose(B)
  BY <1>1, MatrixTypes
<1>3. PICK P \in Matrices : P = Compose(A, B)
  BY <1>1, MatrixTypes
<1>4. Transpose(P) = Compose(D, C)
  BY <1>1, <1>2, <1>3, TransposeCompose
<1>5. ASSUME NEW v \in Positions
      PROVE  Rotate(P, Rotate(Compose(D, C), v)) = v /\ Rotate(Compose(D, C), Rotate(P, v)) = v
  <2>1. PICK x \in Positions, y \in Positions : x = Rotate(C, v) /\ y = Rotate(D, x)
    BY PositionTypes
  <2>2. Rotate(P, y) = Rotate(A, Rotate(B, y)) /\ Rotate(Compose(D, C), v) = y
    BY <1>1, <1>3, <2>1, RotateCompose
  <2>3. Rotate(B, y) = x /\ Rotate(A, x) = v
    BY <1>2, <2>1 DEF IsTurn
  <2>4. PICK z \in Positions, w \in Positions : z = Rotate(B, v) /\ w = Rotate(A, z)
    BY <1>1, PositionTypes
  <2>5. Rotate(P, v) = w
    BY <1>1, <1>3, <2>4, RotateCompose
  <2>6. Rotate(Compose(D, C), w) = Rotate(D, Rotate(C, w))
    BY RotateCompose
  <2>7. Rotate(C, w) = z /\ Rotate(D, z) = v
    BY <1>2, <2>4 DEF IsTurn
  <2> QED
    BY <2>2, <2>3, <2>5, <2>6, <2>7
<1> QED
  BY <1>3, <1>4, <1>5 DEF IsTurn

(* Motions, and one after another. *)
IsMotion(T) == T \in Poses /\ IsTurn(T.R)
After(g, T) == [R |-> Compose(g.R, T.R), t |-> Apply(g, T.t)]

LEMMA MotionParts ==
  ASSUME NEW T, IsMotion(T)
  PROVE  T.R \in Matrices /\ T.t \in Positions /\ T = [R |-> T.R, t |-> T.t]
BY DEF IsMotion, Poses, Matrices

LEMMA ApplyType ==
  ASSUME NEW T, IsMotion(T), NEW v \in Positions
  PROVE  Apply(T, v) \in Positions
<1>1. T.R \in Matrices /\ T.t \in Positions
  BY MotionParts
<1>2. Rotate(T.R, v) \in Positions
  BY <1>1, PositionTypes
<1> QED
  BY <1>1, <1>2, PositionTypes DEF Apply

LEMMA AfterMotion ==
  ASSUME NEW g, IsMotion(g), NEW T, IsMotion(T)
  PROVE  IsMotion(After(g, T))
<1>1. IsTurn(Compose(g.R, T.R))
  BY TurnsCompose DEF IsMotion
<1>2. Apply(g, T.t) \in Positions
  BY ApplyType, MotionParts
<1> QED
  BY <1>1, <1>2 DEF IsMotion, After, IsTurn, Poses, Matrices

LEMMA SumsOfPositions ==
  ASSUME NEW u \in Positions, NEW v \in Positions, NEW w \in Positions
  PROVE  /\ Plus(Plus(u, v), w) = Plus(u, Plus(v, w))
         /\ Plus(Plus(u, w), Minus(Plus(v, w))) = Plus(u, Minus(v))
         /\ Minus(Minus(u)) = u
<1>1. \A p \in Positions : p[1] \in Scalars /\ p[2] \in Scalars /\ p[3] \in Scalars
  BY PositionIs
<1>2. Plus(Plus(u, v), w) = Plus(u, Plus(v, w))
  <2>1. \A i \in {1, 2, 3} : add(add(u[i], v[i]), w[i]) = add(u[i], add(v[i], w[i]))
    BY <1>1, RingAssociates
  <2> QED
    BY <2>1 DEF Plus
<1>3. Plus(Plus(u, w), Minus(Plus(v, w))) = Plus(u, Minus(v))
  <2>1. ASSUME NEW a \in Scalars, NEW b \in Scalars, NEW c \in Scalars
        PROVE  add(add(a, c), neg(add(b, c))) = add(a, neg(b))
    <3>1. PICK x \in Scalars, y \in Scalars : x = neg(b) /\ y = neg(c)
      BY RingTypes
    <3>2. neg(add(b, c)) = add(x, y)
      BY <3>1, NegativeSum
    <3>3. add(add(a, c), add(x, y)) = add(add(a, x), add(c, y))
      BY FourSums
    <3>4. add(c, y) = zero /\ add(a, x) \in Scalars
      BY <3>1, RingUnits, RingTypes
    <3>5. add(add(a, x), zero) = add(a, x)
      BY <3>4, RingUnits
    <3> QED
      BY <3>1, <3>2, <3>3, <3>4, <3>5
  <2>2. \A i \in {1, 2, 3} : add(add(u[i], w[i]), neg(add(v[i], w[i]))) = add(u[i], neg(v[i]))
    BY <1>1, <2>1
  <2> QED
    BY <2>2 DEF Plus, Minus
<1>4. Minus(Minus(u)) = u
  <2>1. neg(neg(u[1])) = u[1] /\ neg(neg(u[2])) = u[2] /\ neg(neg(u[3])) = u[3]
    BY <1>1, NegativeSum
  <2>2. Minus(Minus(u)) = <<u[1], u[2], u[3]>>
    BY <2>1 DEF Minus
  <2>3. <<u[1], u[2], u[3]>> \in Positions
    BY <1>1, TripleType
  <2> QED
    BY <2>2, <2>3, PositionsSame
<1> QED
  BY <1>2, <1>3, <1>4

(* What a motion took the world to, its inverse brings back. *)
LEMMA ApplyInverse ==
  ASSUME NEW T, IsMotion(T), NEW v \in Positions
  PROVE  Apply(InverseOf(T), v) = Rotate(Transpose(T.R), Plus(v, Minus(T.t)))
<1>1. PICK B \in Matrices, u \in Positions : B = Transpose(T.R) /\ u = T.t
  BY MotionParts, MatrixTypes
<1>2. InverseOf(T) = [R |-> B, t |-> Minus(Rotate(B, u))]
  BY <1>1 DEF InverseOf, Minus
<1>3. Apply(InverseOf(T), v) = Plus(Rotate(B, v), Minus(Rotate(B, u)))
  BY <1>2 DEF Apply
<1>4. Minus(u) \in Positions /\ Minus(Rotate(B, u)) = Rotate(B, Minus(u))
  BY PositionTypes, RotateLinear
<1> QED
  BY <1>1, <1>3, <1>4, RotateLinear

LEMMA InverseTwice ==
  ASSUME NEW T, IsMotion(T)
  PROVE  InverseOf(InverseOf(T)) = T
<1>1. PICK A \in Matrices, B \in Matrices, u \in Positions : A = T.R /\ B = Transpose(A) /\ u = T.t
  BY MotionParts, MatrixTypes
<1>2. PICK z \in Positions : z = Rotate(B, u)
  BY PositionTypes
<1>3. InverseOf(T) = [R |-> B, t |-> Minus(z)]
  BY <1>1, <1>2 DEF InverseOf, Minus
<1>4. Transpose(B) = A
  BY <1>1, TransposeTwice
<1>5. InverseOf(InverseOf(T)) = [R |-> A, t |-> Minus(Rotate(A, Minus(z)))]
  BY <1>3, <1>4 DEF InverseOf, Minus
<1>6. Rotate(A, Minus(z)) = Minus(Rotate(A, z))
  BY RotateLinear
<1>7. Rotate(A, z) = u
  BY <1>1, <1>2 DEF IsMotion, IsTurn
<1>8. Minus(Minus(u)) = u
  BY SumsOfPositions
<1> QED
  BY <1>1, <1>5, <1>6, <1>7, <1>8, MotionParts

LEMMA ApplyAfter ==
  ASSUME NEW g, IsMotion(g), NEW T, IsMotion(T), NEW v \in Positions
  PROVE  /\ Apply(After(g, T), v) = Apply(g, Apply(T, v))
         /\ Apply(InverseOf(After(g, T)), Apply(g, v)) = Apply(InverseOf(T), v)
<1>1. PICK G \in Matrices, A \in Matrices, p \in Positions, u \in Positions :
        G = g.R /\ A = T.R /\ p = g.t /\ u = T.t
  BY MotionParts
<1>2. PICK C \in Matrices, q \in Positions : C = Compose(G, A) /\ q = Apply(g, u)
  BY <1>1, MatrixTypes, ApplyType
<1>3. After(g, T) = [R |-> C, t |-> q] /\ IsMotion(After(g, T))
  BY <1>1, <1>2, AfterMotion DEF After
<1>4. Apply(After(g, T), v) = Apply(g, Apply(T, v))
  <2>1. PICK x \in Positions, y \in Positions, z \in Positions :
          x = Rotate(A, v) /\ y = Rotate(G, x) /\ z = Rotate(G, u)
    BY PositionTypes
  <2>2. Apply(After(g, T), v) = Plus(y, Plus(z, p))
    BY <1>1, <1>2, <1>3, <2>1, RotateCompose DEF Apply
  <2>3. Apply(g, Apply(T, v)) = Plus(Rotate(G, Plus(x, u)), p)
    BY <1>1, <2>1 DEF Apply
  <2>4. Rotate(G, Plus(x, u)) = Plus(y, z)
    BY <2>1, RotateLinear
  <2>5. Plus(Plus(y, z), p) = Plus(y, Plus(z, p))
    BY SumsOfPositions
  <2> QED
    BY <2>2, <2>3, <2>4, <2>5
<1>5. Apply(InverseOf(After(g, T)), Apply(g, v)) = Apply(InverseOf(T), v)
  <2>1. PICK d \in Positions : d = Plus(v, Minus(u))
    BY PositionTypes
  <2>2. Plus(Apply(g, v), Minus(q)) = Rotate(G, d)
    <3>1. PICK x \in Positions, y \in Positions : x = Rotate(G, v) /\ y = Rotate(G, u)
      BY PositionTypes
    <3>2. Apply(g, v) = Plus(x, p) /\ q = Plus(y, p)
      BY <1>1, <1>2, <3>1 DEF Apply
    <3>3. Plus(Plus(x, p), Minus(Plus(y, p))) = Plus(x, Minus(y))
      BY SumsOfPositions
    <3>4. Minus(u) \in Positions /\ Rotate(G, Minus(u)) = Minus(y)
      BY <3>1, PositionTypes, RotateLinear
    <3>5. Rotate(G, d) = Plus(x, Minus(y))
      BY <2>1, <3>1, <3>4, RotateLinear
    <3> QED
      BY <3>2, <3>3, <3>5
  <2>3. Apply(g, v) \in Positions
    BY ApplyType
  <2>4. Apply(InverseOf(After(g, T)), Apply(g, v)) = Rotate(Transpose(C), Rotate(G, d))
    BY <1>3, <2>2, <2>3, ApplyInverse
  <2>5. PICK D \in Matrices, H \in Matrices : D = Transpose(A) /\ H = Transpose(G)
    BY MatrixTypes
  <2>6. Transpose(C) = Compose(D, H)
    BY <1>2, <2>5, TransposeCompose
  <2>7. Rotate(H, Rotate(G, d)) = d
    BY <1>1, <2>5 DEF IsMotion, IsTurn
  <2>8. Rotate(Compose(D, H), Rotate(G, d)) = Rotate(D, d)
    <3>1. Rotate(G, d) \in Positions
      BY PositionTypes
    <3> QED
      BY <2>7, <3>1, RotateCompose
  <2>9. Apply(InverseOf(T), v) = Rotate(D, d)
    BY <1>1, <2>1, <2>5, ApplyInverse
  <2> QED
    BY <2>4, <2>6, <2>8, <2>9
<1> QED
  BY <1>4, <1>5

LEMMA ConstantMotions == IsMotion(Identity) /\ T_wrist2rh_tracker \in Poses
<1>1. zero \in Scalars /\ one \in Scalars /\ neg(one) \in Scalars
  BY RingAssumption
<1>2. Identity \in Poses
  <2>1. /\ <<one, zero, zero>> \in Positions /\ <<zero, one, zero>> \in Positions
        /\ <<zero, zero, one>> \in Positions /\ <<zero, zero, zero>> \in Positions
    BY <1>1, TripleType
  <2> QED
    BY <2>1 DEF Identity, Poses
<1>3. Identity.R \in Matrices
  BY <1>2 DEF Poses, Matrices
<1>4. \A v \in Positions : Rotate(Identity.R, v) = v
  BY RotateIdentity
<1>5. Transpose(Identity.R) = Identity.R
  <2>1. PICK I \in Matrices : I = Identity.R
    BY <1>3
  <2>2. I = <<<<one, zero, zero>>, <<zero, one, zero>>, <<zero, zero, one>>>>
    BY <2>1 DEF Identity
  <2>3. \A i \in 1 .. 3 : <<I[1][i], I[2][i], I[3][i]>> = I[i]
    <3>1. <<I[1][1], I[2][1], I[3][1]>> = I[1] /\ <<I[1][2], I[2][2], I[3][2]>> = I[2] /\ <<I[1][3], I[2][3], I[3][3]>> = I[3]
      BY <2>2
    <3> QED
      BY <3>1
  <2> QED
    BY <2>1, <2>3 DEF Transpose, Matrices
<1>6. IsMotion(Identity)
  BY <1>2, <1>3, <1>4, <1>5 DEF IsMotion, IsTurn
<1>7. T_wrist2rh_tracker \in Poses
  <2>1. PICK P : P = [R |-> R_wrist2rh_tracker, t |-> P_wrist2rh_tracker]
    OBVIOUS
  <2>2. P.R \in Matrices /\ P.t \in Positions
    <3>1. /\ <<one, zero, zero>> \in Positions /\ <<zero, neg(one), zero>> \in Positions
          /\ <<zero, zero, neg(one)>> \in Positions
      BY <1>1, TripleType
    <3>2. R_wrist2rh_tracker \in Matrices
      BY <3>1 DEF R_wrist2rh_tracker, Matrices
    <3> QED
      BY <2>1, <3>2, CalibrationAssumption
  <2>3. Transpose(P.R) \in Matrices /\ Minus(Rotate(Transpose(P.R), P.t)) \in Positions
    BY <2>2, MatrixTypes, PositionTypes
  <2>4. InverseOf(P) = [R |-> Transpose(P.R), t |-> Minus(Rotate(Transpose(P.R), P.t))]
    BY DEF InverseOf, Minus
  <2>5. T_wrist2rh_tracker = InverseOf(P)
    BY <2>1 DEF T_wrist2rh_tracker, makeT
  <2> QED
    BY <2>3, <2>4, <2>5 DEF Poses, Matrices
<1> QED
  BY <1>6, <1>7

(* The chain of motions does not depend on the frames of its ends. *)
LEMMA ChainMoved ==
  ASSUME NEW g, IsMotion(g), NEW w, IsMotion(w), NEW p \in Positions,
         NEW wrist \in Bones, NEW hand \in Bones, NEW chest \in Bones,
         IsMotion(wrist.pose), IsMotion(hand.pose), IsMotion(chest.pose)
  PROVE  InChest(Moved(g, wrist), Moved(w, hand), Moved(w, chest), Apply(g, p))
           = InChest(wrist, hand, chest, p)
<1>1. PICK A, B, C : A = wrist.pose /\ B = hand.pose /\ C = chest.pose
  OBVIOUS
<1>2. Moved(g, wrist).pose = After(g, A) /\ Moved(w, hand).pose = After(w, B) /\ Moved(w, chest).pose = After(w, C)
  BY <1>1 DEF Moved, After, Bones, Poses
<1>3. IsMotion(A) /\ IsMotion(B) /\ IsMotion(C) /\ IsMotion(After(w, B))
  BY <1>1, AfterMotion
<1>4. PICK a \in Positions : a = Apply(InverseOf(A), p) /\ a = Apply(InverseOf(After(g, A)), Apply(g, p))
  <2>1. Apply(InverseOf(A), p) \in Positions
    <3>1. A.R \in Matrices /\ A.t \in Positions
      BY <1>3, MotionParts
    <3>2. Transpose(A.R) \in Matrices /\ Plus(p, Minus(A.t)) \in Positions
      BY <3>1, MatrixTypes, PositionTypes
    <3>3. Rotate(Transpose(A.R), Plus(p, Minus(A.t))) \in Positions
      BY <3>2, PositionTypes
    <3> QED
      BY <1>3, <3>3, ApplyInverse
  <2> QED
    BY <1>3, <2>1, ApplyAfter
<1>5. PICK b \in Positions : b = Apply(T_wrist2rh_tracker, a)
  <2>1. PICK T : T = T_wrist2rh_tracker
    OBVIOUS
  <2>2. T.R \in Matrices /\ T.t \in Positions
    BY <2>1, ConstantMotions DEF Poses, Matrices
  <2>3. Plus(Rotate(T.R, a), T.t) \in Positions
    BY <2>2, PositionTypes
  <2> QED
    BY <2>1, <2>3 DEF Apply
<1>6. PICK c \in Positions : c = Apply(B, b) /\ Apply(After(w, B), b) = Apply(w, c)
  BY <1>3, ApplyType, ApplyAfter
<1>7. InverseOf(InverseOf(B)) = B /\ InverseOf(InverseOf(After(w, B))) = After(w, B)
  BY <1>3, InverseTwice
<1>8. InChest(wrist, hand, chest, p) = Apply(InverseOf(C), c)
  BY <1>1, <1>4, <1>5, <1>6, <1>7 DEF InChest, makeT, T_rh_tracker2world
<1>9. InChest(Moved(g, wrist), Moved(w, hand), Moved(w, chest), Apply(g, p))
        = Apply(InverseOf(After(w, C)), Apply(w, c))
  BY <1>2, <1>4, <1>5, <1>6, <1>7 DEF InChest, makeT, T_rh_tracker2world
<1>10. Apply(InverseOf(After(w, C)), Apply(w, c)) = Apply(InverseOf(C), c)
  BY <1>3, ApplyAfter
<1> QED
  BY <1>8, <1>9, <1>10

(* The bones of a list, which has one bone of a name. *)
OneOfAName(s) == \A i, j \in DOMAIN s : s[i].name = s[j].name => i = j
Nameless(bone) == [bone EXCEPT !.name = NoName]

LEMMA NamelessBone ==
  ASSUME NEW bone \in Bones
  PROVE  Nameless(bone).name = NoName
<1>1. PICK i \in Int, w \in STRING, T \in Poses : bone = [id |-> i, name |-> w, pose |-> T]
  BY DEF Bones
<1> QED
  BY <1>1 DEF Nameless

(* The slots when the bones up to the m-th of n have been looked at, and the j-th has
   been taken out. *)
Shifted(s, n, j, m) ==
  [p \in 1 .. n |-> IF p < j THEN s[p] ELSE IF p < m THEN s[p + 1]
                    ELSE IF p = m /\ m # j THEN Nameless(s[p]) ELSE s[p]]
ShiftedTo(s, n, j, m) == [slots |-> Shifted(s, n, j, m), size |-> m - 1]

LEMMA RemovalStep ==
  ASSUME NEW n \in Nat, NEW s \in [1 .. n -> Bones], OneOfAName(s), NEW j \in 1 .. n,
         NEW m \in 1 .. n, NEW h \in 1 .. n, m - h = 1, j <= h
  PROVE  LET before == ShiftedTo(s, n, j, h)
             bone == before.slots[m]
         IN  /\ ~SameBone(bone, before.slots[j])
             /\ [slots |-> [before.slots EXCEPT ![m].name = NoName, ![before.size + 1] = bone],
                 size |-> before.size + 1] = ShiftedTo(s, n, j, m)
<1>1. PICK a : a = Shifted(s, n, j, h)
  OBVIOUS
<1>2. a = [p \in 1 .. n |-> a[p]]
  BY <1>1 DEF Shifted
<1>3. a[m] = s[m]
  BY <1>1 DEF Shifted
<1>4. a[j] = IF h = j THEN s[j] ELSE s[j + 1]
  BY <1>1 DEF Shifted
<1>5. s[m] # a[j]
  <2>1. PICK q \in 1 .. n : a[j] = s[q] /\ q # m
    <3>1. CASE h = j
      BY <1>4, <3>1
    <3>2. CASE h # j
      <4>1. j + 1 \in 1 .. n /\ j + 1 # m
        BY <3>2
      <4> QED
        BY <1>4, <3>2, <4>1
    <3> QED
      BY <3>1, <3>2
  <2> QED
    BY <2>1 DEF OneOfAName
<1>6. PICK b : b = [a EXCEPT ![m].name = NoName, ![h] = s[m]]
  OBVIOUS
<1>7. b = Shifted(s, n, j, m)
  <2>1. b = [p \in 1 .. n |-> IF p = h THEN s[m] ELSE IF p = m THEN Nameless(a[m]) ELSE a[p]]
    BY <1>2, <1>6 DEF Nameless
  <2>2. ASSUME NEW p \in 1 .. n
        PROVE  b[p] = IF p < j THEN s[p] ELSE IF p < m THEN s[p + 1]
                      ELSE IF p = m /\ m # j THEN Nameless(s[p]) ELSE s[p]
    <3>1. p = h \/ p = m \/ (p # h /\ p # m)
      OBVIOUS
    <3>2. b[p] = IF p = h THEN s[m] ELSE IF p = m THEN Nameless(a[m]) ELSE a[p]
      BY <2>1
    <3>3. CASE p = h
      <4>1. p >= j /\ p < m /\ p + 1 = m
        BY <3>3
      <4> QED
        BY <3>2, <3>3, <4>1
    <3>4. CASE p = m
      BY <1>3, <3>2, <3>4
    <3>5. CASE p # h /\ p # m
      <4>1. a[p] = IF p < j THEN s[p] ELSE IF p < h THEN s[p + 1] ELSE s[p]
        BY <1>1, <3>5 DEF Shifted
      <4> QED
        BY <3>2, <3>5, <4>1
    <3> QED
      BY <3>1, <3>3, <3>4, <3>5
  <2> QED
    BY <2>1, <2>2 DEF Shifted
<1> DEFINE before == ShiftedTo(s, n, j, h)
<1>8. before.slots = a /\ before.size = h - 1 /\ before.size + 1 = h /\ h = m - 1
  BY <1>1 DEF ShiftedTo
<1> QED
  BY <1>3, <1>5, <1>6, <1>7, <1>8 DEF ShiftedTo, SameBone

(* The loop of std::remove(). *)
LEMMA RemovesOne ==
  ASSUME NEW n \in Nat, NEW s \in [1 .. n -> Bones], OneOfAName(s), NEW j \in 1 .. n
  PROVE  RemoveFrom(s, n, j) = ShiftedTo(s, n, j, n)
<1> DEFINE first == CHOOSE k \in 1 .. n : /\ SameBone(s[k], s[j])
                                          /\ \A h \in 1 .. k - 1 : ~SameBone(s[h], s[j])
           Step(it, m) ==
             IF m = first THEN [slots |-> s, size |-> first - 1]
             ELSE LET before == it[m - 1]
                      bone == before.slots[m]
                  IN  IF SameBone(bone, before.slots[j]) THEN before
                      ELSE [slots |-> [before.slots EXCEPT ![m].name = NoName, ![before.size + 1] = bone],
                            size |-> before.size + 1]
           scan == CHOOSE it : it = [m \in first .. n |-> Step(it, m)]
<1>1. RemoveFrom(s, n, j) = scan[n]
  BY DEF RemoveFrom
<1>2. first = j
  <2>1. \A k \in 1 .. n : SameBone(s[k], s[j]) <=> k = j
    BY DEF SameBone, OneOfAName
  <2>2. \A h \in 1 .. j - 1 : ~SameBone(s[h], s[j])
    <3>1. \A h \in 1 .. j - 1 : h \in 1 .. n /\ h # j
      OBVIOUS
    <3> QED
      BY <2>1, <3>1
  <2> QED
    BY <2>1, <2>2
<1> HIDE DEF first
<1>3. PICK f : f = [m \in j .. n |-> ShiftedTo(s, n, j, m)]
  OBVIOUS
<1>4. ShiftedTo(s, n, j, j) = [slots |-> s, size |-> j - 1]
  <2>1. \A p \in 1 .. n : Shifted(s, n, j, j)[p] = s[p]
    BY DEF Shifted
  <2>2. Shifted(s, n, j, j) = s
    BY <2>1 DEF Shifted
  <2> QED
    BY <2>2 DEF ShiftedTo
<1>5. ASSUME NEW m \in j .. n PROVE f[m] = Step(f, m)
  <2>1. CASE m = j
    BY <1>2, <1>3, <1>4, <2>1
  <2>2. CASE m # j
    <3>1. PICK h \in 1 .. n : h = m - 1 /\ m - h = 1 /\ j <= h /\ h \in j .. n /\ m \in 1 .. n
      <4>1. m - 1 \in 1 .. n /\ m - (m - 1) = 1 /\ j <= m - 1 /\ m \in 1 .. n
        BY <2>2
      <4> QED
        BY <4>1
    <3>2. f[m] = ShiftedTo(s, n, j, m) /\ f[h] = ShiftedTo(s, n, j, h)
      BY <1>3, <3>1
    <3>3. LET before == ShiftedTo(s, n, j, h)
              bone == before.slots[m]
          IN  /\ ~SameBone(bone, before.slots[j])
              /\ [slots |-> [before.slots EXCEPT ![m].name = NoName, ![before.size + 1] = bone],
                  size |-> before.size + 1] = ShiftedTo(s, n, j, m)
      BY <3>1, RemovalStep
    <3> DEFINE Move(before) ==
                 LET bone == before.slots[m]
                 IN  IF SameBone(bone, before.slots[j]) THEN before
                     ELSE [slots |-> [before.slots EXCEPT ![m].name = NoName,
                                                          ![before.size + 1] = bone],
                           size |-> before.size + 1]
    <3>4. Step(f, m) = Move(f[m - 1])
      BY <1>2, <2>2
    <3>5. f[m - 1] = ShiftedTo(s, n, j, h)
      BY <3>1, <3>2
    <3>6. Move(ShiftedTo(s, n, j, h)) = ShiftedTo(s, n, j, m)
      BY <3>3
    <3> HIDE DEF Move, Step
    <3> QED
      BY <3>2, <3>4, <3>5, <3>6
  <2> QED
    BY <2>1, <2>2
<1>6. f = [m \in first .. n |-> Step(f, m)]
  <2> HIDE DEF Step
  <2> QED
    BY <1>2, <1>3, <1>5
<1>7. scan = [m \in first .. n |-> Step(scan, m)]
  BY <1>6
<1> HIDE DEF scan
<1> DEFINE I == {d \in Nat : \A m \in j .. n : m = j + d => scan[m] = f[m]}
<1>8. 0 \in I
  <2>1. scan[j] = f[j]
    <3>1. Step(scan, j) = f[j] /\ j \in first .. n
      BY <1>2, <1>3, <1>4
    <3>2. scan[j] = Step(scan, j)
      <4> HIDE DEF Step
      <4> QED
        BY <1>7, <3>1
    <3> HIDE DEF Step
    <3> QED
      BY <3>1, <3>2
  <2> QED
    BY <2>1
<1>9. ASSUME NEW d \in Nat, d \in I PROVE d + 1 \in I
  <2> SUFFICES ASSUME NEW m \in j .. n, m = j + (d + 1) PROVE scan[m] = f[m]
    OBVIOUS
  <2>1. PICK h \in j .. n : h = m - 1 /\ h = j + d /\ m # j
    <3>1. m - 1 \in j .. n /\ m - 1 = j + d /\ m # j
      OBVIOUS
    <3> QED
      BY <3>1
  <2>2. scan[h] = f[h]
    BY <1>9, <2>1
  <2>3. Step(scan, m) = Step(f, m)
    BY <1>2, <2>1, <2>2
  <2>4. scan[m] = Step(scan, m)
    <3> HIDE DEF Step
    <3> QED
      BY <1>2, <1>7
  <2> HIDE DEF Step
  <2> QED
    BY <1>5, <2>3, <2>4
<1>10. Nat \subseteq I
  <2> HIDE DEF I
  <2> QED
    BY <1>8, <1>9, SetInduction
<1>11. scan[n] = f[n]
  <2>1. PICK d \in Nat : d = n - j /\ n = j + d /\ n \in j .. n
    <3>1. n - j \in Nat /\ n = j + (n - j) /\ n \in j .. n
      OBVIOUS
    <3> QED
      BY <3>1
  <2> QED
    BY <1>10, <2>1
<1> QED
  BY <1>1, <1>3, <1>11

(* The list without its j-th bone. *)
Without(s, n, j) == [p \in 1 .. n - 1 |-> IF p < j THEN s[p] ELSE s[p + 1]]
Taken(bone, list, s, n, w) ==
  \/ \E j \in 1 .. n : s[j].name = w /\ bone = s[j] /\ list = Without(s, n, j)
  \/ (\A j \in 1 .. n : s[j].name # w) /\ bone = NoBone /\ list = s

LEMMA WithoutType ==
  ASSUME NEW s \in Seq(Bones), NEW n \in Nat, Len(s) = n, NEW j \in 1 .. n
  PROVE  /\ Without(s, n, j) \in Seq(Bones) /\ Len(Without(s, n, j)) = n - 1
         /\ SubSeq(Shifted(s, n, j, n), 1, n - 1) = Without(s, n, j)
<1>1. PICK m \in Nat : m = n - 1 /\ m < n
  <2>1. n - 1 \in Nat
    OBVIOUS
  <2> QED
    BY <2>1
<1>2. PICK t : t = Without(s, n, j)
  OBVIOUS
<1>3. t = [p \in 1 .. m |-> IF p < j THEN s[p] ELSE s[p + 1]]
  BY <1>1, <1>2 DEF Without
<1>4. \A p \in 1 .. m : t[p] \in Bones
  <2> SUFFICES ASSUME NEW p \in 1 .. m PROVE t[p] \in Bones
    OBVIOUS
  <2>1. p \in 1 .. n /\ p + 1 \in 1 .. n
    BY <1>1
  <2>2. s[p] \in Bones /\ s[p + 1] \in Bones
    BY <2>1
  <2> QED
    BY <1>3, <2>2
<1>5. t \in Seq(Bones) /\ Len(t) = m
  <2>1. t \in [1 .. m -> Bones]
    BY <1>3, <1>4
  <2> QED
    BY <2>1
<1>6. SubSeq(Shifted(s, n, j, n), 1, m) = t
  <2>1. PICK a : a = Shifted(s, n, j, n)
    OBVIOUS
  <2>2. SubSeq(a, 1, m) = [p \in 1 .. m |-> a[p]]
    OBVIOUS
  <2>3. \A p \in 1 .. m : a[p] = t[p]
    <3>1. \A p \in 1 .. m : p \in 1 .. n /\ p < n
      BY <1>1
    <3> QED
      BY <1>3, <2>1, <3>1 DEF Shifted
  <2> QED
    BY <1>3, <2>1, <2>2, <2>3
<1> QED
  BY <1>1, <1>2, <1>5, <1>6

(* GetBoneDataByName() takes the bone of the name out of the list. *)
LEMMA BoneTaken ==
  ASSUME NEW s \in Seq(Bones), NEW n \in Nat, Len(s) = n, OneOfAName(s), NEW w, w # NoName
  PROVE  Taken(GetBoneDataByName(s, w).bone, GetBoneDataByName(s, w).list, s, n, w)
<1> DEFINE start == [slots |-> s, size |-> Len(s), bone |-> NoBone]
           Step(it, i) ==
             IF i = 0 THEN start
             ELSE LET before == it[i - 1]
                      left == RemoveFrom(before.slots, before.size, i)
                  IN  IF before.slots[i].name # w THEN before
                      ELSE [slots |-> left.slots, size |-> left.size, bone |-> before.slots[i]]
           visit == CHOOSE it : it = [i \in 0 .. Len(s) |-> Step(it, i)]
           end(j) == [slots |-> Shifted(s, n, j, n), size |-> n - 1, bone |-> s[j]]
           Ends(z) == \/ \E j \in 1 .. n : s[j].name = w /\ z = end(j)
                      \/ (\A j \in 1 .. n : s[j].name # w) /\ z = start
<1>1. GetBoneDataByName(s, w) =
        [bone |-> visit[Len(s)].bone, list |-> SubSeq(visit[Len(s)].slots, 1, visit[Len(s)].size)]
  BY DEF GetBoneDataByName
<1>2. s \in [1 .. n -> Bones] /\ s = [p \in 1 .. n |-> s[p]]
  OBVIOUS
<1>3. PICK f : (\A i \in 0 .. n : f[i] = Step(f, i)) /\ f = [i \in 0 .. n |-> f[i]] /\ Ends(f[n])
  <2>1. CASE \A j \in 1 .. n : s[j].name # w
    <3>1. PICK f : f = [i \in 0 .. n |-> start]
      OBVIOUS
    <3>2. ASSUME NEW i \in 0 .. n PROVE f[i] = Step(f, i)
      <4>1. CASE i = 0
        BY <3>1, <4>1
      <4>2. CASE i # 0
        <5>1. i - 1 \in 0 .. n /\ i \in 1 .. n
          BY <4>2
        <5>2. f[i - 1].slots[i].name # w
          BY <2>1, <3>1, <5>1
        <5>3. f[i] = f[i - 1]
          BY <3>1, <5>1
        <5> QED
          BY <4>2, <5>2, <5>3
      <4> QED
        BY <4>1, <4>2
    <3>3. f[n] = start /\ f = [i \in 0 .. n |-> f[i]]
      BY <3>1
    <3> HIDE DEF Step
    <3> QED
      BY <2>1, <3>2, <3>3
  <2>2. CASE \E j \in 1 .. n : s[j].name = w
    <3>0. PICK j \in 1 .. n : s[j].name = w
      BY <2>2
    <3>1. PICK f : f = [i \in 0 .. n |-> IF i < j THEN start ELSE end(j)]
      OBVIOUS
    <3>2. ASSUME NEW i \in 0 .. n PROVE f[i] = Step(f, i)
      <4>1. CASE i = 0
        BY <3>1, <4>1
      <4>2. CASE i # 0 /\ i < j
        <5>1. i - 1 \in 0 .. n /\ i \in 1 .. n /\ i - 1 < j
          BY <4>2
        <5>2. s[i].name # w
          BY <3>0, <4>2, <5>1 DEF OneOfAName
        <5>3. f[i] = start /\ f[i - 1] = start
          BY <3>1, <4>2, <5>1
        <5> QED
          BY <4>2, <5>2, <5>3
      <4>3. CASE i = j
        <5>1. i - 1 \in 0 .. n /\ i \in 1 .. n /\ i - 1 < j /\ ~(i < j)
          BY <4>3
        <5>2. f[i] = end(j) /\ f[i - 1] = start
          BY <3>1, <5>1
        <5>3. RemoveFrom(s, n, j) = ShiftedTo(s, n, j, n)
          BY <1>2, RemovesOne
        <5>4. start.slots = s /\ start.size = n
          OBVIOUS
        <5> QED
          BY <3>0, <4>3, <5>1, <5>2, <5>3, <5>4 DEF ShiftedTo
      <4>4. CASE i > j
        <5>1. i - 1 \in 0 .. n /\ i \in 1 .. n /\ ~(i - 1 < j) /\ ~(i < j)
          BY <4>4
        <5>2. f[i] = end(j) /\ f[i - 1] = end(j)
          BY <3>1, <5>1
        <5>3. Shifted(s, n, j, n)[i].name # w
          <6>1. CASE i = n
            <7>1. Shifted(s, n, j, n)[i] = Nameless(s[i]) /\ s[i] \in Bones
              BY <4>4, <5>1, <6>1 DEF Shifted
            <7> QED
              BY <7>1, NamelessBone
          <6>2. CASE i # n
            <7>1. i + 1 \in 1 .. n /\ i + 1 # j
              BY <4>4, <6>2
            <7>2. Shifted(s, n, j, n)[i] = s[i + 1]
              BY <4>4, <5>1, <7>1 DEF Shifted
            <7> QED
              BY <3>0, <7>1, <7>2 DEF OneOfAName
          <6> QED
            BY <6>1, <6>2
        <5>4. end(j).slots[i].name # w
          BY <5>3
        <5> HIDE DEF end
        <5> QED
          BY <4>4, <5>1, <5>2, <5>4
      <4> QED
        BY <4>1, <4>2, <4>3, <4>4
    <3>3. f[n] = end(j) /\ f = [i \in 0 .. n |-> f[i]]
      BY <3>1
    <3> HIDE DEF Step
    <3> QED
      BY <3>0, <3>2, <3>3
  <2> QED
    BY <2>1, <2>2
<1>4. f = [i \in 0 .. Len(s) |-> Step(f, i)]
  <2> HIDE DEF Step
  <2> QED
    BY <1>3
<1>5. visit = [i \in 0 .. Len(s) |-> Step(visit, i)]
  BY <1>4
<1> HIDE DEF visit
<1>6. \A i \in 0 .. n : visit[i] = Step(visit, i)
  <2> HIDE DEF Step
  <2> QED
    BY <1>5
<1> DEFINE I == {i \in Nat : i <= n => visit[i] = f[i]}
<1>7. 0 \in I
  <2>1. visit[0] = f[0]
    <3>1. Step(visit, 0) = Step(f, 0) /\ 0 \in 0 .. n
      OBVIOUS
    <3> HIDE DEF Step
    <3> QED
      BY <1>3, <1>6, <3>1
  <2> QED
    BY <2>1
<1>8. ASSUME NEW h \in Nat, h \in I PROVE h + 1 \in I
  <2>1. PICK i \in Nat : i = h + 1 /\ i - 1 = h /\ i # 0
    OBVIOUS
  <2>2. ASSUME i <= n PROVE visit[i] = f[i]
    <3>1. i \in 0 .. n /\ visit[i - 1] = f[i - 1]
      BY <1>8, <2>1, <2>2
    <3>2. Step(visit, i) = Step(f, i)
      BY <3>1
    <3>3. visit[i] = Step(visit, i) /\ f[i] = Step(f, i)
      <4> HIDE DEF Step
      <4> QED
        BY <1>3, <1>6, <3>1
    <3> HIDE DEF Step
    <3> QED
      BY <3>2, <3>3
  <2> QED
    BY <2>1, <2>2
<1>9. Nat \subseteq I
  <2> HIDE DEF I
  <2> QED
    BY <1>7, <1>8, SetInduction
<1>10. visit[n] = f[n]
  <2>1. n \in I /\ n <= n
    BY <1>9
  <2> QED
    BY <2>1
<1>11. PICK z : z = f[n] /\ Ends(z)
  BY <1>3
<1>12. /\ GetBoneDataByName(s, w).bone = z.bone
       /\ GetBoneDataByName(s, w).list = SubSeq(z.slots, 1, z.size)
  <2>1. visit[Len(s)] = z
    BY <1>10, <1>11
  <2>2. PICK r : r = GetBoneDataByName(s, w)
    OBVIOUS
  <2>3. r = [bone |-> z.bone, list |-> SubSeq(z.slots, 1, z.size)]
    BY <1>1, <2>1, <2>2, Zenon
  <2>4. r.bone = z.bone /\ r.list = SubSeq(z.slots, 1, z.size)
    BY <2>3
  <2> QED
    BY <2>2, <2>4
<1>13. CASE \E j \in 1 .. n : s[j].name = w /\ z = end(j)
  <2>1. PICK j \in 1 .. n : s[j].name = w /\ z = end(j)
    BY <1>13
  <2>2. z.bone = s[j] /\ SubSeq(z.slots, 1, z.size) = Without(s, n, j)
    <3>1. SubSeq(Shifted(s, n, j, n), 1, n - 1) = Without(s, n, j)
      BY WithoutType
    <3> QED
      BY <2>1, <3>1
  <2> QED
    BY <1>12, <2>1, <2>2 DEF Taken
<1>14. CASE (\A j \in 1 .. n : s[j].name # w) /\ z = start
  <2>1. z.bone = NoBone /\ SubSeq(z.slots, 1, z.size) = s
    <3>1. SubSeq(s, 1, Len(s)) = s
      BY SubSeqFull
    <3> QED
      BY <1>14, <3>1
  <2> QED
    BY <1>12, <1>14, <2>1 DEF Taken
<1> QED
  BY <1>11, <1>13, <1>14

LEMMA WithoutNames ==
  ASSUME NEW s \in Seq(Bones), NEW n \in Nat, Len(s) = n, OneOfAName(s), NEW j \in 1 .. n
  PROVE  OneOfAName(Without(s, n, j))
<1>1. PICK t : t = Without(s, n, j) /\ DOMAIN t = 1 .. n - 1
  <2>1. DOMAIN Without(s, n, j) = 1 .. n - 1
    BY DEF Without
  <2> QED
    BY <2>1
<1> SUFFICES ASSUME NEW p \in 1 .. n - 1, NEW q \in 1 .. n - 1, t[p].name = t[q].name PROVE p = q
  BY <1>1 DEF OneOfAName
<1>2. PICK a \in 1 .. n, b \in 1 .. n :
        /\ t[p] = s[a] /\ t[q] = s[b]
        /\ a = (IF p < j THEN p ELSE p + 1) /\ b = (IF q < j THEN q ELSE q + 1)
  <2>1. p \in 1 .. n /\ p + 1 \in 1 .. n /\ q \in 1 .. n /\ q + 1 \in 1 .. n
    OBVIOUS
  <2>2. t[p] = (IF p < j THEN s[p] ELSE s[p + 1]) /\ t[q] = (IF q < j THEN s[q] ELSE s[q + 1])
    BY <1>1 DEF Without
  <2> QED
    BY <2>1, <2>2
<1>3. a = b
  BY <1>2 DEF OneOfAName
<1> QED
  BY <1>2, <1>3

(* The bones of a list that are not called w, in order. *)
LEMMA SubsequenceWithout ==
  ASSUME NEW s \in Seq(Bones), NEW n \in Nat, Len(s) = n, NEW j \in 1 .. n
  PROVE  Subsequence(s, (1 .. n) \ {j}) = Without(s, n, j)
<1> DEFINE I == {d \in Nat : \A m \in j .. n : m = j + d => Subsequence(s, (1 .. m) \ {j}) = Without(s, m, j)}
<1>1. 0 \in I
  <2>1. PICK h \in Nat : h = j - 1
    <3>1. j - 1 \in Nat
      OBVIOUS
    <3> QED
      BY <3>1
  <2>2. (1 .. j) \ {j} = 1 .. h
    BY <2>1
  <2>3. Subsequence(s, 1 .. h) = SubSeq(s, 1, h)
    <3>1. 1 \in Nat \ {0} /\ 1 - 1 <= h /\ h <= Len(s)
      BY <2>1
    <3> QED
      BY <3>1, SubsequenceInterval
  <2>4. SubSeq(s, 1, h) = [p \in 1 .. h |-> s[p]]
    BY <2>1
  <2>5. Without(s, j, j) = [p \in 1 .. h |-> s[p]]
    BY <2>1 DEF Without
  <2>6. Subsequence(s, (1 .. j) \ {j}) = Without(s, j, j)
    BY <2>2, <2>3, <2>4, <2>5
  <2>7. \A m \in j .. n : m = j + 0 => m = j
    OBVIOUS
  <2> QED
    BY <2>6, <2>7
<1>2. ASSUME NEW d \in Nat, d \in I PROVE d + 1 \in I
  <2> SUFFICES ASSUME NEW m \in j .. n, m = j + (d + 1)
               PROVE  Subsequence(s, (1 .. m) \ {j}) = Without(s, m, j)
    OBVIOUS
  <2>1. PICK h \in Nat : h = m - 1 /\ h \in j .. n /\ h = j + d /\ m = h + 1
    <3>1. m - 1 \in Nat /\ m - 1 \in j .. n /\ m - 1 = j + d
      OBVIOUS
    <3> QED
      BY <3>1
  <2>2. Subsequence(s, (1 .. h) \ {j}) = Without(s, h, j)
    BY <1>2, <2>1
  <2>3. PICK S \in SUBSET (1 .. h) : S = (1 .. h) \ {j} /\ (1 .. m) \ {j} = S \cup {h + 1}
    <3>1. (1 .. m) \ {j} = ((1 .. h) \ {j}) \cup {h + 1}
      BY <2>1
    <3> QED
      BY <3>1
  <2>4. Subsequence(s, S \cup {h + 1}) = Append(Subsequence(s, S), s[h + 1])
    BY SubsequenceNext
  <2>5. Append(Without(s, h, j), s[m]) = Without(s, m, j)
    <3>1. PICK k \in Nat : k = h - 1 /\ m - 1 = k + 1
      <4>1. h - 1 \in Nat /\ m - 1 = (h - 1) + 1
        BY <2>1
      <4> QED
        BY <4>1
    <3>2. PICK t : t = Without(s, h, j)
      OBVIOUS
    <3>3. t = [p \in 1 .. k |-> IF p < j THEN s[p] ELSE s[p + 1]]
      BY <3>1, <3>2 DEF Without
    <3>4. t \in Seq(Bones) /\ Len(t) = k
      <4>1. \A p \in 1 .. k : p \in 1 .. n /\ p + 1 \in 1 .. n
        BY <2>1, <3>1
      <4>2. ASSUME NEW p \in 1 .. k PROVE t[p] \in Bones
        <5>1. s[p] \in Bones /\ s[p + 1] \in Bones
          BY <4>1, <4>2
        <5> QED
          BY <3>3, <4>2, <5>1
      <4>3. t \in [1 .. k -> Bones]
        BY <3>3, <4>2
      <4> QED
        BY <4>3
    <3>5. PICK u : u = Append(t, s[m])
      OBVIOUS
    <3>6. /\ u = [p \in 1 .. k + 1 |-> u[p]] /\ u[k + 1] = s[m]
          /\ \A p \in 1 .. k : u[p] = t[p]
      <4>1. s[m] \in Bones
        BY <2>1
      <4> QED
        BY <3>4, <3>5, <4>1, AppendProperties
    <3>7. \A p \in 1 .. k + 1 : u[p] = IF p < j THEN s[p] ELSE s[p + 1]
      <4> SUFFICES ASSUME NEW p \in 1 .. k + 1 PROVE u[p] = IF p < j THEN s[p] ELSE s[p + 1]
        OBVIOUS
      <4>1. CASE p \in 1 .. k
        BY <3>3, <3>6, <4>1
      <4>2. CASE p = k + 1
        <5>1. ~(p < j) /\ p + 1 = m
          BY <2>1, <3>1, <4>2
        <5> QED
          BY <3>6, <4>2, <5>1
      <4> QED
        BY <4>1, <4>2
    <3>8. Without(s, m, j) = [p \in 1 .. k + 1 |-> IF p < j THEN s[p] ELSE s[p + 1]]
      BY <3>1 DEF Without
    <3> QED
      BY <3>2, <3>5, <3>6, <3>7, <3>8
  <2> QED
    BY <2>1, <2>2, <2>3, <2>4, <2>5
<1>3. Nat \subseteq I
  <2> HIDE DEF I
  <2> QED
    BY <1>1, <1>2, SetInduction
<1>4. PICK d \in Nat : d = n - j /\ n = j + d /\ n \in j .. n
  <2>1. n - j \in Nat /\ n = j + (n - j) /\ n \in j .. n
    OBVIOUS
  <2> QED
    BY <2>1
<1> QED
  BY <1>3, <1>4

LEMMA TakenOthers ==
  ASSUME NEW s \in Seq(Bones), NEW n \in Nat, Len(s) = n, OneOfAName(s), NEW w, NEW bone, NEW list,
         Taken(bone, list, s, n, w)
  PROVE  list = Subsequence(s, {i \in DOMAIN s : s[i].name # w})
<1>1. DOMAIN s = 1 .. n
  OBVIOUS
<1>2. CASE \E j \in 1 .. n : s[j].name = w /\ bone = s[j] /\ list = Without(s, n, j)
  <2>1. PICK j \in 1 .. n : s[j].name = w /\ list = Without(s, n, j)
    BY <1>2
  <2>2. {i \in DOMAIN s : s[i].name # w} = (1 .. n) \ {j}
    BY <1>1, <2>1 DEF OneOfAName
  <2> QED
    BY <2>1, <2>2, SubsequenceWithout
<1>3. CASE (\A j \in 1 .. n : s[j].name # w) /\ list = s
  <2>1. {i \in DOMAIN s : s[i].name # w} = 1 .. n
    BY <1>1, <1>3
  <2>2. Subsequence(s, 1 .. n) = SubSeq(s, 1, n)
    <3>1. 1 \in Nat \ {0} /\ 1 - 1 <= n /\ n <= Len(s)
      OBVIOUS
    <3> QED
      BY <3>1, SubsequenceInterval
  <2>3. SubSeq(s, 1, n) = s
    BY SubSeqFull
  <2> QED
    BY <1>3, <2>1, <2>2, <2>3
<1> QED
  BY <1>2, <1>3 DEF Taken

LEMMA TakenIsBone ==
  ASSUME NEW s \in Seq(Bones), NEW n \in Nat, Len(s) = n, NEW w, NEW bone, NEW list, Taken(bone, list, s, n, w)
  PROVE  IsBone(bone, s, w)
<1>1. DOMAIN s = 1 .. n
  OBVIOUS
<1> QED
  BY <1>1 DEF Taken, IsBone, Named

LEMMA TakenList ==
  ASSUME NEW s \in Seq(Bones), NEW n \in Nat, Len(s) = n, OneOfAName(s), NEW w, NEW bone, NEW list,
         Taken(bone, list, s, n, w)
  PROVE  list \in Seq(Bones) /\ OneOfAName(list)
<1>1. CASE \E j \in 1 .. n : list = Without(s, n, j)
  BY <1>1, WithoutType, WithoutNames
<1> QED
  BY <1>1 DEF Taken

(* Another bone that is looked up in what is left is that of the whole list. *)
LEMMA TakenAfter ==
  ASSUME NEW s \in Seq(Bones), NEW n \in Nat, Len(s) = n, OneOfAName(s), NEW w, NEW bone, NEW list,
         Taken(bone, list, s, n, w), NEW v, v # w, NEW other, IsBone(other, list, v)
  PROVE  IsBone(other, s, v)
<1>1. DOMAIN s = 1 .. n
  OBVIOUS
<1>2. CASE \E j \in 1 .. n : s[j].name = w /\ list = Without(s, n, j)
  <2>1. PICK j \in 1 .. n : s[j].name = w /\ list = Without(s, n, j)
    BY <1>2
  <2>2. DOMAIN list = 1 .. n - 1 /\ \A p \in 1 .. n - 1 : list[p] = IF p < j THEN s[p] ELSE s[p + 1]
    BY <2>1 DEF Without
  <2>3. CASE other.name = v /\ \E i \in DOMAIN list : list[i] = other
    <3>1. PICK p \in 1 .. n - 1 : list[p] = other
      BY <2>2, <2>3
    <3>2. p \in 1 .. n /\ p + 1 \in 1 .. n
      OBVIOUS
    <3>3. \E i \in 1 .. n : s[i] = other
      BY <2>2, <3>1, <3>2
    <3> QED
      BY <1>1, <2>3, <3>3 DEF IsBone
  <2>4. CASE other = NoBone /\ Named(list, v) = {}
    <3>1. ASSUME NEW p \in 1 .. n, s[p].name = v PROVE FALSE
      <4>1. p # j
        BY <2>1, <3>1
      <4>2. PICK q \in 1 .. n - 1 : list[q] = s[p]
        <5>1. CASE p < j
          <6>1. p \in 1 .. n - 1
            BY <5>1
          <6> QED
            BY <2>2, <5>1, <6>1
        <5>2. CASE p > j
          <6>1. PICK q \in 1 .. n - 1 : q = p - 1 /\ ~(q < j) /\ q + 1 = p
            <7>1. p - 1 \in 1 .. n - 1 /\ ~(p - 1 < j) /\ (p - 1) + 1 = p
              BY <5>2
            <7> QED
              BY <7>1
          <6> QED
            BY <2>2, <6>1
        <5> QED
          BY <4>1, <5>1, <5>2
      <4> QED
        BY <2>2, <2>4, <3>1, <4>2 DEF Named
    <3> QED
      BY <1>1, <2>4, <3>1 DEF IsBone, Named
  <2> QED
    BY <2>3, <2>4 DEF IsBone
<1>3. CASE list = s
  BY <1>3
<1> QED
  BY <1>2, <1>3 DEF Taken

(* The bones looked up are those of their names, and those left to project are the
   others that were not. *)
LookedUp ==
  /\ IsBone(found.wrist, glove_data, "RightHand_Hand")
  /\ IsBone(found.hand, tracker_data, "LHR-8FFB7245-right")
  /\ IsBone(found.chest, tracker_data, "LHR-C8B833F1-chest")
Pixel(n) ==
  pose3DTo2D(InChest(found.wrist, found.hand, found.chest, Others[n].pose.t), camera.ext)
Pixels ==
  /\ Len(u_v) \in Nat /\ u_v = [n \in 1 .. Len(u_v) |-> Pixel(n)]
  /\ Len(u_v) <= Len(Others) /\ (u_v # <<>> => LookedUp)
BonesInv ==
  /\ glove_data \in GloveData /\ tracker_data \in TrackerData
  /\ stage \in {"load", "parse", "lookup"} => u_v = <<>>
  /\ stage \in {"project", "print", "done"} =>
       LookedUp /\ fingers = SubSeq(Others, Len(u_v) + 1, Len(Others))
  /\ Pixels

LEMMA ListType ==
  ASSUME NEW s \in GloveData \cup TrackerData
  PROVE  /\ s \in Seq(Bones) /\ OneOfAName(s)
         /\ \A i \in DOMAIN s : s[i] \in Bones /\ IsMotion(s[i].pose)
<1>1. s \in Seq(Bones) /\ OneOfAName(s)
  BY CalibrationAssumption DEF OneOfAName
<1>2. ASSUME NEW i \in DOMAIN s PROVE s[i] \in Bones /\ IsMotion(s[i].pose)
  <2>1. s[i] \in Bones /\ IsRotation(s[i].pose.R)
    BY <1>1, CalibrationAssumption
  <2>2. PICK T \in Poses : T = s[i].pose /\ T.R \in Matrices
    BY <2>1 DEF Bones, Poses, Matrices
  <2>3. IsTurn(T.R)
    BY <2>1, <2>2, RotationTurns
  <2> QED
    BY <2>1, <2>2, <2>3 DEF IsMotion
<1> QED
  BY <1>1, <1>2

LEMMA OthersType ==
  ASSUME glove_data \in GloveData
  PROVE  Others \in Seq(Bones) /\ Len(Others) \in Nat
<1>1. glove_data \in Seq(Bones)
  BY ListType
<1>2. PICK m \in Nat : m = Len(glove_data) /\ DOMAIN glove_data = 1 .. m
  BY <1>1
<1>3. PICK S \in SUBSET (1 .. m) : S = {i \in DOMAIN glove_data : glove_data[i].name # "RightHand_Hand"}
  BY <1>2
<1>4. \A i \in S : glove_data[i] \in Bones
  BY <1>1, <1>2
<1>5. Subsequence(glove_data, S) \in Seq(Bones)
  BY <1>4, SubsequenceType
<1> QED
  BY <1>3, <1>5 DEF Others

LEMMA NoPixels ==
  ASSUME glove_data \in GloveData, u_v = <<>>
  PROVE  Pixels
<1>1. Len(u_v) = 0 /\ 1 .. 0 = {}
  OBVIOUS
<1>2. Len(Others) \in Nat
  BY OthersType
<1> QED
  BY <1>1, <1>2 DEF Pixels

LEMMA BonesInit == CalibrationInit => BonesInv
<1> SUFFICES ASSUME CalibrationInit PROVE BonesInv
  OBVIOUS
<1>1. glove_data \in GloveData /\ tracker_data \in TrackerData /\ u_v = <<>> /\ stage = "load"
  BY DEF CalibrationInit
<1>2. Pixels
  BY <1>1, NoPixels
<1> QED
  BY <1>1, <1>2 DEF BonesInv

(* Steps that look up and project nothing. *)
LEMMA BonesFrame ==
  ASSUME BonesInv, UNCHANGED <<glove_data, tracker_data, fingers, found, u_v>>,
         camera' = camera \/ u_v = <<>>,
         stage' \in {"load", "parse", "lookup"} => u_v = <<>>,
         stage' \in {"project", "print", "done"} => stage \in {"project", "print", "done"}
  PROVE  BonesInv'
<1>1. Others' = Others /\ LookedUp' = LookedUp
  BY DEF Others, LookedUp, IsBone, Named
<1>2. Pixels'
  <2>1. CASE camera' = camera
    <3>1. \A n : Pixel(n)' = Pixel(n)
      BY <1>1, <2>1 DEF Pixel
    <3> QED
      BY <1>1, <3>1 DEF BonesInv, Pixels
  <2>2. CASE u_v = <<>>
    <3>1. u_v' = <<>> /\ Len(u_v') = 0 /\ 1 .. 0 = {}
      BY <2>2
    <3>2. Len(Others) \in Nat
      BY OthersType DEF BonesInv
    <3> QED
      BY <1>1, <3>1, <3>2 DEF Pixels
  <2> QED
    BY <2>1, <2>2
<1> QED
  BY <1>1, <1>2 DEF BonesInv

LEMMA LookUpBones ==
  ASSUME BonesInv, LookUp
  PROVE  BonesInv'
<1>1. PICK s, t : s = glove_data /\ t = tracker_data
  OBVIOUS
<1>2. s \in Seq(Bones) /\ OneOfAName(s) /\ t \in Seq(Bones) /\ OneOfAName(t)
  BY <1>1, ListType DEF BonesInv
<1>3. PICK n \in Nat, m \in Nat : n = Len(s) /\ m = Len(t)
  BY <1>2
<1>4. "RightHand_Hand" # NoName /\ "LHR-8FFB7245-right" # NoName /\ "LHR-C8B833F1-chest" # NoName
  BY DEF NoName
<1>5. PICK glove, right, chest :
        /\ glove = GetBoneDataByName(s, "RightHand_Hand")
        /\ right = GetBoneDataByName(t, "LHR-8FFB7245-right")
        /\ chest = GetBoneDataByName(right.list, "LHR-C8B833F1-chest")
  OBVIOUS
<1>6. /\ found' = [wrist |-> glove.bone, hand |-> right.bone, chest |-> chest.bone]
      /\ fingers' = glove.list
  BY <1>1, <1>5 DEF LookUp
<1>7. /\ UNCHANGED <<glove_data, tracker_data, u_v>> /\ u_v = <<>> /\ stage' = "project"
  BY DEF LookUp, BonesInv
<1>8. Taken(glove.bone, glove.list, s, n, "RightHand_Hand")
  BY <1>2, <1>3, <1>4, <1>5, BoneTaken
<1>9. Taken(right.bone, right.list, t, m, "LHR-8FFB7245-right")
  BY <1>2, <1>3, <1>4, <1>5, BoneTaken
<1>10. PICK l \in Nat : right.list \in Seq(Bones) /\ OneOfAName(right.list) /\ l = Len(right.list)
  BY <1>2, <1>3, <1>9, TakenList
<1>11. Taken(chest.bone, chest.list, right.list, l, "LHR-C8B833F1-chest")
  BY <1>4, <1>5, <1>10, BoneTaken
<1>12. IsBone(glove.bone, s, "RightHand_Hand")
  BY <1>2, <1>3, <1>8, TakenIsBone
<1>13. IsBone(right.bone, t, "LHR-8FFB7245-right")
  BY <1>2, <1>3, <1>9, TakenIsBone
<1>14. IsBone(chest.bone, t, "LHR-C8B833F1-chest")
  <2>1. IsBone(chest.bone, right.list, "LHR-C8B833F1-chest")
    BY <1>10, <1>11, TakenIsBone
  <2>2. "LHR-C8B833F1-chest" # "LHR-8FFB7245-right"
    OBVIOUS
  <2> QED
    BY <1>2, <1>3, <1>9, <2>1, <2>2, TakenAfter
<1>15. LookedUp'
  BY <1>1, <1>6, <1>7, <1>12, <1>13, <1>14 DEF LookedUp, IsBone, Named
<1>16. glove.list = Others /\ Others' = Others
  <2>1. glove.list = Subsequence(s, {i \in DOMAIN s : s[i].name # "RightHand_Hand"})
    BY <1>2, <1>3, <1>8, TakenOthers
  <2> QED
    BY <1>1, <1>7, <2>1 DEF Others
<1>17. Others \in Seq(Bones) /\ Len(Others) \in Nat
  BY OthersType DEF BonesInv
<1>18. fingers' = SubSeq(Others', Len(u_v') + 1, Len(Others'))
  <2>1. Len(u_v') + 1 = 1
    BY <1>7
  <2>2. SubSeq(Others, 1, Len(Others)) = Others
    BY <1>17, SubSeqFull
  <2> QED
    BY <1>6, <1>16, <2>1, <2>2
<1>19. Pixels'
  <2>1. u_v' = <<>> /\ Len(u_v') = 0 /\ 1 .. 0 = {}
    BY <1>7
  <2> QED
    BY <1>16, <1>17, <2>1 DEF Pixels
<1> QED
  BY <1>7, <1>15, <1>18, <1>19 DEF BonesInv

(* One more pixel. *)
LEMMA ProjectOne ==
  ASSUME BonesInv, stage = "project", fingers # <<>>,
         u_v' = Append(u_v, pose3DTo2D(InChest(found.wrist, found.hand, found.chest, Head(fingers).pose.t), camera.ext)),
         fingers' = Tail(fingers), UNCHANGED <<stage, camera, glove_data, tracker_data, found>>
  PROVE  BonesInv'
<1>1. PICK O : O = Others /\ O \in Seq(Bones)
  BY OthersType DEF BonesInv
<1>2. PICK k \in Nat, l \in Nat : k = Len(u_v) /\ l = Len(O) /\ k <= l
  <2>1. Len(u_v) \in Nat /\ Len(u_v) <= Len(Others)
    BY DEF BonesInv, Pixels
  <2>2. Len(O) \in Nat
    BY <1>1
  <2> QED
    BY <1>1, <2>1, <2>2
<1>3. fingers = SubSeq(O, k + 1, l) /\ LookedUp
  BY <1>1, <1>2 DEF BonesInv
<1>4. k < l
  BY <1>1, <1>2, <1>3
<1>5. Head(fingers) = O[k + 1] /\ Tail(fingers) = SubSeq(O, k + 1 + 1, l)
  BY <1>1, <1>2, <1>3, <1>4
<1>6. Others' = O /\ LookedUp'
  BY <1>1, <1>3 DEF Others, LookedUp, IsBone, Named
<1>7. \A n : Pixel(n)' = Pixel(n)
  BY <1>1, <1>6 DEF Pixel
<1>8. u_v' = Append(u_v, Pixel(k + 1))
  BY <1>1, <1>5 DEF Pixel
<1>9. u_v = [n \in 1 .. k |-> Pixel(n)]
  BY <1>2 DEF BonesInv, Pixels
<1>10. u_v' = [n \in 1 .. k + 1 |-> Pixel(n)] /\ Len(u_v') = k + 1
  BY <1>8, <1>9
<1>11. Pixels'
  BY <1>2, <1>4, <1>6, <1>7, <1>10 DEF Pixels
<1>12. fingers' = SubSeq(Others', Len(u_v') + 1, Len(Others'))
  BY <1>2, <1>5, <1>6, <1>10
<1> QED
  BY <1>6, <1>11, <1>12 DEF BonesInv

LEMMA BonesStep == BonesInv /\ [CalibrationNext]_calibrationVars => BonesInv'
<1> SUFFICES ASSUME BonesInv, [CalibrationNext]_calibrationVars PROVE BonesInv'
  OBVIOUS
<1>1. CASE LoadFile
  <2>1. u_v = <<>> /\ stage' \in {"terminated", "parse"}
    BY <1>1 DEF LoadFile, BonesInv
  <2> QED
    BY <1>1, <2>1, BonesFrame DEF LoadFile
<1>2. CASE parseCamera
  <2>1. u_v = <<>> /\ stage' \in {"terminated", "parse", "lookup"}
    BY <1>2 DEF parseCamera, BonesInv
  <2> QED
    BY <1>2, <2>1, BonesFrame DEF parseCamera
<1>3. CASE LookUp
  BY <1>3, LookUpBones
<1>4. CASE Project
  <2>1. CASE fingers = <<>> /\ stage' = "print" /\ UNCHANGED <<fingers, u_v>>
    BY <1>4, <2>1, BonesFrame DEF Project
  <2>2. CASE stage' = "terminated" /\ UNCHANGED <<fingers, u_v>>
    BY <1>4, <2>2, BonesFrame DEF Project
  <2>3. CASE /\ fingers # <<>> /\ ~Throws3DTo2D(camera)
             /\ LET Pw == InChest(found.wrist, found.hand, found.chest, Head(fingers).pose.t)
                IN  u_v' = Append(u_v, pose3DTo2D(Pw, camera.ext))
             /\ fingers' = Tail(fingers)
             /\ UNCHANGED stage
    BY <1>4, <2>3, ProjectOne DEF Project
  <2> QED
    BY <1>4, <2>1, <2>2, <2>3 DEF Project
<1>5. CASE PrintCamera
  <2>1. stage' \in {"terminated", "done"}
    BY <1>5 DEF PrintCamera
  <2> QED
    BY <1>5, <2>1, BonesFrame DEF PrintCamera
<1>6. CASE UNCHANGED calibrationVars
  BY <1>6, BonesFrame DEF calibrationVars, BonesInv
<1> QED
  BY <1>1, <1>2, <1>3, <1>4, <1>5, <1>6 DEF CalibrationNext, CalibrationEnded

LEMMA BonesImplied == BonesInv => BonesLookedUp
BY DEF BonesInv, BonesLookedUp, LookedUp

LEMMA FramesImplied == BonesInv => FrameIndependent
<1> SUFFICES ASSUME BonesInv, NEW g \in Motions, NEW w \in Motions, NEW n \in 1 .. Len(u_v),
                    NoBone \notin {found.wrist, found.hand, found.chest}
             PROVE  u_v[n] = pose3DTo2D(InChest(Moved(g, found.wrist), Moved(w, found.hand), Moved(w, found.chest),
                                                Moved(g, Others[n]).pose.t), camera.ext)
  BY DEF FrameIndependent
<1>1. LookedUp /\ u_v[n] = Pixel(n)
  BY DEF BonesInv, Pixels
<1>2. /\ \E i \in DOMAIN glove_data : glove_data[i] = found.wrist
      /\ \E i \in DOMAIN tracker_data : tracker_data[i] = found.hand
      /\ \E i \in DOMAIN tracker_data : tracker_data[i] = found.chest
  BY <1>1 DEF LookedUp, IsBone
<1>3. PICK wrist \in Bones, hand \in Bones, chest \in Bones :
        /\ wrist = found.wrist /\ hand = found.hand /\ chest = found.chest
        /\ IsMotion(wrist.pose) /\ IsMotion(hand.pose) /\ IsMotion(chest.pose)
  BY <1>2, ListType DEF BonesInv
<1>4. IsMotion(g) /\ IsMotion(w)
  <2> SUFFICES ASSUME NEW m \in Motions PROVE IsMotion(m)
    OBVIOUS
  <2>1. m \in Poses /\ IsRotation(m.R) /\ m.R \in Matrices
    BY CalibrationAssumption DEF Poses, Matrices
  <2> QED
    BY <2>1, RotationTurns DEF IsMotion
<1>5. PICK b \in Bones : b = Others[n]
  <2>1. Others \in Seq(Bones) /\ n \in 1 .. Len(Others)
    BY OthersType DEF BonesInv, Pixels
  <2> QED
    BY <2>1
<1>6. PICK p \in Positions : p = b.pose.t /\ Moved(g, b).pose.t = Apply(g, p)
  BY DEF Bones, Poses, Moved
<1>7. InChest(Moved(g, wrist), Moved(w, hand), Moved(w, chest), Apply(g, p)) = InChest(wrist, hand, chest, p)
  BY <1>3, <1>4, ChainMoved
<1> QED
  BY <1>1, <1>3, <1>5, <1>6, <1>7 DEF Pixel

(* Whatever the glove and the trackers send, each bone looked up is the one of its name,
   and every other bone of the glove is projected once, in order. *)
THEOREM BonesTaken == CalibrationSpec => []BonesLookedUp
<1> QED
  BY BonesInit, BonesStep, BonesImplied, PTL DEF CalibrationSpec

(* The pixels are the same in whatever frames the glove and the trackers measure. *)
THEOREM FramesDoNotMatter == CalibrationSpec => []FrameIndependent
<1> QED
  BY BonesInit, BonesStep, FramesImplied, PTL DEF CalibrationSpec

-----------------------------------------------------------------------------
(* The poses read. *)

(* The file's tokens, and those the stream has gone past. *)
FileInv ==
  /\ Len(tokens) \in 0 .. MaxTokens /\ tokens = [i \in 1 .. Len(tokens) |-> tokens[i]]
  /\ \A i \in 1 .. Len(tokens) : tokens[i] \in {i, WORD}
  /\ blank \in BOOLEAN

Slots == [1 .. FIELDS -> Int \cup {WORD, JUNK}]
Stream == [taken : 0 .. Len(tokens), eof : BOOLEAN, fail : BOOLEAN, entry : Slots]

(* What one >> does to a stream. *)
LEMMA ExtractCases ==
  ASSUME NEW st \in Stream, NEW i
  PROVE  /\ st.fail => Extract(st, i) = st
         /\ ~st.fail /\ st.taken = Len(tokens) =>
              Extract(st, i) = [st EXCEPT !.fail = TRUE, !.eof = TRUE]
         /\ ~st.fail /\ st.taken < Len(tokens) /\ tokens[st.taken + 1] = WORD =>
              Extract(st, i) = [st EXCEPT !.fail = TRUE, !.entry[i] = 0]
         /\ ~st.fail /\ st.taken < Len(tokens) /\ tokens[st.taken + 1] # WORD =>
              Extract(st, i) = [st EXCEPT !.entry[i] = tokens[st.taken + 1], !.taken = @ + 1,
                                          !.eof = st.taken + 1 = Len(tokens) /\ ~blank]
<1>1. st.taken = Len(tokens) => ~(st.taken < Len(tokens))
  BY DEF Stream
<1>2. st.fail => Extract(st, i) = st
  BY DEF Extract
<1>3. ~st.fail /\ st.taken = Len(tokens) =>
              Extract(st, i) = [st EXCEPT !.fail = TRUE, !.eof = TRUE]
  BY <1>1 DEF Extract
<1>4. ASSUME ~st.fail, st.taken < Len(tokens)
      PROVE  st.taken # Len(tokens)
  BY <1>1, <1>4
<1>5. ~st.fail /\ st.taken < Len(tokens) /\ tokens[st.taken + 1] = WORD =>
              Extract(st, i) = [st EXCEPT !.fail = TRUE, !.entry[i] = 0]
  BY <1>1 DEF Extract
<1>6. ~st.fail /\ st.taken < Len(tokens) /\ tokens[st.taken + 1] # WORD =>
              Extract(st, i) = [st EXCEPT !.entry[i] = tokens[st.taken + 1], !.taken = @ + 1,
                                          !.eof = st.taken + 1 = Len(tokens) /\ ~blank]
  BY <1>1 DEF Extract
<1> QED
  BY <1>2, <1>3, <1>5, <1>6

LEMMA ExtractType ==
  ASSUME FileInv, NEW st \in Stream, NEW i \in 1 .. FIELDS
  PROVE  Extract(st, i) \in Stream
<1>1. PICK n \in Nat : n = Len(tokens)
  BY DEF FileInv
<1>2. PICK t \in 0 .. n, e \in BOOLEAN, fl \in BOOLEAN, en \in Slots :
        st = [taken |-> t, eof |-> e, fail |-> fl, entry |-> en]
  BY <1>1 DEF Stream
<1>3. st.taken = t /\ st.fail = fl
  BY <1>2
<1>4. \A x \in Int : [en EXCEPT ![i] = x] \in Slots
  BY DEF Slots
<1>5. CASE fl
  BY <1>3, <1>5, ExtractCases
<1>6. CASE ~fl /\ t = n
  <2>1. Extract(st, i) = [st EXCEPT !.fail = TRUE, !.eof = TRUE]
    BY <1>1, <1>3, <1>6, ExtractCases
  <2> QED
    BY <1>1, <1>2, <2>1 DEF Stream
<1>7. CASE ~fl /\ t # n
  <2>1. t < n /\ t + 1 \in 0 .. n /\ (tokens[t + 1] = WORD \/ tokens[t + 1] \in Int)
    BY <1>1, <1>7 DEF FileInv
  <2>2. CASE tokens[t + 1] = WORD
    <3>1. Extract(st, i) = [st EXCEPT !.fail = TRUE, !.entry[i] = 0]
      BY <1>1, <1>3, <1>7, <2>1, <2>2, ExtractCases
    <3>2. PICK new \in Slots : new = [en EXCEPT ![i] = 0]
      <4>1. [en EXCEPT ![i] = 0] \in Slots
        BY <1>4
      <4> QED
        BY <4>1
    <3>3. Extract(st, i) = [taken |-> t, eof |-> e, fail |-> TRUE, entry |-> new]
      BY <1>2, <3>1, <3>2
    <3> QED
      BY <1>1, <3>3 DEF Stream
  <2>3. CASE tokens[t + 1] # WORD
    <3>1. Extract(st, i) = [st EXCEPT !.entry[i] = tokens[st.taken + 1], !.taken = @ + 1,
                                      !.eof = st.taken + 1 = Len(tokens) /\ ~blank]
      BY <1>1, <1>3, <1>7, <2>1, <2>3, ExtractCases
    <3>2. Extract(st, i) = [taken |-> t + 1, eof |-> (t + 1 = n /\ ~blank), fail |-> fl,
                            entry |-> [en EXCEPT ![i] = tokens[t + 1]]]
      BY <1>1, <1>2, <1>3, <3>1
    <3>3. PICK new \in Slots, end \in BOOLEAN, m \in 0 .. n :
            /\ new = [en EXCEPT ![i] = tokens[t + 1]] /\ end = (t + 1 = n /\ ~blank)
            /\ m = t + 1
      BY <1>4, <2>1, <2>3
    <3>4. Extract(st, i) = [taken |-> m, eof |-> end, fail |-> fl, entry |-> new]
      BY <3>2, <3>3
    <3> QED
      BY <1>1, <3>4 DEF Stream
  <2> QED
    BY <2>2, <2>3
<1> QED
  BY <1>5, <1>6, <1>7

(* A stream that fails has met a word, or the end of the file. *)
Stopped(at, end) ==
  \/ end /\ at = Len(tokens)
  \/ ~end /\ at < Len(tokens) /\ tokens[at + 1] = WORD

(* The last number of the file has been read, and nothing follows it. *)
Spent(at) == at = Len(tokens) /\ at > 0 /\ ~blank

(* The stream within an entry, i of whose fields have been asked for, that begins
   after token start. *)
Reads(st, start, i) ==
  /\ st \in Stream /\ st.taken \in Numbers
  /\ ~st.fail => /\ st.taken = start + i /\ st.eof = Spent(st.taken)
                 /\ (st.eof => st.taken > start)
                 /\ \A f \in 1 .. i : st.entry[f] = start + f
  /\ st.fail => /\ st.taken >= start /\ st.taken < start + i /\ Stopped(st.taken, st.eof)
                /\ (st.eof => st.taken > start \/ ~Spent(st.taken))

LEMMA ExtractReads ==
  ASSUME FileInv, NEW start \in Nat, NEW h \in Nat, NEW i \in 1 .. FIELDS, i - h = 1,
         NEW st, Reads(st, start, h)
  PROVE  Reads(Extract(st, i), start, i)
<1>1. PICK n \in Nat : n = Len(tokens)
  BY DEF FileInv
<1>2. PICK t \in 0 .. n, e \in BOOLEAN, fl \in BOOLEAN, en \in Slots :
        st = [taken |-> t, eof |-> e, fail |-> fl, entry |-> en]
  BY <1>1 DEF Reads, Stream
<1>3. st.taken = t /\ st.eof = e /\ st.fail = fl /\ st.entry = en /\ st \in Stream
  BY <1>2 DEF Reads
<1>4. t \in Numbers
  BY <1>3 DEF Reads
<1>5. CASE fl
  <2>1. Extract(st, i) = st
    BY <1>3, <1>5, ExtractCases
  <2>2. t >= start /\ t < start + h /\ Stopped(t, e) /\ (e => t > start \/ ~Spent(t))
    BY <1>3, <1>5 DEF Reads
  <2>3. t < start + i
    BY <2>2
  <2> QED
    BY <1>3, <1>4, <1>5, <2>1, <2>2, <2>3 DEF Reads
<1>6. CASE ~fl
  <2>1. t = start + h /\ e = Spent(t) /\ (e => t > start) /\ \A f \in 1 .. h : en[f] = start + f
    BY <1>3, <1>6 DEF Reads
  <2>2. CASE t = n
    <3>1. Extract(st, i) = [taken |-> t, eof |-> TRUE, fail |-> TRUE, entry |-> en]
      <4>1. Extract(st, i) = [st EXCEPT !.fail = TRUE, !.eof = TRUE]
        BY <1>1, <1>3, <1>6, <2>2, ExtractCases
      <4> QED
        BY <1>2, <4>1
    <3>2. Extract(st, i) \in Stream
      BY <1>1, <3>1 DEF Stream
    <3>3. Stopped(t, TRUE) /\ t >= start /\ t < start + i /\ (t > start \/ ~Spent(t))
      BY <1>1, <2>1, <2>2 DEF Stopped
    <3>4. PICK u : u = Extract(st, i) /\ u.taken = t /\ u.eof = TRUE /\ u.fail = TRUE
      BY <3>1
    <3> QED
      BY <1>4, <3>2, <3>3, <3>4 DEF Reads
  <2>3. CASE t # n /\ tokens[t + 1] = WORD
    <3>1. t < n
      BY <2>3
    <3>2. Extract(st, i) = [taken |-> t, eof |-> e, fail |-> TRUE, entry |-> [en EXCEPT ![i] = 0]]
      <4>1. Extract(st, i) = [st EXCEPT !.fail = TRUE, !.entry[i] = 0]
        BY <1>1, <1>3, <1>6, <2>3, <3>1, ExtractCases
      <4> QED
        BY <1>2, <4>1
    <3>3. [en EXCEPT ![i] = 0] \in Slots
      BY DEF Slots
    <3>4. Extract(st, i) \in Stream
      BY <1>1, <3>2, <3>3 DEF Stream
    <3>5. ~e
      BY <1>1, <2>1, <2>3 DEF Spent
    <3>6. Stopped(t, e) /\ t >= start /\ t < start + i
      BY <1>1, <2>1, <2>3, <3>1, <3>5 DEF Stopped
    <3> QED
      BY <1>4, <3>2, <3>4, <3>5, <3>6 DEF Reads
  <2>4. CASE t # n /\ tokens[t + 1] # WORD
    <3>1. PICK m \in 1 .. n : m = t + 1 /\ tokens[m] = m
      BY <1>1, <2>4 DEF FileInv
    <3>2. PICK end \in BOOLEAN : end = (m = n /\ ~blank)
      OBVIOUS
    <3>3. PICK new : new = [en EXCEPT ![i] = m]
      OBVIOUS
    <3>4. Extract(st, i) = [taken |-> m, eof |-> end, fail |-> FALSE, entry |-> new]
      <4>1. t < n
        BY <2>4
      <4>2. Extract(st, i) = [st EXCEPT !.entry[i] = tokens[st.taken + 1], !.taken = @ + 1,
                                        !.eof = st.taken + 1 = Len(tokens) /\ ~blank]
        BY <1>1, <1>3, <1>6, <2>4, <4>1, ExtractCases
      <4>3. Extract(st, i) = [taken |-> t + 1, eof |-> (t + 1 = n /\ ~blank), fail |-> fl,
                               entry |-> [en EXCEPT ![i] = tokens[t + 1]]]
        BY <1>1, <1>2, <1>3, <4>2
      <4>4. fl = FALSE
        BY <1>6
      <4> QED
        BY <3>1, <3>2, <3>3, <4>3, <4>4
    <3>5. new \in Slots
      BY <3>1, <3>3 DEF Slots
    <3>6. Extract(st, i) \in Stream
      BY <1>1, <3>1, <3>4, <3>5 DEF Stream
    <3>7. m \in Numbers
      <4>1. \A j \in 1 .. t : tokens[j] # WORD
        BY <1>4 DEF Numbers
      <4>2. \A j \in 1 .. m : j \in 1 .. t \/ j = t + 1
        BY <3>1
      <4>3. \A j \in 1 .. m : tokens[j] # WORD
        BY <2>4, <4>1, <4>2
      <4> QED
        BY <1>1, <3>1, <4>3 DEF Numbers
    <3>8. m = start + i
      BY <2>1, <3>1
    <3>9. \A f \in 1 .. i : new[f] = start + f
      <4>1. en \in [1 .. FIELDS -> Int \cup {WORD, JUNK}] /\ \A f \in 1 .. i : f \in 1 .. FIELDS
        BY TrajectoryAssumption DEF Slots
      <4>2. \A f \in 1 .. i : f = i \/ (f \in 1 .. h /\ f # i)
        OBVIOUS
      <4> QED
        BY <2>1, <3>3, <3>8, <4>1, <4>2
    <3>10. end = Spent(m) /\ m > start
      BY <1>1, <2>1, <3>1, <3>2 DEF Spent
    <3> QED
      BY <1>1, <3>4, <3>6, <3>7, <3>8, <3>9, <3>10 DEF Reads
  <2> QED
    BY <2>2, <2>3, <2>4
<1> QED
  BY <1>5, <1>6

(* The fields of an entry are read one after another. *)
EntryRead(base) == FoldLeft(Extract, base, [i \in 1 .. FIELDS |-> i])

LEMMA FieldsScanned ==
  ASSUME FileInv, NEW base \in Stream
  PROVE  \E f : /\ f[0] = base
                /\ \A i, h \in 0 .. FIELDS : i - h = 1 => f[i] = Extract(f[h], i)
                /\ EntryRead(base) = f[FIELDS]
<1> DEFINE t == [i \in 1 .. FIELDS |-> i]
           Step(it, r) == IF r = {} THEN base ELSE Extract(it[r \ {Max(r)}], t[Max(r)])
           it == CHOOSE it : it = [r \in SUBSET DOMAIN t |-> Step(it, r)]
<1>1. EntryRead(base) = it[DOMAIN t]
  BY DEF EntryRead, FoldLeft, MapThenFoldSet
<1>2. PICK n \in Nat : n = FIELDS /\ DOMAIN t = 1 .. n /\ \A i \in 1 .. n : t[i] = i
  BY TrajectoryAssumption
<1>3. it = [r \in SUBSET DOMAIN t |-> Step(it, r)]
  <2> HIDE DEF t
  <2>1. PICK G : G = [i \in 1 .. n |-> [st \in Stream |-> Extract(st, i)]]
    OBVIOUS
  <2>2. \A i \in 1 .. n, st \in Stream : Extract(st, i) \in Stream
    BY <1>2, ExtractType
  <2>3. G \in [1 .. n -> [Stream -> Stream]]
    BY <2>1, <2>2
  <2>4. PICK g : g \in [SUBSET (1 .. n) -> Stream] /\ LeftFolds(g, n, G, base)
    BY <2>3, LeftFoldExists
  <2>5. \A r \in SUBSET (1 .. n) : g[r] = Step(g, r)
    BY <1>2, <2>1, <2>4, MaxInterval DEF LeftFolds
  <2> HIDE DEF Step
  <2>6. g = [r \in SUBSET DOMAIN t |-> Step(g, r)]
    BY <1>2, <2>4, <2>5
  <2> QED
    BY <2>6
<1> HIDE DEF it, t
<1>4. PICK f : Scans(f, it, n)
  BY LeftScan
<1>5. ASSUME NEW i \in 0 .. n, NEW h \in 0 .. n, i - h = 1
      PROVE  f[i] = Extract(f[h], i)
  <2>1. it[1 .. i] = Step(it, 1 .. i)
    <3>1. (1 .. i) \in SUBSET DOMAIN t
      BY <1>2, <1>4, <1>5 DEF Scans
    <3> HIDE DEF Step
    <3> QED
      BY <1>3, <3>1
  <2>2. t[i] = i
    BY <1>2, <1>4, <1>5 DEF Scans
  <2> QED
    BY <1>4, <1>5, <2>1, <2>2 DEF Scans
<1>6. f[0] = base
  <2>1. it[{}] = Step(it, {})
    BY <1>2, <1>3, <1>4 DEF Scans
  <2> QED
    BY <1>4, <2>1 DEF Scans
<1>7. EntryRead(base) = f[n]
  BY <1>1, <1>2, <1>4 DEF Scans
<1> QED
  BY <1>2, <1>5, <1>6, <1>7

LEMMA PoseRead ==
  ASSUME FileInv, NEW start \in Nat, NEW base \in Stream,
         NEW st, st = EntryRead(base)
  PROVE  /\ base.fail => st = base
         /\ Reads(base, start, 0) => Reads(st, start, FIELDS)
<1>1. PICK f : /\ f[0] = base /\ f[FIELDS] = st
               /\ \A i, h \in 0 .. FIELDS : i - h = 1 => f[i] = Extract(f[h], i)
  BY FieldsScanned
<1>2. FIELDS \in Nat
  BY TrajectoryAssumption
<1> DEFINE Same(i) == base.fail => f[i] = base
           I == {i \in Nat : i <= FIELDS => Same(i)}
           Going(i) == Reads(base, start, 0) => Reads(f[i], start, i)
           J == {i \in Nat : i <= FIELDS => Going(i)}
<1>3. 0 \in I /\ 0 \in J
  BY <1>1
<1>4. ASSUME NEW h \in Nat
      PROVE  (h \in I => h + 1 \in I) /\ (h \in J => h + 1 \in J)
  <2>1. PICK i \in Nat : i = h + 1
    OBVIOUS
  <2>2. ASSUME i <= FIELDS
        PROVE  f[i] = Extract(f[h], i) /\ i \in 1 .. FIELDS /\ h <= FIELDS /\ i - h = 1
    BY <1>1, <1>2, <2>1, <2>2
  <2>3. i <= FIELDS /\ Same(h) => Same(i)
    BY <2>2, ExtractCases
  <2>4. i <= FIELDS /\ Going(h) => Going(i)
    BY <2>2, ExtractReads
  <2> HIDE DEF Same, Going
  <2> QED
    BY <2>1, <2>2, <2>3, <2>4
<1>5. Nat \subseteq I /\ Nat \subseteq J
  <2> HIDE DEF I, J
  <2> QED
    BY <1>3, <1>4, SetInduction
<1>6. Same(FIELDS) /\ Going(FIELDS)
  <2> HIDE DEF Same, Going
  <2> QED
    BY <1>2, <1>5
<1> QED
  BY <1>1, <1>6

(* The stream is between two entries, or stopped in the middle of one: the last that
   was read if that was at the end of the file. *)
PosesInv ==
  /\ ~fail => /\ taken = Len(poses) * FIELDS /\ eof = Spent(taken)
              /\ \A n \in 1 .. Len(poses) : poses[n] = Entry(n)
  /\ fail => /\ Stopped(taken, eof)
             /\ \E whole \in 0 .. Len(poses) - 1 :
                  /\ whole * FIELDS <= taken /\ taken < whole * FIELDS + FIELDS
                  /\ \A n \in 1 .. whole : poses[n] = Entry(n)
                  /\ eof => /\ Len(poses) = whole + 1
                            /\ taken > whole * FIELDS \/ ~Spent(taken)

TrajectoryInv ==
  /\ FileInv
  /\ taken \in Numbers /\ eof \in BOOLEAN /\ fail \in BOOLEAN /\ poses \in Seq(Slots)
  /\ PosesInv
  /\ reading \in {"draw", "quit"} => eof
  /\ reading = "terminated" => \E i \in DOMAIN tokens : tokens[i] = WORD
  /\ lines # <<>> => /\ reading \in {"draw", "quit"}
                     /\ lines = [i \in DOMAIN poses |-> Line(i)]

(* Multiples of the number of fields. *)
LEMMA Multiples ==
  ASSUME NEW a \in Nat, NEW b \in Nat
  PROVE  /\ a * FIELDS \in Nat /\ a <= a * FIELDS /\ 0 * FIELDS = 0
         /\ (b = a + 1 => b * FIELDS = a * FIELDS + FIELDS)
         /\ (a <= b => a * FIELDS <= b * FIELDS)
         /\ (a < b => a * FIELDS + FIELDS <= b * FIELDS)
<1>1. PICK F \in Nat : F = FIELDS /\ F # 0
  BY TrajectoryAssumption
<1>2. a * F \in Nat /\ a <= a * F /\ 0 * F = 0
  BY <1>1
<1>3. b = a + 1 => b * F = a * F + F
  OBVIOUS
<1>4. a <= b => a * F <= b * F
  <2> SUFFICES ASSUME a <= b PROVE a * F <= b * F
    OBVIOUS
  <2>1. PICK d \in Nat : b = a + d
    OBVIOUS
  <2>2. b * F = a * F + d * F /\ d * F \in Nat
    BY <2>1
  <2> QED
    BY <1>2, <2>2
<1>5. a < b => a * F + F <= b * F
  <2> SUFFICES ASSUME a < b PROVE a * F + F <= b * F
    OBVIOUS
  <2>1. PICK d \in Nat : b = a + 1 + d
    <3>1. b - a - 1 \in Nat
      OBVIOUS
    <3> QED
      BY <3>1
  <2>2. b * F = a * F + F + d * F /\ d * F \in Nat
    BY <2>1
  <2> QED
    BY <1>2, <2>2
<1> QED
  BY <1>1, <1>2, <1>3, <1>4, <1>5

LEMMA TrajectoryInvInit == TrajectoryInit => TrajectoryInv
<1> SUFFICES ASSUME TrajectoryInit PROVE TrajectoryInv
  OBVIOUS
<1>1. taken = 0 /\ eof = FALSE /\ fail = FALSE /\ poses = <<>> /\ lines = <<>> /\ reading = "open"
  BY DEF TrajectoryInit
<1>2. FileInv
  <2>1. PICK n \in 0 .. MaxTokens :
          \E words : tokens = [i \in 1 .. n |-> IF i \in words THEN WORD ELSE i]
    <3>1. PICK file : file = tokens /\ file \in Files
      BY DEF TrajectoryInit
    <3>2. PICK n \in 0 .. MaxTokens :
            file \in {[i \in 1 .. n |-> IF i \in words THEN WORD ELSE i] : words \in SUBSET (1 .. n)}
      BY <3>1 DEF Files
    <3> QED
      BY <3>1, <3>2
  <2>2. n \in Nat
    BY TrajectoryAssumption
  <2>3. Len(tokens) = n
    BY <2>1, <2>2
  <2> QED
    BY <2>1, <2>3 DEF FileInv, TrajectoryInit
<1>3. taken \in Numbers
  BY <1>1, <1>2 DEF Numbers, FileInv
<1>4. PosesInv
  <2>1. taken = Len(poses) * FIELDS /\ \A n \in 1 .. Len(poses) : FALSE
    BY <1>1, Multiples
  <2>2. Spent(taken) = FALSE
    BY <1>1 DEF Spent
  <2> QED
    BY <1>1, <2>1, <2>2 DEF PosesInv
<1>5. poses \in Seq(Slots)
  BY <1>1, EmptySeq
<1> QED
  BY <1>1, <1>2, <1>3, <1>4, <1>5 DEF TrajectoryInv

(* One more entry. *)
LEMMA PoseStep ==
  ASSUME TrajectoryInv, ReadPose
  PROVE  TrajectoryInv'
<1>1. PICK base : base = [taken |-> taken, eof |-> eof, fail |-> fail,
                          entry |-> [i \in 1 .. FIELDS |-> JUNK]]
  OBVIOUS
<1>2. PICK p \in Nat, n \in Nat : p = Len(poses) /\ n = Len(tokens) /\ n <= MaxTokens
  BY TrajectoryAssumption DEF TrajectoryInv, FileInv
<1>3. base \in Stream /\ base.taken = taken /\ base.eof = eof /\ base.fail = fail
  BY <1>1, <1>2 DEF Stream, Slots, TrajectoryInv, Numbers
<1>4. PICK st : /\ st = EntryRead(base)
                /\ taken' = st.taken /\ eof' = st.eof /\ fail' = st.fail
                /\ IF Len(poses) = MaxPoses THEN reading' = "terminated" /\ UNCHANGED poses
                   ELSE poses' = Append(poses, st.entry) /\ UNCHANGED reading
  BY <1>1 DEF ReadPose, EntryRead, KeepEntry
<1>5. /\ reading = "loop" /\ ~eof /\ UNCHANGED <<tokens, blank, lines>> /\ lines = <<>>
  BY DEF ReadPose, TrajectoryInv
<1>6. FileInv' /\ FileInv
  BY <1>5 DEF FileInv, TrajectoryInv
<1>7. PICK start \in Nat : start = p * FIELDS
  BY Multiples
<1>8. ~fail => Reads(base, start, 0)
  <2> SUFFICES ASSUME ~fail PROVE Reads(base, start, 0)
    OBVIOUS
  <2>1. taken = start + 0 /\ ~eof /\ eof = Spent(taken) /\ taken \in Numbers
    BY <1>2, <1>5, <1>7, Multiples DEF TrajectoryInv, PosesInv
  <2>2. \A f \in 1 .. 0 : FALSE
    OBVIOUS
  <2> QED
    BY <1>3, <2>1, <2>2 DEF Reads
<1>9. /\ fail => st = base
      /\ ~fail => Reads(st, start, FIELDS)
  BY <1>3, <1>4, <1>6, <1>8, PoseRead
<1>10. st \in Stream /\ st.taken \in Numbers
  BY <1>3, <1>9 DEF Reads, TrajectoryInv
<1>11. /\ st.entry \in Slots /\ eof' \in BOOLEAN /\ fail' \in BOOLEAN
       /\ taken' \in Numbers' /\ tokens' = tokens
  BY <1>4, <1>5, <1>10 DEF Stream, Numbers
<1>12. CASE Len(poses) = MaxPoses
  <2>1. fail
    <3> SUFFICES ASSUME ~fail PROVE FALSE
      OBVIOUS
    <3>1. taken = MaxPoses * FIELDS /\ taken \in 0 .. n
      BY <1>2, <1>12 DEF TrajectoryInv, PosesInv, Numbers
    <3>2. MaxPoses * FIELDS > MaxTokens + FIELDS /\ FIELDS \in Nat /\ MaxTokens \in Nat
      BY TrajectoryAssumption
    <3> QED
      BY <1>2, <3>1, <3>2
  <2>2. taken' = taken /\ eof' = eof /\ fail' = fail /\ poses' = poses /\ reading' = "terminated"
    BY <1>3, <1>4, <1>9, <1>12, <2>1
  <2>3. PosesInv'
    BY <1>5, <2>2 DEF TrajectoryInv, PosesInv, Stopped, Spent, Entry
  <2>4. \E i \in DOMAIN tokens : tokens[i] = WORD
    <3>1. taken + 1 \in DOMAIN tokens /\ tokens[taken + 1] = WORD
      BY <1>2, <1>5, <2>1 DEF TrajectoryInv, PosesInv, Stopped, FileInv, Numbers
    <3> QED
      BY <3>1
  <2> QED
    BY <1>5, <1>6, <1>11, <2>2, <2>3, <2>4 DEF TrajectoryInv
<1>13. CASE Len(poses) # MaxPoses
  <2>1. poses' = Append(poses, st.entry) /\ reading' = "loop" /\ poses \in Seq(Slots)
    BY <1>4, <1>5, <1>13 DEF TrajectoryInv
  <2>2. PICK m \in Nat : m = p + 1 /\ m * FIELDS = start + FIELDS
    BY <1>7, Multiples
  <2>3. /\ Len(poses)' = m /\ poses' \in Seq(Slots) /\ poses'[m] = st.entry
        /\ \A i \in 1 .. p : poses'[i] = poses[i]
    BY <1>2, <1>11, <2>1, <2>2
  <2>4. PosesInv'
    <3>1. CASE ~fail /\ ~st.fail
      <4>1. /\ st.taken = start + FIELDS /\ st.eof = Spent(st.taken)
            /\ \A f \in 1 .. FIELDS : st.entry[f] = start + f
        BY <1>9, <3>1 DEF Reads
      <4>2. st.entry = Entry(m)
        <5>1. m - 1 = p
          BY <2>2
        <5>2. Entry(m) = [f \in 1 .. FIELDS |-> start + f]
          BY <1>7, <5>1 DEF Entry
        <5> QED
          BY <1>11, <4>1, <5>2 DEF Slots
      <4>3. \A i \in 1 .. p : poses[i] = Entry(i)
        BY <1>2, <3>1 DEF TrajectoryInv, PosesInv
      <4>4. \A i \in 1 .. m : poses'[i] = Entry(i)
        BY <2>2, <2>3, <4>2, <4>3
      <4>5. taken' = Len(poses)' * FIELDS /\ eof' = Spent(taken)'
        BY <1>4, <1>5, <1>11, <2>2, <2>3, <4>1 DEF Spent
      <4>6. \A i \in 1 .. Len(poses') : poses'[i] = Entry(i)'
        BY <2>3, <4>4 DEF Entry
      <4> QED
        BY <1>4, <3>1, <4>5, <4>6 DEF PosesInv
    <3>2. CASE ~fail /\ st.fail
      <4>1. /\ st.taken >= start /\ st.taken < start + FIELDS /\ Stopped(st.taken, st.eof)
            /\ (st.eof => st.taken > start \/ ~Spent(st.taken))
        BY <1>9, <3>2 DEF Reads
      <4>2. \A i \in 1 .. p : poses[i] = Entry(i)
        BY <1>2, <3>2 DEF TrajectoryInv, PosesInv
      <4>3. Stopped(taken, eof)'
        BY <1>4, <1>11, <4>1 DEF Stopped
      <4>4. PICK whole \in 0 .. m - 1 : whole = p
        BY <2>2
      <4>5. /\ whole * FIELDS <= taken' /\ taken' < whole * FIELDS + FIELDS
            /\ \A i \in 1 .. whole : poses'[i] = Entry(i)'
            /\ Len(poses') = whole + 1
            /\ eof' => taken' > whole * FIELDS \/ ~Spent(taken)'
        BY <1>4, <1>5, <1>7, <2>2, <2>3, <4>1, <4>2, <4>4 DEF Entry, Spent
      <4>6. whole \in 0 .. Len(poses') - 1
        BY <2>3, <4>4
      <4> QED
        BY <1>4, <3>2, <4>3, <4>5, <4>6 DEF PosesInv
    <3>3. CASE fail
      <4>1. taken' = taken /\ eof' = eof /\ fail' = fail
        BY <1>3, <1>4, <1>9, <3>3
      <4>2. Stopped(taken, eof)'
        BY <1>11, <3>3, <4>1 DEF TrajectoryInv, PosesInv, Stopped
      <4>3. PICK whole \in 0 .. p - 1 :
              /\ whole * FIELDS <= taken /\ taken < whole * FIELDS + FIELDS
              /\ \A i \in 1 .. whole : poses[i] = Entry(i)
        BY <1>2, <3>3 DEF TrajectoryInv, PosesInv
      <4>4. /\ whole \in 0 .. Len(poses') - 1
            /\ \A i \in 1 .. whole : poses'[i] = Entry(i)'
        BY <1>2, <2>2, <2>3, <4>3 DEF Entry
      <4> QED
        BY <1>5, <3>3, <4>1, <4>2, <4>3, <4>4 DEF PosesInv
    <3> QED
      BY <3>1, <3>2, <3>3
  <2> QED
    BY <1>5, <1>6, <1>11, <2>1, <2>3, <2>4 DEF TrajectoryInv
<1> QED
  BY <1>12, <1>13

LEMMA TrajectoryStep == TrajectoryInv /\ [TrajectoryNext]_trajectoryVars => TrajectoryInv'
<1> SUFFICES ASSUME TrajectoryInv, [TrajectoryNext]_trajectoryVars PROVE TrajectoryInv'
  OBVIOUS
<1>1. ASSUME UNCHANGED <<tokens, blank, taken, eof, fail, poses>>
      PROVE  /\ FileInv' /\ taken' \in Numbers' /\ eof' \in BOOLEAN /\ fail' \in BOOLEAN
             /\ poses' \in Seq(Slots) /\ PosesInv'
             /\ [i \in DOMAIN poses |-> Line(i)]' = [i \in DOMAIN poses |-> Line(i)]
  BY <1>1 DEF TrajectoryInv, FileInv, Numbers, PosesInv, Stopped, Spent, Entry, Line
<1>2. CASE OpenTrajectory
  BY <1>1, <1>2 DEF OpenTrajectory, TrajectoryInv
<1>3. CASE ReadPose
  BY <1>3, PoseStep
<1>4. CASE LeaveLoop
  BY <1>1, <1>4 DEF LeaveLoop, TrajectoryInv
<1>5. CASE DrawTrajectory
  BY <1>1, <1>5 DEF DrawTrajectory, TrajectoryInv
<1>6. CASE UNCHANGED trajectoryVars
  BY <1>1, <1>6 DEF trajectoryVars, TrajectoryInv
<1> QED
  BY <1>2, <1>3, <1>4, <1>5, <1>6 DEF TrajectoryNext, TrajectoryEnded

LEMMA TrajectoryImplied == TrajectoryInv => TrajectoryFaithful
<1> SUFFICES ASSUME TrajectoryInv PROVE TrajectoryFaithful
  OBVIOUS
<1>1. PICK p \in Nat, m \in Nat : p = Len(poses) /\ m = Len(tokens) /\ DOMAIN poses = 1 .. p
  <2>1. PICK m \in Nat : m = Len(tokens)
    BY TrajectoryAssumption DEF TrajectoryInv, FileInv
  <2>2. poses \in Seq(Slots)
    BY DEF TrajectoryInv
  <2>3. PICK p \in Nat : p = Len(poses) /\ DOMAIN poses = 1 .. p
    BY <2>2
  <2> QED
    BY <2>1, <2>3
<1>2. taken \in 0 .. m /\ \A i \in 1 .. taken : tokens[i] # WORD
  BY <1>1 DEF TrajectoryInv, Numbers
<1>3. ASSUME NEW n \in Whole
      PROVE  /\ n \in Nat /\ n \in 1 .. m /\ n * FIELDS \in Nat /\ n * FIELDS <= m
             /\ \A i \in 1 .. n * FIELDS : tokens[i] # WORD
  BY <1>1, Multiples DEF Whole, Numbers
<1>4. FIELDS \in Nat /\ FIELDS # 0
  BY TrajectoryAssumption
<1>5. ASSUME fail
      PROVE  \E whole \in Nat :
               /\ whole < p
               /\ (eof => p = whole + 1 /\ (taken > whole * FIELDS \/ ~Spent(taken)))
               /\ whole * FIELDS <= taken
               /\ \A n \in 1 .. whole : poses[n] = Entry(n)
               /\ \A n \in Whole : n <= whole
  <2>1. PICK whole \in 0 .. p - 1 :
          /\ whole * FIELDS <= taken /\ taken < whole * FIELDS + FIELDS
          /\ \A n \in 1 .. whole : poses[n] = Entry(n)
          /\ eof => p = whole + 1 /\ (taken > whole * FIELDS \/ ~Spent(taken))
    BY <1>1, <1>5 DEF TrajectoryInv, PosesInv
  <2>2. whole \in Nat /\ whole < p /\ whole * FIELDS \in Nat
    BY Multiples
  <2>3. Stopped(taken, eof)
    BY <1>5 DEF TrajectoryInv, PosesInv
  <2>4. ASSUME NEW n \in Whole PROVE n <= whole
    <3> SUFFICES ASSUME whole < n PROVE FALSE
      BY <1>3, <2>2
    <3>1. whole * FIELDS + FIELDS <= n * FIELDS
      BY <1>3, <2>2, Multiples
    <3>2. taken < n * FIELDS /\ n * FIELDS <= m
      BY <1>2, <1>3, <1>4, <2>1, <2>2, <3>1
    <3>3. taken < m /\ taken + 1 \in 1 .. n * FIELDS
      BY <1>2, <1>3, <3>2
    <3>4. tokens[taken + 1] = WORD
      BY <1>1, <2>3, <3>3 DEF Stopped
    <3> QED
      BY <1>3, <3>3, <3>4
  <2> QED
    BY <2>1, <2>2, <2>4
<1>6. \A n \in Whole : n <= p => poses[n] = Entry(n)
  <2>1. CASE ~fail
    BY <1>1, <1>3, <2>1 DEF TrajectoryInv, PosesInv
  <2>2. CASE fail
    BY <1>3, <1>5, <2>2
  <2> QED
    BY <2>1, <2>2
<1>7. ASSUME eof
      PROVE  /\ Whole \subseteq 1 .. p
             /\ 1 .. p \ Whole = IF EndsWithEntry THEN {} ELSE {p}
  <2>1. taken = m
    BY <1>1, <1>7 DEF TrajectoryInv, PosesInv, Stopped, Spent
  <2>2. ASSUME NEW n \in 1 .. p, n * FIELDS <= taken PROVE n \in Whole
    <3>1. n \in Nat /\ n * FIELDS \in Nat /\ n <= n * FIELDS
      BY Multiples
    <3>2. n \in 1 .. m /\ n * FIELDS \in 0 .. m
      BY <2>1, <2>2, <3>1
    <3>3. \A i \in 1 .. n * FIELDS : tokens[i] # WORD
      BY <1>2, <2>2, <3>1
    <3> QED
      BY <1>1, <3>2, <3>3 DEF Whole, Numbers
  <2>3. CASE ~fail
    <3>1. taken = p * FIELDS /\ m > 0 /\ ~blank
      BY <1>1, <1>7, <2>3 DEF TrajectoryInv, PosesInv, Spent
    <3>2. \A n \in 1 .. p : n * FIELDS <= taken
      BY <3>1, Multiples
    <3>3. ASSUME NEW n \in Whole PROVE n <= p
      <4> SUFFICES ASSUME p < n PROVE FALSE
        BY <1>3
      <4>1. p * FIELDS + FIELDS <= n * FIELDS /\ p * FIELDS \in Nat
        BY <1>3, Multiples
      <4> QED
        BY <1>3, <1>4, <2>1, <3>1, <4>1
    <3>4. p # 0
      BY <2>1, <3>1, Multiples
    <3>5. p \in Whole
      BY <2>2, <3>2, <3>4
    <3>6. EndsWithEntry
      BY <1>1, <2>1, <3>1, <3>5 DEF EndsWithEntry
    <3> QED
      BY <1>3, <2>2, <3>2, <3>3, <3>6
  <2>4. CASE fail
    <3>1. PICK whole \in Nat :
            /\ p = whole + 1 /\ whole * FIELDS <= taken
            /\ taken > whole * FIELDS \/ ~Spent(taken)
            /\ \A n \in Whole : n <= whole
      BY <1>5, <1>7, <2>4
    <3>2. \A n \in Whole : n <= p
      BY <1>3, <3>1
    <3>3. ASSUME NEW n \in 1 .. p, n # p PROVE n * FIELDS <= taken
      <4>1. n \in Nat /\ n <= whole
        BY <3>1, <3>3
      <4>2. n * FIELDS <= whole * FIELDS /\ n * FIELDS \in Nat /\ whole * FIELDS \in Nat
        BY <4>1, Multiples
      <4> QED
        BY <1>2, <3>1, <4>2
    <3>4. p \notin Whole
      BY <3>1
    <3>5. ~EndsWithEntry
      <4> SUFFICES ASSUME NEW n \in Whole, ~blank, n * FIELDS = m PROVE FALSE
        BY <1>1 DEF EndsWithEntry
      <4>1. n * FIELDS <= whole * FIELDS /\ whole * FIELDS \in Nat /\ n <= n * FIELDS
        BY <1>3, <3>1, Multiples
      <4>2. whole * FIELDS = taken /\ m > 0
        BY <1>3, <2>1, <3>1, <4>1
      <4>3. Spent(taken)
        BY <1>1, <2>1, <4>2 DEF Spent
      <4> QED
        BY <1>2, <3>1, <4>2, <4>3
    <3>6. 1 .. p \ Whole = {p}
      <4>1. \A n \in 1 .. p : n # p => n \in Whole
        BY <2>2, <3>3
      <4>2. p \in 1 .. p
        BY <3>1
      <4> QED
        BY <3>4, <4>1, <4>2
    <3> QED
      BY <1>3, <3>2, <3>5, <3>6
  <2> QED
    BY <2>3, <2>4
<1>8. ASSUME NEW n \in Whole, n + 1 \in Whole, lines # <<>>
      PROVE  lines[n] = <<Entry(n), Entry(n + 1)>>
  <2>1. eof /\ lines = [i \in DOMAIN poses |-> Line(i)]
    BY <1>8 DEF TrajectoryInv
  <2>2. n \in 1 .. p /\ n + 1 <= p /\ n \in Nat
    BY <1>3, <1>7, <1>8, <2>1
  <2>3. lines[n] = <<poses[n], poses[n + 1]>>
    BY <1>1, <2>1, <2>2 DEF Line
  <2> QED
    BY <1>6, <1>8, <2>2, <2>3
<1>9. reading = "terminated" => \E i \in DOMAIN tokens : tokens[i] = WORD
  BY DEF TrajectoryInv
<1>10. reading \in {"draw", "quit"} => eof
  BY DEF TrajectoryInv
<1> QED
  BY <1>1, <1>6, <1>7, <1>8, <1>9, <1>10 DEF TrajectoryFaithful

(* Of a file of any length, with entries of any number of fields, every whole entry is
   kept, in order, and the path joins them; one more entry is kept exactly where the file
   does not end with the last number of an entry. *)
THEOREM TrajectoryRead == TrajectorySpec => []TrajectoryFaithful
<1> QED
  BY TrajectoryInvInit, TrajectoryStep, TrajectoryImplied, PTL DEF TrajectorySpec
===============================================================================
