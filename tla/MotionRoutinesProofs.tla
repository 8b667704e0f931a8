------------------------ MODULE MotionRoutinesProofs ------------------------
(***************************************************************************)
(* The routines proved for all goals, diameters, limits and homes: the     *)
(* motors rest where the command said, strokes stay around the goal, the   *)
(* laser fires on the target and nothing is asked of a motor in motion.    *)
(*                                                                         *)
(* A routine is run on paper, for one motor at a time: between two of its  *)
(* operations a point says whether the motor may still be moving, where    *)
(* it is sent (if that is known) and what the laser does.  The script left *)
(* always Leads from a point that Fits the motor to one where it Ends,     *)
(* and every operation on the way is Allowed.                              *)
(***************************************************************************)
EXTENDS MotionRoutines, SequenceTheorems, TLAPS

Points == [moves : BOOLEAN, known : BOOLEAN, at : Int, laser : {"off", "timed", "steady"}]

Operations ==
  [op : {"by", "to", "wait", "reference", "magnet", "enable", "flash", "steady", "off"},
   m : Motors, n : Int]

Point(moves, known, x, light) ==
  [moves |-> moves, known |-> known, at |-> x, laser |-> light]

\* Operation o takes motor m and the laser from the point p to this one.
After(o, m, p) ==
  CASE o.op \in {"steady", "off"} -> Point(p.moves, p.known, p.at, o.op)
    [] o.op = "flash" -> Point(p.moves, p.known, p.at, "timed")
    [] o.m = m /\ o.op = "by" -> Point(TRUE, p.known, p.at + o.n, p.laser)
    [] o.m = m /\ o.op = "to" -> Point(TRUE, TRUE, o.n, p.laser)
    [] o.m = m /\ o.op = "magnet" -> Point(TRUE, FALSE, 0, p.laser)
    [] o.m = m /\ o.op = "wait" -> Point(FALSE, p.known, p.at, p.laser)
    [] o.m = m /\ o.op = "reference" -> Point(p.moves, TRUE, 0, p.laser)
    [] o.m = m /\ o.op = "enable" -> Point(p.moves, FALSE, 0, p.laser)
    [] OTHER -> p

\* Where the strokes of command c may take motor m.
Room(c, m) ==
  LET half == c.star \div 2
      low == IF c.star = 0 THEN -c.scan ELSE half - c.star - 2 * ShortOf(c.star)
      high == IF c.star = 0 THEN c.scan ELSE half
  IN c.step_goals[m] + low .. c.step_goals[m] + high

\* A stroke stays in its room, the laser is timed only with every motor at rest
\* on its goal and for no other operation, and neither reference nor
\* configuration are changed in motion.
Allowed(c, o, m, p) ==
  /\ o.m = m /\ o.op = "by" /\ c.type = "TARGET" =>
       p.known /\ p.at \in Room(c, m) /\ p.at + o.n \in Room(c, m)
  /\ o.op = "flash" =>
       c.type = "TARGET" /\ ~p.moves /\ p.known /\ p.at = c.step_goals[m]
  /\ p.laser = "timed" => o.op = "off"
  /\ o.m = m /\ o.op \in {"reference", "enable"} => ~p.moves

Leads(c, m, p, s, q) ==
  \E plan \in [1..Len(s) + 1 -> Points] :
    /\ plan[1] = p /\ plan[Len(s) + 1] = q
    /\ \A i \in 1..Len(s) :
         Allowed(c, s[i], m, plan[i]) /\ plan[i + 1] = After(s[i], m, plan[i])

\* Where the routine of c leaves m, as RestingPlace says.
Demanded(c, m) ==
  \/ c.type \in {"TARGET", "SOFT_HOMING", "HOMING"}
  \/ c.type = "HARD_HOMING" /\ m # "slide"
Place(c, m) ==
  IF c.type = "TARGET"
  THEN c.step_goals[m]
       - (CASE m = "pitch" -> 3 * ShortOf(c.star) [] m = "yaw" -> ShortOf(c.star)
            [] OTHER -> 0)
  ELSE 0

Ends(c, m, q) ==
  ~q.moves /\ q.laser = "off" /\ (Demanded(c, m) => q.known /\ q.at = Place(c, m))

Fits(m, p) ==
  /\ Moving(m) => p.moves
  /\ p.laser = laser
  /\ p.known /\ motor[m].state # "DISABLED" => motor[m].goal = p.at

OnItsWay(m) ==
  \E p, q \in Points :
    Fits(m, p) /\ Leads(active, m, p, script, q) /\ Ends(active, m, q)

\* A stroke of a target command is made within its room.
Stroke(m) ==
  active.type = "TARGET" /\ Moving(m) /\ motor[m].errand = "by" =>
    motor[m].position \in Room(active, m) /\ motor[m].goal \in Room(active, m)

Typed ==
  /\ system_state \in {"READY", "CONFIGURING", "MOVING", "CALIBRATING"}
  /\ active \in Setups \cup Targets \cup Homings \cup {NoCommand}
  /\ script \in Seq(Operations)
  /\ motor \in [Motors -> [state : {"DISABLED", "ENABLED", "MOVING"}, position : Int,
                           goal : Int, errand : {"none", "by", "to", "magnet"}]]
  /\ laser \in {"off", "timed", "steady"}

IInv ==
  /\ Typed
  /\ system_state = "READY" => script = <<>>
  /\ laser = "timed" => active.type = "TARGET" /\ FlashOnTarget
  /\ \A m \in Motors : ~Moving(m) => motor[m].position = motor[m].goal
  /\ \A m \in Motors : OnItsWay(m) /\ Stroke(m)

-----------------------------------------------------------------------------
(* Running a script on paper. *)

LEMMA AfterTyped ==
  ASSUME NEW o \in Operations, NEW m \in Motors, NEW p \in Points
  PROVE  After(o, m, p) \in Points
<1>1. /\ p.moves \in BOOLEAN /\ p.known \in BOOLEAN /\ p.at \in Int
      /\ p.laser \in {"off", "timed", "steady"} /\ o.n \in Int
  BY DEF Points, Operations
<1>2. /\ o.op \in {"steady", "off"} => Point(p.moves, p.known, p.at, o.op) \in Points
      /\ Point(p.moves, p.known, p.at, "timed") \in Points
      /\ Point(TRUE, p.known, p.at + o.n, p.laser) \in Points
      /\ Point(TRUE, TRUE, o.n, p.laser) \in Points
      /\ Point(TRUE, FALSE, 0, p.laser) \in Points
      /\ Point(FALSE, p.known, p.at, p.laser) \in Points
      /\ Point(p.moves, TRUE, 0, p.laser) \in Points
      /\ Point(p.moves, FALSE, 0, p.laser) \in Points
  BY <1>1 DEF Points, Point
<1> QED
  BY <1>2 DEF After

LEMMA LeadsNowhere ==
  ASSUME NEW c, NEW m, NEW p \in Points, NEW q
  PROVE  Leads(c, m, p, <<>>, q) <=> p = q
<1>1. ASSUME p = q PROVE Leads(c, m, p, <<>>, q)
  <2> DEFINE plan == [i \in 1..Len(<<>>) + 1 |-> p]
  <2>1. /\ plan \in [1..Len(<<>>) + 1 -> Points]
        /\ plan[1] = p /\ plan[Len(<<>>) + 1] = q
        /\ \A i \in 1..Len(<<>>) : FALSE
    BY <1>1
  <2> HIDE DEF plan
  <2> QED
    BY <2>1 DEF Leads
<1> QED
  BY <1>1 DEF Leads

LEMMA LeadsByOne ==
  ASSUME NEW c, NEW m \in Motors, NEW p \in Points, NEW o \in Operations,
         Allowed(c, o, m, p)
  PROVE  Leads(c, m, p, <<o>>, After(o, m, p))
<1> DEFINE q == After(o, m, p)
           plan == [i \in 1..2 |-> IF i = 1 THEN p ELSE q]
<1>1. q \in Points
  BY AfterTyped
<1> HIDE DEF q
<1>2. /\ plan \in [1..Len(<<o>>) + 1 -> Points]
      /\ plan[1] = p /\ plan[Len(<<o>>) + 1] = q
      /\ \A i \in 1..Len(<<o>>) : i = 1 /\ <<o>>[i] = o /\ plan[i + 1] = q
  BY <1>1
<1> HIDE DEF plan
<1>3. Leads(c, m, p, <<o>>, q)
  BY <1>2 DEF Leads, q
<1> QED
  BY <1>3 DEF q

\* The first operation is allowed, and the others lead on.
LEMMA LeadsOn ==
  ASSUME NEW c, NEW m, NEW p, NEW q, NEW s \in Seq(Operations), s # <<>>,
         Leads(c, m, p, s, q)
  PROVE  /\ Allowed(c, Head(s), m, p)
         /\ Leads(c, m, After(Head(s), m, p), Tail(s), q)
<1>1. PICK plan \in [1..Len(s) + 1 -> Points] :
        /\ plan[1] = p /\ plan[Len(s) + 1] = q
        /\ \A i \in 1..Len(s) :
             Allowed(c, s[i], m, plan[i]) /\ plan[i + 1] = After(s[i], m, plan[i])
  BY DEF Leads
<1>2. Len(s) \in Nat \ {0} /\ Head(s) = s[1] /\ Len(Tail(s)) = Len(s) - 1
      /\ \A i \in 1..Len(s) - 1 : Tail(s)[i] = s[i + 1]
  OBVIOUS
<1> DEFINE rest == [i \in 1..Len(Tail(s)) + 1 |-> plan[i + 1]]
<1>3. rest \in [1..Len(Tail(s)) + 1 -> Points] /\ rest[1] = plan[2]
      /\ rest[Len(Tail(s)) + 1] = q
  BY <1>1, <1>2
<1>4. \A i \in 1..Len(Tail(s)) : rest[i] = plan[i + 1] /\ rest[i + 1] = plan[i + 2]
  BY <1>2
<1> HIDE DEF rest
<1>5. ASSUME NEW i \in 1..Len(Tail(s))
      PROVE  /\ Allowed(c, Tail(s)[i], m, rest[i])
             /\ rest[i + 1] = After(Tail(s)[i], m, rest[i])
  <2>1. i + 1 \in 1..Len(s) /\ Tail(s)[i] = s[i + 1] /\ i + 1 + 1 = i + 2
    BY <1>2
  <2> QED
    BY <1>1, <1>4, <2>1
<1>6. Allowed(c, s[1], m, p) /\ plan[2] = After(s[1], m, p)
  BY <1>1, <1>2
<1> QED
  BY <1>2, <1>3, <1>5, <1>6 DEF Leads

LEMMA LeadsThrough ==
  ASSUME NEW c, NEW m, NEW p, NEW r, NEW q,
         NEW s \in Seq(Operations), NEW t \in Seq(Operations),
         Leads(c, m, p, s, r), Leads(c, m, r, t, q)
  PROVE  Leads(c, m, p, s \o t, q)
<1>1. PICK one \in [1..Len(s) + 1 -> Points] :
        /\ one[1] = p /\ one[Len(s) + 1] = r
        /\ \A i \in 1..Len(s) :
             Allowed(c, s[i], m, one[i]) /\ one[i + 1] = After(s[i], m, one[i])
  BY DEF Leads
<1>2. PICK two \in [1..Len(t) + 1 -> Points] :
        /\ two[1] = r /\ two[Len(t) + 1] = q
        /\ \A i \in 1..Len(t) :
             Allowed(c, t[i], m, two[i]) /\ two[i + 1] = After(t[i], m, two[i])
  BY DEF Leads
<1> DEFINE n == Len(s)
           k == Len(t)
           st == s \o t
<1>3. /\ n \in Nat /\ k \in Nat /\ Len(st) = n + k
      /\ \A i \in 1..n : st[i] = s[i]
      /\ \A i \in 1..k : st[n + i] = t[i]
  OBVIOUS
<1> HIDE DEF n, k, st
<1> DEFINE plan == [i \in 1..n + k + 1 |-> IF i <= n THEN one[i] ELSE two[i - n]]
<1>4. /\ one \in [1..n + 1 -> Points] /\ two \in [1..k + 1 -> Points]
      /\ one[n + 1] = two[1] /\ two[k + 1] = q
  BY <1>1, <1>2 DEF n, k
<1>5. plan \in [1..n + k + 1 -> Points]
  <2> SUFFICES ASSUME NEW i \in 1..n + k + 1
               PROVE  (IF i <= n THEN one[i] ELSE two[i - n]) \in Points
    OBVIOUS
  <2>1. CASE i <= n
    BY <1>3, <1>4, <2>1
  <2>2. CASE ~(i <= n)
    <3>1. i - n \in 1..k + 1
      BY <1>3, <2>2
    <3> QED
      BY <1>4, <2>2, <3>1
  <2> QED
    BY <2>1, <2>2
<1>6. /\ \A i \in 1..n + 1 : plan[i] = one[i]
      /\ \A i \in 1..k + 1 : plan[n + i] = two[i]
  <2>1. ASSUME NEW i \in 1..k + 1 PROVE plan[n + i] = two[i]
    <3>1. n + i \in 1..n + k + 1 /\ ~(n + i <= n) /\ n + i - n = i
      BY <1>3
    <3> QED
      BY <1>3, <3>1
  <2>2. ASSUME NEW i \in 1..n + 1 PROVE plan[i] = one[i]
    <3>1. i \in 1..n + k + 1 /\ (~(i <= n) => i = n + 1 /\ i - n = 1)
      BY <1>3
    <3> QED
      BY <1>4, <3>1
  <2> QED
    BY <2>1, <2>2
<1> HIDE DEF plan
<1>7. plan[1] = p /\ plan[n + k + 1] = q
  <2>1. 1 \in 1..n + 1 /\ k + 1 \in 1..k + 1 /\ n + k + 1 = n + (k + 1)
    BY <1>3
  <2> QED
    BY <1>1, <1>4, <1>6, <2>1
<1>8. ASSUME NEW i \in 1..n + k
      PROVE  Allowed(c, st[i], m, plan[i]) /\ plan[i + 1] = After(st[i], m, plan[i])
  <2>1. CASE i <= n
    <3>1. i \in 1..n /\ i \in 1..n + 1 /\ i + 1 \in 1..n + 1
      BY <1>3, <2>1
    <3>2. st[i] = s[i] /\ plan[i] = one[i] /\ plan[i + 1] = one[i + 1]
      BY <1>3, <1>6, <3>1
    <3> QED
      BY <1>1, <3>1, <3>2 DEF n
  <2>2. CASE ~(i <= n)
    <3>1. PICK j \in 1..k : i = n + j
      <4>1. i - n \in 1..k /\ i = n + (i - n)
        BY <1>3, <2>2
      <4> QED
        BY <4>1
    <3>2. j \in 1..k + 1 /\ j + 1 \in 1..k + 1 /\ i + 1 = n + (j + 1)
      BY <1>3, <3>1
    <3>3. st[i] = t[j] /\ plan[i] = two[j] /\ plan[i + 1] = two[j + 1]
      BY <1>3, <1>6, <3>1, <3>2
    <3> QED
      BY <1>2, <3>1, <3>3 DEF k
  <2> QED
    BY <2>1, <2>2
<1>9. Leads(c, m, p, st, q)
  BY <1>3, <1>5, <1>7, <1>8 DEF Leads
<1> QED
  BY <1>9 DEF st

\* One operation more, for scripts that are spelled out.
LEMMA LeadsAppend ==
  ASSUME NEW c, NEW m \in Motors, NEW p, NEW r \in Points,
         NEW s \in Seq(Operations), NEW o \in Operations,
         Leads(c, m, p, s, r), Allowed(c, o, m, r)
  PROVE  Leads(c, m, p, Append(s, o), After(o, m, r))
<1>1. Leads(c, m, r, <<o>>, After(o, m, r)) /\ <<o>> \in Seq(Operations)
  BY LeadsByOne
<1>2. Leads(c, m, p, s \o <<o>>, After(o, m, r))
  BY <1>1, LeadsThrough
<1>3. Append(s, o) = s \o <<o>>
  BY AppendIsConcat
<1> QED
  BY <1>2, <1>3

LEMMA LeadsByTwo ==
  ASSUME NEW c, NEW m \in Motors, NEW p \in Points,
         NEW o1 \in Operations, NEW o2 \in Operations,
         Allowed(c, o1, m, p), Allowed(c, o2, m, After(o1, m, p))
  PROVE  Leads(c, m, p, <<o1, o2>>, After(o2, m, After(o1, m, p)))
<1>1. After(o1, m, p) \in Points /\ Leads(c, m, p, <<o1>>, After(o1, m, p))
  BY AfterTyped, LeadsByOne
<1>2. <<o1>> \in Seq(Operations)
  OBVIOUS
<1>3. Leads(c, m, p, Append(<<o1>>, o2), After(o2, m, After(o1, m, p)))
  BY <1>1, <1>2, LeadsAppend
<1>4. <<o1, o2>> = Append(<<o1>>, o2)
  OBVIOUS
<1> QED
  BY <1>3, <1>4, Zenon

LEMMA LeadsByThree ==
  ASSUME NEW c, NEW m \in Motors, NEW p \in Points,
         NEW o1 \in Operations, NEW o2 \in Operations, NEW o3 \in Operations,
         Allowed(c, o1, m, p), Allowed(c, o2, m, After(o1, m, p)),
         Allowed(c, o3, m, After(o2, m, After(o1, m, p)))
  PROVE  Leads(c, m, p, <<o1, o2, o3>>, After(o3, m, After(o2, m, After(o1, m, p))))
<1> DEFINE r == After(o2, m, After(o1, m, p))
<1>1. r \in Points /\ Leads(c, m, p, <<o1, o2>>, r)
  BY AfterTyped, LeadsByTwo
<1>2. <<o1, o2>> \in Seq(Operations)
  OBVIOUS
<1>3. Allowed(c, o3, m, r)
  OBVIOUS
<1> HIDE DEF r
<1>4. Leads(c, m, p, Append(<<o1, o2>>, o3), After(o3, m, r))
  BY <1>1, <1>2, <1>3, LeadsAppend
<1>5. <<o1, o2, o3>> = Append(<<o1, o2>>, o3)
  OBVIOUS
<1>6. Leads(c, m, p, <<o1, o2, o3>>, After(o3, m, r))
  BY <1>4, <1>5, Zenon
<1> QED
  BY <1>6, Zenon DEF r

-----------------------------------------------------------------------------
(* The pieces of the routines, seen from motor m. *)

\* No timed laser: only "off" may follow it.
Calm(p) == p \in Points /\ p.laser # "timed"
Shifted(p, n) == Point(TRUE, p.known, p.at + n, p.laser)
Rested(p) == Point(FALSE, p.known, p.at, p.laser)

LEMMA Fields ==
  ASSUME NEW a \in BOOLEAN, NEW b \in BOOLEAN, NEW x \in Int,
         NEW l \in {"off", "timed", "steady"}
  PROVE  /\ Point(a, b, x, l) \in Points
         /\ Point(a, b, x, l).moves = a /\ Point(a, b, x, l).known = b
         /\ Point(a, b, x, l).at = x /\ Point(a, b, x, l).laser = l
  BY DEF Point, Points

LEMMA PointFields ==
  ASSUME NEW p \in Points
  PROVE  /\ p.moves \in BOOLEAN /\ p.known \in BOOLEAN /\ p.at \in Int
         /\ p.laser \in {"off", "timed", "steady"}
         /\ p = Point(p.moves, p.known, p.at, p.laser)
  BY DEF Point, Points

\* A movement by n steps.
LEMMA ByLeads ==
  ASSUME NEW c, NEW m \in Motors, NEW k \in Motors, NEW n \in Int, NEW p, Calm(p),
         k = m /\ c.type = "TARGET" =>
           p.known /\ p.at \in Room(c, m) /\ p.at + n \in Room(c, m)
  PROVE  /\ By(k, n) \in Operations /\ Allowed(c, By(k, n), m, p)
         /\ After(By(k, n), m, p) = (IF k = m THEN Shifted(p, n) ELSE p)
         /\ Calm(IF k = m THEN Shifted(p, n) ELSE p)
<1>1. By(k, n) \in Operations
  BY DEF By, Operations
<1>2. By(k, n).op = "by" /\ By(k, n).m = k /\ By(k, n).n = n
  BY DEF By
<1>3. Allowed(c, By(k, n), m, p)
  BY <1>2 DEF Allowed, Calm
<1>4. After(By(k, n), m, p) = IF k = m THEN Shifted(p, n) ELSE p
  BY <1>2 DEF After, Shifted
<1>5. Calm(IF k = m THEN Shifted(p, n) ELSE p)
  <2>1. Calm(Shifted(p, n))
    BY DEF Calm, Point, Points, Shifted
  <2> QED
    BY <2>1
<1> QED
  BY <1>1, <1>3, <1>4, <1>5

LEMMA ByOwn ==
  ASSUME NEW c, NEW m \in Motors, NEW n \in Int, NEW p, Calm(p), p.known,
         p.at \in Room(c, m), p.at + n \in Room(c, m)
  PROVE  /\ Allowed(c, By(m, n), m, p) /\ After(By(m, n), m, p) = Shifted(p, n)
         /\ Calm(Shifted(p, n))
  BY ByLeads

LEMMA ByOther ==
  ASSUME NEW c, NEW m \in Motors, NEW k \in Motors \ {m}, NEW n \in Int, NEW p, Calm(p)
  PROVE  Allowed(c, By(k, n), m, p) /\ After(By(k, n), m, p) = p
<1>1. By(k, n).op = "by" /\ By(k, n).m = k /\ k # m
  BY DEF By
<1> QED
  BY <1>1 DEF Allowed, After, Calm

LEMMA WaitLeads ==
  ASSUME NEW c, NEW m \in Motors, NEW k \in Motors, NEW p, Calm(p)
  PROVE  /\ Wait(k) \in Operations /\ Allowed(c, Wait(k), m, p)
         /\ After(Wait(k), m, p) = (IF k = m THEN Rested(p) ELSE p)
         /\ Calm(Rested(p)) /\ Rested(Rested(p)) = Rested(p)
<1>1. Wait(k) \in Operations
  BY DEF Wait, Operations
<1>2. Wait(k).op = "wait" /\ Wait(k).m = k
  BY DEF Wait
<1>3. Allowed(c, Wait(k), m, p)
  BY <1>2 DEF Allowed, Calm
<1>4. After(Wait(k), m, p) = IF k = m THEN Rested(p) ELSE p
  BY <1>2 DEF After, Rested
<1>5. Calm(Rested(p)) /\ Rested(Rested(p)) = Rested(p)
  BY DEF Calm, Point, Points, Rested
<1> QED
  BY <1>1, <1>3, <1>4, <1>5

LEMMA ToLeads ==
  ASSUME NEW c, NEW m \in Motors, NEW k \in Motors, NEW n \in Int, NEW p, Calm(p)
  PROVE  /\ To(k, n) \in Operations /\ Allowed(c, To(k, n), m, p)
         /\ After(To(k, n), m, p) = (IF k = m THEN Point(TRUE, TRUE, n, p.laser) ELSE p)
         /\ Calm(Point(TRUE, TRUE, n, p.laser))
<1>1. To(k, n) \in Operations
  BY DEF To, Operations
<1>2. To(k, n).op = "to" /\ To(k, n).m = k /\ To(k, n).n = n
  BY DEF To
<1>3. Allowed(c, To(k, n), m, p)
  BY <1>2 DEF Allowed, Calm
<1>4. After(To(k, n), m, p) = IF k = m THEN Point(TRUE, TRUE, n, p.laser) ELSE p
  BY <1>2 DEF After
<1>5. Calm(Point(TRUE, TRUE, n, p.laser))
  BY DEF Calm, Point, Points
<1> QED
  BY <1>1, <1>3, <1>4, <1>5

LEMMA ReferenceLeads ==
  ASSUME NEW c, NEW m \in Motors, NEW k \in Motors, NEW p, Calm(p), k = m => ~p.moves
  PROVE  /\ Reference(k) \in Operations /\ Allowed(c, Reference(k), m, p)
         /\ After(Reference(k), m, p) =
              (IF k = m THEN Point(FALSE, TRUE, 0, p.laser) ELSE p)
         /\ Calm(Point(FALSE, TRUE, 0, p.laser))
<1>1. Reference(k) \in Operations
  BY DEF Reference, Operations
<1>2. Reference(k).op = "reference" /\ Reference(k).m = k
  BY DEF Reference
<1>3. Allowed(c, Reference(k), m, p)
  BY <1>2 DEF Allowed, Calm
<1>4. After(Reference(k), m, p) = IF k = m THEN Point(FALSE, TRUE, 0, p.laser) ELSE p
  BY <1>2, PointFields DEF After, Calm
<1>5. Calm(Point(FALSE, TRUE, 0, p.laser))
  BY DEF Calm, Point, Points
<1> QED
  BY <1>1, <1>3, <1>4, <1>5

LEMMA MagnetLeads ==
  ASSUME NEW c, NEW m \in Motors, NEW k \in Motors, NEW p, Calm(p)
  PROVE  /\ ToMagnet(k) \in Operations /\ Allowed(c, ToMagnet(k), m, p)
         /\ After(ToMagnet(k), m, p) =
              (IF k = m THEN Point(TRUE, FALSE, 0, p.laser) ELSE p)
         /\ Calm(Point(TRUE, FALSE, 0, p.laser))
<1>1. ToMagnet(k) \in Operations
  BY DEF ToMagnet, Operations
<1>2. ToMagnet(k).op = "magnet" /\ ToMagnet(k).m = k
  BY DEF ToMagnet
<1>3. Allowed(c, ToMagnet(k), m, p)
  BY <1>2 DEF Allowed, Calm
<1>4. After(ToMagnet(k), m, p) = IF k = m THEN Point(TRUE, FALSE, 0, p.laser) ELSE p
  BY <1>2 DEF After
<1>5. Calm(Point(TRUE, FALSE, 0, p.laser))
  BY DEF Calm, Point, Points
<1> QED
  BY <1>1, <1>3, <1>4, <1>5

LEMMA EnableLeads ==
  ASSUME NEW c, NEW m \in Motors, NEW k \in Motors, NEW on \in BOOLEAN, NEW p, Calm(p),
         ~p.moves
  PROVE  /\ Enable(k, on) \in Operations /\ Allowed(c, Enable(k, on), m, p)
         /\ After(Enable(k, on), m, p) =
              (IF k = m THEN Point(FALSE, FALSE, 0, p.laser) ELSE p)
         /\ Calm(Point(FALSE, FALSE, 0, p.laser))
<1>1. Enable(k, on) \in Operations
  BY DEF Enable, Operations
<1>2. Enable(k, on).op = "enable" /\ Enable(k, on).m = k
  BY DEF Enable
<1>3. Allowed(c, Enable(k, on), m, p)
  BY <1>2 DEF Allowed, Calm
<1>4. After(Enable(k, on), m, p) = IF k = m THEN Point(FALSE, FALSE, 0, p.laser) ELSE p
  BY <1>2, PointFields DEF After, Calm
<1>5. Calm(Point(FALSE, FALSE, 0, p.laser))
  BY DEF Calm, Point, Points
<1> QED
  BY <1>1, <1>3, <1>4, <1>5

LEMMA LaserLeads ==
  ASSUME NEW c, NEW m \in Motors, NEW p \in Points
  PROVE  /\ {Laser("steady"), Laser("off"), Laser("flash")} \subseteq Operations
         /\ p.laser # "timed" => Allowed(c, Laser("steady"), m, p)
         /\ Allowed(c, Laser("off"), m, p)
         /\ After(Laser("steady"), m, p) = Point(p.moves, p.known, p.at, "steady")
         /\ After(Laser("off"), m, p) = Point(p.moves, p.known, p.at, "off")
         /\ After(Laser("flash"), m, p) = Point(p.moves, p.known, p.at, "timed")
         /\ c.type = "TARGET" /\ ~p.moves /\ p.known /\ p.at = c.step_goals[m]
              /\ p.laser # "timed" => Allowed(c, Laser("flash"), m, p)
<1>1. {Laser("steady"), Laser("off"), Laser("flash")} \subseteq Operations
  BY DEF Laser, Operations, Motors
<1>2. /\ Laser("steady").op = "steady" /\ Laser("off").op = "off"
      /\ Laser("flash").op = "flash"
  BY DEF Laser
<1> QED
  BY <1>1, <1>2 DEF Allowed, After

-----------------------------------------------------------------------------
(* Strokes: from wherever the motor is sent, moving or not, to wherever.   *)

\* Script s takes motor m from x to y while the laser does l.
Course(c, m, l, x, s, y) ==
  \A p \in Points :
    p.known /\ p.at = x /\ p.laser = l =>
      \E q \in Points :
        q.known /\ q.at = y /\ q.laser = l /\ Leads(c, m, p, s, q)

\* m may be moved within the room of c between these places.
Free(c, m, places) == c.type = "TARGET" /\ places \subseteq Room(c, m)

LEMMA CourseThrough ==
  ASSUME NEW c, NEW m, NEW l, NEW x, NEW y, NEW z,
         NEW s \in Seq(Operations), NEW t \in Seq(Operations),
         Course(c, m, l, x, s, y), Course(c, m, l, y, t, z)
  PROVE  Course(c, m, l, x, s \o t, z) /\ s \o t \in Seq(Operations)
<1> SUFFICES ASSUME NEW p \in Points, p.known, p.at = x, p.laser = l
             PROVE  \E q \in Points :
                      q.known /\ q.at = z /\ q.laser = l /\ Leads(c, m, p, s \o t, q)
  BY DEF Course
<1>1. PICK r \in Points : r.known /\ r.at = y /\ r.laser = l /\ Leads(c, m, p, s, r)
  BY DEF Course
<1>2. PICK q \in Points : q.known /\ q.at = z /\ q.laser = l /\ Leads(c, m, r, t, q)
  BY <1>1 DEF Course
<1>3. Leads(c, m, p, s \o t, q)
  BY <1>1, <1>2, LeadsThrough
<1> QED
  BY <1>2, <1>3

LEMMA ShiftedFields ==
  ASSUME NEW p \in Points, NEW n \in Int
  PROVE  /\ Shifted(p, n) \in Points /\ Shifted(p, n).known = p.known
         /\ Shifted(p, n).at = p.at + n /\ Shifted(p, n).laser = p.laser
         /\ Rested(p) \in Points /\ Rested(p).known = p.known
         /\ Rested(p).at = p.at /\ Rested(p).laser = p.laser /\ ~Rested(p).moves
  BY DEF Shifted, Rested, Point, Points

\* Out, over and back again.
LEMMA StrokeCourse ==
  ASSUME NEW c, NEW m \in Motors, NEW k \in Motors, NEW l, l # "timed",
         NEW x \in Int, NEW a \in Int, NEW b \in Int,
         k = m => Free(c, m, {x, x + a, x + a + b, x + 2 * a + b})
  PROVE  /\ <<By(k, a), By(k, b), By(k, a)>> \in Seq(Operations)
         /\ Course(c, m, l, x, <<By(k, a), By(k, b), By(k, a)>>,
                   IF k = m THEN x + 2 * a + b ELSE x)
<1>1. By(k, a) \in Operations /\ By(k, b) \in Operations
  BY DEF By, Operations
<1>2. ASSUME NEW p \in Points, p.known, p.at = x, p.laser = l
      PROVE  \E q \in Points :
               /\ q.known /\ q.at = (IF k = m THEN x + 2 * a + b ELSE x) /\ q.laser = l
               /\ Leads(c, m, p, <<By(k, a), By(k, b), By(k, a)>>, q)
  <2>1. Calm(p)
    BY <1>2 DEF Calm
  <2>2. CASE k # m
    <3>1. /\ Allowed(c, By(k, a), m, p) /\ After(By(k, a), m, p) = p
          /\ Allowed(c, By(k, b), m, p) /\ After(By(k, b), m, p) = p
      BY <2>1, <2>2, ByOther
    <3>2. Leads(c, m, p, <<By(k, a), By(k, b), By(k, a)>>,
                After(By(k, a), m, After(By(k, b), m, After(By(k, a), m, p))))
      BY <1>1, <3>1, LeadsByThree
    <3> QED
      BY <1>2, <2>2, <3>1, <3>2
  <2>3. CASE k = m
    <3> DEFINE p1 == Shifted(p, a)
               p2 == Shifted(p1, b)
               p3 == Shifted(p2, a)
    <3>1. /\ x \in Room(c, m) /\ x + a \in Room(c, m) /\ x + a + b \in Room(c, m)
          /\ x + a + b + a = x + 2 * a + b /\ x + a + b + a \in Room(c, m)
      BY <2>3 DEF Free
    <3>2. p1 \in Points /\ p1.known /\ p1.at = x + a /\ p1.laser = l /\ Calm(p1)
      BY <1>2, ShiftedFields DEF Calm
    <3>3. Allowed(c, By(m, a), m, p) /\ After(By(m, a), m, p) = p1
      BY <1>2, <2>1, <3>1, ByOwn
    <3> HIDE DEF p1
    <3>4. p2 \in Points /\ p2.known /\ p2.at = x + a + b /\ p2.laser = l /\ Calm(p2)
      <4>1. p2 \in Points /\ p2.known = p1.known /\ p2.at = p1.at + b /\ p2.laser = p1.laser
        BY <3>2, ShiftedFields
      <4> QED
        BY <3>2, <4>1 DEF Calm
    <3>5. Allowed(c, By(m, b), m, p1) /\ After(By(m, b), m, p1) = p2
      <4>1. p1.at \in Room(c, m) /\ p1.at + b \in Room(c, m)
        BY <3>1, <3>2
      <4> QED
        BY <3>2, <4>1, ByOwn
    <3> HIDE DEF p2
    <3>6. p3 \in Points /\ p3.known /\ p3.at = x + 2 * a + b /\ p3.laser = l
      <4>1. p3 \in Points /\ p3.known = p2.known /\ p3.at = p2.at + a /\ p3.laser = p2.laser
        BY <3>4, ShiftedFields
      <4> QED
        BY <3>1, <3>4, <4>1
    <3>7. Allowed(c, By(m, a), m, p2) /\ After(By(m, a), m, p2) = p3
      <4>1. p2.at \in Room(c, m) /\ p2.at + a \in Room(c, m)
        BY <3>1, <3>4
      <4> QED
        BY <3>4, <4>1, ByOwn
    <3> HIDE DEF p3
    <3>8. Leads(c, m, p, <<By(m, a), By(m, b), By(m, a)>>, p3)
      BY <1>1, <2>3, <3>3, <3>5, <3>7, LeadsByThree
    <3> QED
      BY <2>3, <3>6, <3>8
  <2> QED
    BY <2>2, <2>3
<1> QED
  BY <1>1, <1>2 DEF Course

\* Of a movement of pitch by a and of yaw by b, motor m makes n steps.
IsShare(m, a, b, n) ==
  /\ m = "pitch" => n = a
  /\ m = "yaw" => n = b
  /\ m = "slide" => n = 0

\* Pitch and yaw at once.
LEMMA PairCourse ==
  ASSUME NEW c, NEW m \in Motors, NEW l, l # "timed",
         NEW x \in Int, NEW a \in Int, NEW b \in Int, NEW n \in Int,
         IsShare(m, a, b, n),
         m # "slide" => Free(c, m, {x, x + n})
  PROVE  /\ <<By("pitch", a), By("yaw", b)>> \in Seq(Operations)
         /\ Course(c, m, l, x, <<By("pitch", a), By("yaw", b)>>, x + n)
<1>1. By("pitch", a) \in Operations /\ By("yaw", b) \in Operations
  BY DEF By, Operations, Motors
<1>2. ASSUME NEW p \in Points, p.known, p.at = x, p.laser = l
      PROVE  \E q \in Points :
               /\ q.known /\ q.at = x + n /\ q.laser = l
               /\ Leads(c, m, p, <<By("pitch", a), By("yaw", b)>>, q)
  <2>1. Calm(p) /\ "pitch" \in Motors /\ "yaw" \in Motors
    BY <1>2 DEF Calm, Motors
  <2>2. CASE m = "pitch"
    <3>1. Allowed(c, By("pitch", a), m, p) /\ After(By("pitch", a), m, p) = Shifted(p, a)
          /\ Calm(Shifted(p, a))
      <4>1. p.at \in Room(c, m) /\ p.at + a \in Room(c, m)
        BY <1>2, <2>2 DEF Free, IsShare
      <4> QED
        BY <1>2, <2>1, <2>2, <4>1, ByOwn
    <3>2. /\ Allowed(c, By("yaw", b), m, Shifted(p, a))
          /\ After(By("yaw", b), m, Shifted(p, a)) = Shifted(p, a)
      BY <2>1, <2>2, <3>1, ByOther
    <3>3. Leads(c, m, p, <<By("pitch", a), By("yaw", b)>>, Shifted(p, a))
      BY <1>1, <3>1, <3>2, LeadsByTwo
    <3> QED
      BY <1>2, <2>2, <3>3, ShiftedFields DEF IsShare
  <2>3. CASE m = "yaw"
    <3>1. Allowed(c, By("pitch", a), m, p) /\ After(By("pitch", a), m, p) = p
      <4>1. "pitch" \in Motors \ {m}
        BY <2>3 DEF Motors
      <4> QED
        BY <2>1, <4>1, ByOther
    <3>2. Allowed(c, By("yaw", b), m, p) /\ After(By("yaw", b), m, p) = Shifted(p, b)
      <4>1. p.at \in Room(c, m) /\ p.at + b \in Room(c, m)
        BY <1>2, <2>3 DEF Free, IsShare
      <4> QED
        BY <1>2, <2>1, <2>3, <4>1, ByOwn
    <3>3. Leads(c, m, p, <<By("pitch", a), By("yaw", b)>>, Shifted(p, b))
      BY <1>1, <3>1, <3>2, LeadsByTwo
    <3> QED
      BY <1>2, <2>3, <3>3, ShiftedFields DEF IsShare
  <2>4. CASE m = "slide"
    <3>1. Allowed(c, By("pitch", a), m, p) /\ After(By("pitch", a), m, p) = p
      BY <2>1, <2>4, ByOther
    <3>2. Allowed(c, By("yaw", b), m, p) /\ After(By("yaw", b), m, p) = p
      BY <2>1, <2>4, ByOther
    <3>3. Leads(c, m, p, <<By("pitch", a), By("yaw", b)>>, p)
      BY <1>1, <3>1, <3>2, LeadsByTwo
    <3> QED
      BY <1>2, <2>4, <3>3 DEF IsShare
  <2> QED
    BY <2>2, <2>3, <2>4 DEF Motors
<1> QED
  BY <1>1, <1>2 DEF Course

LEMMA WaitBothCourse ==
  ASSUME NEW c, NEW m \in Motors, NEW l, l # "timed", NEW x \in Int
  PROVE  WaitBoth \in Seq(Operations) /\ Course(c, m, l, x, WaitBoth, x)
<1>1. "pitch" \in Motors /\ "yaw" \in Motors
  BY DEF Motors
<1>2. Wait("pitch") \in Operations /\ Wait("yaw") \in Operations
  BY <1>1 DEF Wait, Operations
<1>3. ASSUME NEW p \in Points, p.known, p.at = x, p.laser = l
      PROVE  \E q \in Points :
               q.known /\ q.at = x /\ q.laser = l /\ Leads(c, m, p, WaitBoth, q)
  <2> DEFINE p1 == IF "pitch" = m THEN Rested(p) ELSE p
             p2 == IF "yaw" = m THEN Rested(p1) ELSE p1
  <2>1. Calm(p)
    BY <1>3 DEF Calm
  <2>2. Allowed(c, Wait("pitch"), m, p) /\ After(Wait("pitch"), m, p) = p1 /\ Calm(p1)
    BY <1>1, <2>1, WaitLeads
  <2>3. p1 \in Points /\ p1.known /\ p1.at = x /\ p1.laser = l
    BY <1>3, ShiftedFields
  <2> HIDE DEF p1
  <2>4. Allowed(c, Wait("yaw"), m, p1) /\ After(Wait("yaw"), m, p1) = p2
    BY <1>1, <2>2, WaitLeads
  <2>5. p2 \in Points /\ p2.known /\ p2.at = x /\ p2.laser = l
    BY <2>3, ShiftedFields
  <2>6. Leads(c, m, p, WaitBoth, p2)
    BY <1>2, <2>2, <2>4, LeadsByTwo DEF WaitBoth
  <2> QED
    BY <2>5, <2>6
<1> QED
  BY <1>2, <1>3 DEF Course, WaitBoth

DiagonalOf(a, b, aa, bb) ==
  <<By("pitch", a), By("yaw", aa)>> \o WaitBoth
  \o <<By("pitch", b), By("yaw", bb)>> \o WaitBoth
  \o <<By("pitch", a), By("yaw", aa)>>

LEMMA DiagonalCourse ==
  ASSUME NEW c, NEW m \in Motors, NEW l, l # "timed", NEW x \in Int,
         NEW a \in Int, NEW b \in Int, NEW aa \in Int, NEW bb \in Int,
         NEW u \in Int, NEW v \in Int, IsShare(m, a, aa, u), IsShare(m, b, bb, v),
         m # "slide" => Free(c, m, {x, x + u, x + u + v, x + 2 * u + v}),
         NEW y, y = x + 2 * u + v
  PROVE  /\ DiagonalOf(a, b, aa, bb) \in Seq(Operations)
         /\ Course(c, m, l, x, DiagonalOf(a, b, aa, bb), y)
<1> DEFINE out == <<By("pitch", a), By("yaw", aa)>>
           over == <<By("pitch", b), By("yaw", bb)>>
           x1 == x + u
           x2 == x1 + v
<1>1. x1 \in Int /\ x2 \in Int /\ y = x2 + u
  OBVIOUS
<1>2. m # "slide" => /\ Free(c, m, {x, x + u}) /\ Free(c, m, {x1, x1 + v})
                     /\ Free(c, m, {x2, x2 + u})
  BY <1>1 DEF Free
<1>3. out \in Seq(Operations)
  BY DEF By, Operations, Motors
<1>12. Course(c, m, l, x, out, x1)
  BY <1>2, <1>3, PairCourse
<1> HIDE DEF x1
<1>4. over \in Seq(Operations) /\ Course(c, m, l, x1, over, x2)
  BY <1>1, <1>2, <1>3, PairCourse
<1> HIDE DEF x2
<1>5. Course(c, m, l, x2, out, x2 + u)
  BY <1>1, <1>2, <1>3, PairCourse
<1>6. Course(c, m, l, x2, out, y)
  BY <1>1, <1>5
<1> HIDE DEF out, over
<1>7. /\ WaitBoth \in Seq(Operations)
      /\ Course(c, m, l, x1, WaitBoth, x1) /\ Course(c, m, l, x2, WaitBoth, x2)
  BY <1>1, WaitBothCourse
<1>8. Course(c, m, l, x, out \o WaitBoth, x1) /\ out \o WaitBoth \in Seq(Operations)
  BY <1>3, <1>7, <1>12, CourseThrough
<1>9. /\ Course(c, m, l, x, out \o WaitBoth \o over, x2)
      /\ out \o WaitBoth \o over \in Seq(Operations)
  BY <1>4, <1>8, CourseThrough
<1>10. /\ Course(c, m, l, x, out \o WaitBoth \o over \o WaitBoth, x2)
       /\ out \o WaitBoth \o over \o WaitBoth \in Seq(Operations)
  BY <1>7, <1>9, CourseThrough
<1> DEFINE s == out \o WaitBoth \o over \o WaitBoth
<1>11. s \in Seq(Operations) /\ Course(c, m, l, x, s, x2)
  BY <1>10
<1> HIDE DEF s
<1>13. Course(c, m, l, x, s \o out, y) /\ s \o out \in Seq(Operations)
  BY <1>3, <1>6, <1>11, CourseThrough
<1> QED
  BY <1>13 DEF DiagonalOf, out, over, s

\* A diameter is twice its half, or one more.
LEMMA Halves ==
  ASSUME NEW d \in Nat
  PROVE  /\ d \div 2 \in Nat /\ ShortOf(d) \in {0, 1}
         /\ d = 2 * (d \div 2) + ShortOf(d)
  BY DEF ShortOf

LEMMA TargetFields ==
  ASSUME NEW c \in Targets, NEW m \in Motors
  PROVE  /\ c.type = "TARGET" /\ c.step_goals \in TargetGoals /\ c.step_goals[m] \in Int
         /\ c.star \in Nat /\ c.scan \in Nat /\ c.laser \in BOOLEAN
  BY GoalsAssumption, PatternAssumption DEF Targets, Motors

\* A scan comes back to the goal.
LEMMA ScanCourse ==
  ASSUME NEW c \in Targets, NEW m \in Motors, NEW l, l # "timed", c.star = 0
  PROVE  /\ scan_pattern(c.scan) \in Seq(Operations)
         /\ Course(c, m, l, c.step_goals[m], scan_pattern(c.scan), c.step_goals[m])
<1> DEFINE g == c.step_goals[m]
           d == c.scan
<1>1. g \in Int /\ d \in Nat /\ c.type = "TARGET" /\ "pitch" \in Motors
  BY TargetFields DEF Motors
<1> DEFINE b == -2 * d
<1>2. Free(c, m, {g, g + d, g + d + b, g + 2 * d + b}) /\ g + 2 * d + b = g /\ b \in Int
  BY <1>1 DEF Free, Room
<1> HIDE DEF g, d, b
<1>3. d \in Int /\ ("pitch" = m => Free(c, m, {g, g + d, g + d + b, g + 2 * d + b}))
  BY <1>1, <1>2
<1>4. /\ <<By("pitch", d), By("pitch", b), By("pitch", d)>> \in Seq(Operations)
      /\ Course(c, m, l, g, <<By("pitch", d), By("pitch", b), By("pitch", d)>>,
                IF "pitch" = m THEN g + 2 * d + b ELSE g)
  BY <1>1, <1>2, <1>3, StrokeCourse
<1> QED
  BY <1>2, <1>4 DEF scan_pattern, g, d, b

\* A star ends short of the goal by what an odd diameter loses in each stroke.
LEMMA StarCourse ==
  ASSUME NEW c \in Targets, NEW m \in Motors, NEW l, l # "timed", c.star > 0
  PROVE  /\ star_pattern(c.star) \in Seq(Operations)
         /\ Course(c, m, l, c.step_goals[m], star_pattern(c.star), Place(c, m))
<1> DEFINE g == c.step_goals[m]
           d == c.star
           half == d \div 2
           n == ShortOf(d)
           back == -d
           half1 == 1 * half
           back1 == -1 * d
           half2 == (-1) * half
           back2 == -(-1) * d
           Up(k) == <<By(k, half), By(k, back), By(k, half)>>
           one == DiagonalOf(half, back, half1, back1)
           two == DiagonalOf(half, back, half2, back2)
           g1 == IF m = "pitch" THEN g - n ELSE g
           g2 == IF m = "yaw" THEN g - n ELSE g1
           g3 == IF m = "slide" THEN g ELSE g - 2 * n
           g4 == CASE m = "pitch" -> g - 3 * n [] m = "yaw" -> g - n [] OTHER -> g
<1>1. /\ g \in Int /\ half \in Nat /\ n \in {0, 1} /\ d = 2 * half + n
      /\ c.type = "TARGET" /\ "pitch" \in Motors /\ "yaw" \in Motors
  BY TargetFields, Halves DEF Motors
<1>2. Room(c, m) = g + (half - d - 2 * n) .. g + half
  BY <1>1 DEF Room
<1>3. Place(c, m) = g4
  BY <1>1 DEF Place, Motors
<1>4. star_pattern(d) = Up("pitch") \o Up("yaw") \o one \o two
  BY DEF star_pattern, DiagonalOf
<1>5. back = -d /\ half1 = half /\ back1 = -d /\ half2 = -half /\ back2 = d
  BY <1>1
<1> HIDE DEF g, d, half, n, back, half1, back1, half2, back2
<1>6. /\ d \in Int /\ back \in Int /\ half1 \in Int /\ back1 \in Int /\ half2 \in Int
      /\ back2 \in Int /\ half \in Int
  BY <1>1, <1>5
<1>7. g1 \in Int /\ g2 \in Int /\ g3 \in Int /\ g4 \in Int
  BY <1>1
<1>8. Up("pitch") \in Seq(Operations) /\ Course(c, m, l, g, Up("pitch"), g1)
  <2>1. "pitch" = m => Free(c, m, {g, g + half, g + half + back, g + 2 * half + back})
    BY <1>1, <1>2, <1>5 DEF Free
  <2>2. (IF "pitch" = m THEN g + 2 * half + back ELSE g) = g1
    BY <1>1, <1>5
  <2>3. /\ Up("pitch") \in Seq(Operations)
        /\ Course(c, m, l, g, Up("pitch"), IF "pitch" = m THEN g + 2 * half + back ELSE g)
    BY <1>1, <1>6, <2>1, StrokeCourse
  <2> QED
    BY <2>2, <2>3
<1>9. Up("yaw") \in Seq(Operations) /\ Course(c, m, l, g1, Up("yaw"), g2)
  <2>1. "yaw" = m => Free(c, m, {g1, g1 + half, g1 + half + back, g1 + 2 * half + back})
    BY <1>1, <1>2, <1>5 DEF Free
  <2>2. (IF "yaw" = m THEN g1 + 2 * half + back ELSE g1) = g2
    BY <1>1, <1>5, <1>7
  <2> HIDE DEF g1
  <2>3. /\ Up("yaw") \in Seq(Operations)
        /\ Course(c, m, l, g1, Up("yaw"), IF "yaw" = m THEN g1 + 2 * half + back ELSE g1)
    BY <1>1, <1>6, <1>7, <2>1, StrokeCourse
  <2> QED
    BY <2>2, <2>3
<1>10. one \in Seq(Operations) /\ Course(c, m, l, g2, one, g3)
  <2> DEFINE u == CASE m = "pitch" -> half [] m = "yaw" -> half1 [] OTHER -> 0
             v == CASE m = "pitch" -> back [] m = "yaw" -> back1 [] OTHER -> 0
  <2>1. u \in Int /\ v \in Int
    BY <1>6
  <2>2. IF m = "slide" THEN u = 0 /\ v = 0 /\ g2 = g /\ g3 = g
        ELSE u = half /\ v = -d /\ g2 = g - n /\ g3 = g - 2 * n
    BY <1>5 DEF Motors
  <2>3. IsShare(m, half, half1, u) /\ IsShare(m, back, back1, v)
    BY DEF IsShare
  <2> HIDE DEF u, v, g2, g3, one
  <2>4. m # "slide" => Free(c, m, {g2, g2 + u, g2 + u + v, g2 + 2 * u + v})
    BY <1>1, <1>2, <1>6, <2>2 DEF Free
  <2>5. g3 = g2 + 2 * u + v
    BY <1>1, <1>6, <1>7, <2>2
  <2> QED
    BY <1>6, <1>7, <2>1, <2>3, <2>4, <2>5, DiagonalCourse DEF one
<1>11. two \in Seq(Operations) /\ Course(c, m, l, g3, two, g4)
  <2> DEFINE u == CASE m = "pitch" -> half [] m = "yaw" -> half2 [] OTHER -> 0
             v == CASE m = "pitch" -> back [] m = "yaw" -> back2 [] OTHER -> 0
  <2>1. u \in Int /\ v \in Int
    BY <1>6
  <2>2. /\ m = "pitch" => u = half /\ v = -d /\ g3 = g - 2 * n /\ g4 = g - 3 * n
        /\ m = "yaw" => u = -half /\ v = d /\ g3 = g - 2 * n /\ g4 = g - n
        /\ m = "slide" => u = 0 /\ v = 0 /\ g3 = g /\ g4 = g
        /\ m \in {"pitch", "yaw", "slide"}
    BY <1>5 DEF Motors
  <2>3. IsShare(m, half, half2, u) /\ IsShare(m, back, back2, v)
    BY DEF IsShare
  <2> HIDE DEF u, v, g3, g4, two
  <2>4. m # "slide" => Free(c, m, {g3, g3 + u, g3 + u + v, g3 + 2 * u + v})
    BY <1>1, <1>2, <1>6, <2>2 DEF Free
  <2>5. g4 = g3 + 2 * u + v
    BY <1>1, <1>6, <1>7, <2>2
  <2> QED
    BY <1>6, <1>7, <2>1, <2>3, <2>4, <2>5, DiagonalCourse DEF two
<1> HIDE DEF Up, one, two, g1, g2, g3, g4
<1> DEFINE ups == Up("pitch") \o Up("yaw")
           most == ups \o one
<1>12. Course(c, m, l, g, ups, g2) /\ ups \in Seq(Operations)
  BY <1>8, <1>9, CourseThrough
<1> HIDE DEF ups
<1>13. Course(c, m, l, g, most, g3) /\ most \in Seq(Operations)
  BY <1>10, <1>12, CourseThrough
<1> HIDE DEF most
<1>14. Course(c, m, l, g, most \o two, g4) /\ most \o two \in Seq(Operations)
  BY <1>11, <1>13, CourseThrough
<1> QED
  BY <1>3, <1>4, <1>14 DEF g, d, ups, most

-----------------------------------------------------------------------------
(* Whole routines, from rest to their ends. *)

\* Every motor to its goal.
ToAll(goals) ==
  <<To("pitch", goals["pitch"]), To("yaw", goals["yaw"]), To("slide", goals["slide"])>>

LEMMA ToAllLeads ==
  ASSUME NEW c, NEW m \in Motors, NEW goals \in [Motors -> Int], NEW p, Calm(p)
  PROVE  /\ ToAll(goals) \in Seq(Operations)
         /\ Leads(c, m, p, ToAll(goals), Point(TRUE, TRUE, goals[m], p.laser))
<1> DEFINE a == goals["pitch"]
           b == goals["yaw"]
           d == goals["slide"]
           x == goals[m]
<1>0. /\ a \in Int /\ b \in Int /\ d \in Int /\ x \in Int
      /\ (m = "pitch" => x = a) /\ (m = "yaw" => x = b) /\ (m = "slide" => x = d)
  BY DEF Motors
<1>10. ToAll(goals) = <<To("pitch", a), To("yaw", b), To("slide", d)>>
  BY DEF ToAll
<1> HIDE DEF a, b, d, x
<1> DEFINE p1 == IF "pitch" = m THEN Point(TRUE, TRUE, a, p.laser) ELSE p
           p2 == IF "yaw" = m THEN Point(TRUE, TRUE, b, p1.laser) ELSE p1
           p3 == IF "slide" = m THEN Point(TRUE, TRUE, d, p2.laser) ELSE p2
<1>1. "pitch" \in Motors /\ "yaw" \in Motors /\ "slide" \in Motors
  BY DEF Motors
<1>2. /\ To("pitch", a) \in Operations /\ To("yaw", b) \in Operations
      /\ To("slide", d) \in Operations
  BY <1>0, <1>1 DEF To, Operations
<1>3. p3 = Point(TRUE, TRUE, x, p.laser)
  BY <1>0 DEF Motors, Point
<1>4. Allowed(c, To("pitch", a), m, p) /\ After(To("pitch", a), m, p) = p1 /\ Calm(p1)
  <2>1. /\ Allowed(c, To("pitch", a), m, p)
        /\ After(To("pitch", a), m, p) =
             (IF "pitch" = m THEN Point(TRUE, TRUE, a, p.laser) ELSE p)
        /\ Calm(Point(TRUE, TRUE, a, p.laser))
    BY <1>0, <1>1 DEF To, Allowed, After, Calm, Point, Points
  <2> QED
    BY <1>1, <2>1
<1> HIDE DEF p1
<1>5. Allowed(c, To("yaw", b), m, p1) /\ After(To("yaw", b), m, p1) = p2 /\ Calm(p2)
  <2>1. /\ Allowed(c, To("yaw", b), m, p1)
        /\ After(To("yaw", b), m, p1) =
             (IF "yaw" = m THEN Point(TRUE, TRUE, b, p1.laser) ELSE p1)
        /\ Calm(Point(TRUE, TRUE, b, p1.laser))
    BY <1>0, <1>1, <1>4 DEF To, Allowed, After, Calm, Point, Points
  <2> QED
    BY <1>1, <1>4, <2>1
<1> HIDE DEF p2
<1>6. Allowed(c, To("slide", d), m, p2) /\ After(To("slide", d), m, p2) = p3
  <2>1. /\ Allowed(c, To("slide", d), m, p2)
        /\ After(To("slide", d), m, p2) =
             (IF "slide" = m THEN Point(TRUE, TRUE, d, p2.laser) ELSE p2)
        /\ Calm(Point(TRUE, TRUE, d, p2.laser))
    BY <1>0, <1>1, <1>5 DEF To, Allowed, After, Calm, Point, Points
  <2> QED
    BY <1>1, <1>5, <2>1
<1> HIDE DEF p3
<1>7. p \in Points
  BY DEF Calm
<1>8. Leads(c, m, p, <<To("pitch", a), To("yaw", b), To("slide", d)>>, p3)
  BY <1>2, <1>4, <1>5, <1>6, <1>7, LeadsByThree
<1>9. <<To("pitch", a), To("yaw", b), To("slide", d)>> \in Seq(Operations)
  BY <1>2
<1> QED
  BY <1>3, <1>8, <1>9, <1>10, Zenon DEF x

LEMMA WaitAllLeads ==
  ASSUME NEW c, NEW m \in Motors, NEW p, Calm(p)
  PROVE  WaitAll \in Seq(Operations) /\ Leads(c, m, p, WaitAll, Rested(p))
<1> DEFINE p1 == IF "pitch" = m THEN Rested(p) ELSE p
           p2 == IF "yaw" = m THEN Rested(p1) ELSE p1
           p3 == IF "slide" = m THEN Rested(p2) ELSE p2
<1>1. "pitch" \in Motors /\ "yaw" \in Motors /\ "slide" \in Motors
  BY DEF Motors
<1>2. /\ Wait("pitch") \in Operations /\ Wait("yaw") \in Operations
      /\ Wait("slide") \in Operations
  BY <1>1 DEF Wait, Operations
<1>3. p3 = Rested(p)
  BY DEF Motors
<1>4. Allowed(c, Wait("pitch"), m, p) /\ After(Wait("pitch"), m, p) = p1 /\ Calm(p1)
  BY <1>1, WaitLeads
<1> HIDE DEF p1
<1>5. Allowed(c, Wait("yaw"), m, p1) /\ After(Wait("yaw"), m, p1) = p2 /\ Calm(p2)
  BY <1>1, <1>4, WaitLeads
<1> HIDE DEF p2
<1>6. Allowed(c, Wait("slide"), m, p2) /\ After(Wait("slide"), m, p2) = p3
  BY <1>1, <1>5, WaitLeads
<1> HIDE DEF p3
<1>7. p \in Points
  BY DEF Calm
<1>8. Leads(c, m, p, <<Wait("pitch"), Wait("yaw"), Wait("slide")>>, p3)
  BY <1>2, <1>4, <1>5, <1>6, <1>7, LeadsByThree
<1> QED
  BY <1>2, <1>3, <1>8 DEF WaitAll

LEMMA WaitBothLeads ==
  ASSUME NEW c, NEW m \in Motors, NEW p, Calm(p)
  PROVE  /\ WaitBoth \in Seq(Operations)
         /\ Leads(c, m, p, WaitBoth, IF m = "slide" THEN p ELSE Rested(p))
<1> DEFINE p1 == IF "pitch" = m THEN Rested(p) ELSE p
           p2 == IF "yaw" = m THEN Rested(p1) ELSE p1
<1>1. "pitch" \in Motors /\ "yaw" \in Motors
  BY DEF Motors
<1>2. Wait("pitch") \in Operations /\ Wait("yaw") \in Operations
  BY <1>1 DEF Wait, Operations
<1>3. p2 = IF m = "slide" THEN p ELSE Rested(p)
  BY DEF Motors
<1>4. Allowed(c, Wait("pitch"), m, p) /\ After(Wait("pitch"), m, p) = p1 /\ Calm(p1)
  BY <1>1, WaitLeads
<1> HIDE DEF p1
<1>5. Allowed(c, Wait("yaw"), m, p1) /\ After(Wait("yaw"), m, p1) = p2
  BY <1>1, <1>4, WaitLeads
<1> HIDE DEF p2
<1>6. p \in Points
  BY DEF Calm
<1>7. Leads(c, m, p, <<Wait("pitch"), Wait("yaw")>>, p2)
  BY <1>2, <1>4, <1>5, <1>6, LeadsByTwo
<1> QED
  BY <1>2, <1>3, <1>7 DEF WaitBoth

\* A target without a star: goals, scan, flash.
LEMMA ScanTargetLeads ==
  ASSUME NEW c \in Targets, c.star = 0, NEW m \in Motors, NEW x \in Int
  PROVE  /\ handle_target(c) \in Seq(Operations)
         /\ \E q \in Points : /\ Leads(c, m, Point(FALSE, TRUE, x, "off"), handle_target(c), q)
                              /\ Ends(c, m, q)
<1> DEFINE p == Point(FALSE, TRUE, x, "off")
           g == c.step_goals[m]
           p1 == Point(TRUE, TRUE, g, "off")
           end == Point(FALSE, TRUE, g, "off")
           goals == ToAll(c.step_goals)
           scan == IF c.scan > 0 THEN scan_pattern(c.scan) ELSE <<>>
           light == activate_led_for_ms_blocking(c.laser)
<1>1. /\ g \in Int /\ c.scan \in Nat /\ c.laser \in BOOLEAN /\ c.type = "TARGET"
      /\ c.step_goals \in [Motors -> Int]
  BY TargetFields, GoalsAssumption DEF Motors
<1>2. Place(c, m) = g
  BY <1>1 DEF Place, ShortOf
<1>4. handle_target(c) = goals \o scan \o WaitAll \o light
  BY DEF handle_target, simple_target, ToAll
<1> HIDE DEF g
<1>5. Calm(p) /\ p \in Points /\ p.laser = "off"
  BY Fields DEF Calm
<1>6. /\ p1 \in Points /\ p1.known = TRUE /\ p1.at = g /\ p1.laser = "off"
      /\ end \in Points /\ end.known = TRUE /\ end.at = g /\ end.laser = "off"
      /\ end.moves = FALSE
  BY <1>1 DEF Point, Points
<1>7. goals \in Seq(Operations) /\ Leads(c, m, p, goals, p1)
  <2>1. Leads(c, m, p, goals, Point(TRUE, TRUE, c.step_goals[m], p.laser))
    BY <1>1, <1>5, ToAllLeads
  <2>2. goals \in Seq(Operations)
    BY <1>1, <1>5, ToAllLeads
  <2> QED
    BY <1>5, <2>1, <2>2 DEF g
<1> HIDE DEF p, p1, goals
<1>8. /\ scan \in Seq(Operations)
      /\ \E q \in Points : q.known /\ q.at = g /\ q.laser = "off" /\ Leads(c, m, p1, scan, q)
  <2>1. CASE c.scan > 0
    <3>1. /\ scan_pattern(c.scan) \in Seq(Operations)
          /\ Course(c, m, "off", g, scan_pattern(c.scan), g)
      BY ScanCourse DEF g
    <3> QED
      BY <1>6, <2>1, <3>1 DEF Course
  <2>2. CASE ~(c.scan > 0)
    BY <1>6, <2>2, LeadsNowhere
  <2> QED
    BY <2>1, <2>2
<1>9. PICK q \in Points : q.known /\ q.at = g /\ q.laser = "off" /\ Leads(c, m, p1, scan, q)
  BY <1>8
<1>10. WaitAll \in Seq(Operations) /\ Leads(c, m, q, WaitAll, end)
  <2>1. Calm(q)
    BY <1>9 DEF Calm
  <2>2. Rested(q) = end
    BY <1>9, PointFields DEF Rested
  <2> QED
    BY <2>1, <2>2, WaitAllLeads
<1>11. light \in Seq(Operations) /\ Leads(c, m, end, light, end)
  <2>1. CASE c.laser
    <3> DEFINE lit == Point(FALSE, TRUE, g, "timed")
    <3>1. /\ Laser("flash") \in Operations /\ Laser("off") \in Operations
          /\ Allowed(c, Laser("flash"), m, end) /\ After(Laser("flash"), m, end) = lit
      BY <1>1, <1>6, LaserLeads DEF g
    <3>2. lit \in Points /\ lit.known = TRUE /\ lit.at = g /\ lit.moves = FALSE
      BY <1>1 DEF Point, Points
    <3>3. Allowed(c, Laser("off"), m, lit) /\ After(Laser("off"), m, lit) = end
      BY <3>2, LaserLeads
    <3> HIDE DEF lit
    <3>4. Leads(c, m, end, <<Laser("flash"), Laser("off")>>, end)
      BY <1>6, <3>1, <3>3, LeadsByTwo
    <3>5. light = <<Laser("flash"), Laser("off")>>
      BY <2>1, Zenon DEF activate_led_for_ms_blocking
    <3>6. <<Laser("flash"), Laser("off")>> \in Seq(Operations)
      BY <3>1
    <3> QED
      BY <3>4, <3>5, <3>6, Zenon
  <2>2. CASE ~c.laser
    <3>1. light = <<>>
      BY <2>2, Zenon DEF activate_led_for_ms_blocking
    <3>2. end \in Points
      BY <1>6
    <3> HIDE DEF end
    <3>3. Leads(c, m, end, <<>>, end)
      BY <3>2, LeadsNowhere
    <3>4. <<>> \in Seq(Operations)
      OBVIOUS
    <3> QED
      BY <3>1, <3>3, <3>4, Zenon
  <2> QED
    BY <2>1, <2>2
<1> HIDE DEF scan, light, end
<1>12. Leads(c, m, p, goals \o scan, q) /\ goals \o scan \in Seq(Operations)
  BY <1>7, <1>8, <1>9, LeadsThrough
<1> DEFINE way == goals \o scan
<1> HIDE DEF way
<1>13. Leads(c, m, p, way \o WaitAll, end) /\ way \o WaitAll \in Seq(Operations)
  <2>1. Leads(c, m, p, way, q) /\ way \in Seq(Operations)
    BY <1>12 DEF way
  <2> QED
    BY <1>10, <2>1, LeadsThrough
<1> DEFINE still == way \o WaitAll
<1> HIDE DEF still
<1>14. Leads(c, m, p, still \o light, end) /\ still \o light \in Seq(Operations)
  <2>1. Leads(c, m, p, still, end) /\ still \in Seq(Operations)
    BY <1>13 DEF still
  <2> QED
    BY <1>11, <2>1, LeadsThrough
<1>15. Ends(c, m, end)
  BY <1>2, <1>6 DEF Ends
<1> QED
  BY <1>4, <1>6, <1>14, <1>15 DEF p, way, still

\* A target with a star: goals, steady laser, star, laser off.
LEMMA StarTargetLeads ==
  ASSUME NEW c \in Targets, c.star # 0, NEW m \in Motors, NEW x \in Int
  PROVE  /\ handle_target(c) \in Seq(Operations)
         /\ \E q \in Points : /\ Leads(c, m, Point(FALSE, TRUE, x, "off"), handle_target(c), q)
                              /\ Ends(c, m, q)
<1> DEFINE p == Point(FALSE, TRUE, x, "off")
           g == c.step_goals[m]
           at == Place(c, m)
           p1 == Point(TRUE, TRUE, g, "off")
           p2 == Point(TRUE, TRUE, g, "steady")
           end == Point(FALSE, TRUE, at, "off")
           goals == ToAll(c.step_goals)
           star == star_pattern(c.star)
<1>1. /\ g \in Int /\ c.star \in Nat /\ c.star > 0 /\ c.type = "TARGET"
      /\ c.step_goals \in [Motors -> Int]
  BY TargetFields, GoalsAssumption DEF Motors
<1>2. at \in Int
  BY <1>1, Halves DEF Place
<1>3. goals \in Seq(Operations) /\ goals \o <<>> = goals
  BY <1>1 DEF ToAll, To, Operations, Motors
<1>4. handle_target(c) = goals \o <<Laser("steady")>> \o star \o <<Laser("off")>> \o WaitAll
  <2>1. simple_target(c.step_goals, 0) = goals \o <<>>
    BY DEF simple_target, ToAll
  <2> HIDE DEF goals
  <2> QED
    BY <1>3, <2>1 DEF handle_target
<1>5. Calm(p) /\ p \in Points /\ p.laser = "off"
  BY Fields DEF Calm
<1>6. /\ p1 \in Points /\ p1.moves = TRUE /\ p1.known = TRUE /\ p1.at = g /\ p1.laser = "off"
      /\ p2 \in Points /\ p2.known = TRUE /\ p2.at = g /\ p2.laser = "steady"
      /\ end \in Points /\ end.known = TRUE /\ end.at = at /\ end.laser = "off"
      /\ end.moves = FALSE
  BY <1>1, <1>2 DEF Point, Points
<1>7. Leads(c, m, p, goals, p1)
  <2>1. Leads(c, m, p, goals, Point(TRUE, TRUE, c.step_goals[m], p.laser))
    BY <1>1, <1>5, ToAllLeads
  <2> QED
    BY <1>5, <2>1
<1>8. /\ Laser("steady") \in Operations /\ Laser("off") \in Operations
      /\ Allowed(c, Laser("steady"), m, p1) /\ After(Laser("steady"), m, p1) = p2
  <2>1. Allowed(c, Laser("steady"), m, p1)
    BY <1>6, LaserLeads
  <2>2. After(Laser("steady"), m, p1) = Point(p1.moves, p1.known, p1.at, "steady")
    BY <1>6, LaserLeads
  <2>3. Laser("steady") \in Operations /\ Laser("off") \in Operations
    BY <1>6, LaserLeads
  <2> QED
    BY <1>6, <2>1, <2>2, <2>3
<1>9. star \in Seq(Operations) /\ Course(c, m, "steady", g, star, at)
  BY <1>1, StarCourse
<1> HIDE DEF p, p1, p2, goals, star, g, at
<1>10. Leads(c, m, p1, <<Laser("steady")>>, p2) /\ <<Laser("steady")>> \in Seq(Operations)
  BY <1>6, <1>8, LeadsByOne
<1>11. PICK q \in Points : q.known /\ q.at = at /\ q.laser = "steady" /\ Leads(c, m, p2, star, q)
  BY <1>6, <1>9 DEF Course
<1> DEFINE r == After(Laser("off"), m, q)
<1>12. /\ r \in Points /\ r.known = TRUE /\ r.at = at /\ r.laser = "off"
       /\ Leads(c, m, q, <<Laser("off")>>, r) /\ <<Laser("off")>> \in Seq(Operations)
  <2>1. Allowed(c, Laser("off"), m, q)
    BY LaserLeads
  <2>2. r = Point(q.moves, q.known, q.at, "off")
    BY LaserLeads
  <2>3. Leads(c, m, q, <<Laser("off")>>, r) /\ <<Laser("off")>> \in Seq(Operations)
    BY <1>8, <2>1, LeadsByOne
  <2>4. r \in Points /\ r.known = TRUE /\ r.at = at /\ r.laser = "off"
    <3> HIDE DEF r
    <3> QED
      BY <1>11, <2>2, PointFields DEF Point, Points
  <2> QED
    BY <2>3, <2>4
<1> HIDE DEF r
<1>13. WaitAll \in Seq(Operations) /\ Leads(c, m, r, WaitAll, end)
  <2>1. Calm(r)
    BY <1>12 DEF Calm
  <2>2. Rested(r) = end
    BY <1>12 DEF Rested
  <2> QED
    BY <2>1, <2>2, WaitAllLeads
<1> HIDE DEF end
<1> DEFINE on == <<Laser("steady")>>
           off == <<Laser("off")>>
           s1 == goals \o on
           s2 == s1 \o star
           s3 == s2 \o off
           s4 == s3 \o WaitAll
<1>19. /\ on \in Seq(Operations) /\ Leads(c, m, p1, on, p2)
       /\ off \in Seq(Operations) /\ Leads(c, m, q, off, r)
  BY <1>10, <1>12
<1> HIDE DEF on, off
<1>14. Leads(c, m, p, s1, p2) /\ s1 \in Seq(Operations)
  BY <1>3, <1>7, <1>19, LeadsThrough
<1> HIDE DEF s1
<1>15. Leads(c, m, p, s2, q) /\ s2 \in Seq(Operations)
  BY <1>9, <1>11, <1>14, LeadsThrough
<1> HIDE DEF s2
<1>16. Leads(c, m, p, s3, r) /\ s3 \in Seq(Operations)
  BY <1>15, <1>19, LeadsThrough
<1> HIDE DEF s3
<1>17. Leads(c, m, p, s4, end) /\ s4 \in Seq(Operations)
  BY <1>13, <1>16, LeadsThrough
<1>18. Ends(c, m, end)
  BY <1>6 DEF Ends, at
<1> QED
  BY <1>4, <1>6, <1>17, <1>18 DEF p, on, off, s1, s2, s3, s4

\* To the magnet and, once there, the reference.
LEMMA HomeLeads ==
  ASSUME NEW c, NEW m \in Motors, NEW k \in Motors, NEW p, Calm(p)
  PROVE  /\ <<ToMagnet(k), Wait(k), Reference(k)>> \in Seq(Operations)
         /\ Leads(c, m, p, <<ToMagnet(k), Wait(k), Reference(k)>>,
                  IF k = m THEN Point(FALSE, TRUE, 0, p.laser) ELSE p)
<1> DEFINE p1 == IF k = m THEN Point(TRUE, FALSE, 0, p.laser) ELSE p
           p2 == IF k = m THEN Rested(p1) ELSE p1
           p3 == IF k = m THEN Point(FALSE, TRUE, 0, p2.laser) ELSE p2
<1>1. ToMagnet(k) \in Operations /\ Wait(k) \in Operations /\ Reference(k) \in Operations
  BY DEF ToMagnet, Wait, Reference, Operations
<1>2. p3 = (IF k = m THEN Point(FALSE, TRUE, 0, p.laser) ELSE p) /\ (k = m => ~p2.moves)
  BY DEF Rested, Point
<1>3. Allowed(c, ToMagnet(k), m, p) /\ After(ToMagnet(k), m, p) = p1 /\ Calm(p1)
  <2>1. Allowed(c, ToMagnet(k), m, p)
    BY MagnetLeads
  <2>2. After(ToMagnet(k), m, p) = (IF k = m THEN Point(TRUE, FALSE, 0, p.laser) ELSE p)
    BY DEF After, ToMagnet
  <2>3. Calm(p1)
    BY MagnetLeads
  <2> QED
    BY <2>1, <2>2, <2>3
<1> HIDE DEF p1
<1>4. Allowed(c, Wait(k), m, p1) /\ After(Wait(k), m, p1) = p2 /\ Calm(p2)
  BY <1>3, WaitLeads
<1> HIDE DEF p2
<1>5. Allowed(c, Reference(k), m, p2) /\ After(Reference(k), m, p2) = p3
  BY <1>2, <1>4, ReferenceLeads
<1> HIDE DEF p3
<1>6. Leads(c, m, p, <<ToMagnet(k), Wait(k), Reference(k)>>, p3)
  BY <1>1, <1>3, <1>4, <1>5, LeadsByThree DEF Calm
<1>7. <<ToMagnet(k), Wait(k), Reference(k)>> \in Seq(Operations)
  BY <1>1
<1> QED
  BY <1>2, <1>6, <1>7, Zenon

\* Reference, a turn past the magnets, then pitch and yaw home one by one.
LEMMA HardHomingLeads ==
  ASSUME NEW c, c.type = "HARD_HOMING", NEW m \in Motors, NEW x \in Int
  PROVE  /\ hard_homing \in Seq(Operations)
         /\ \E q \in Points : /\ Leads(c, m, Point(FALSE, TRUE, x, "off"), hard_homing, q)
                              /\ Ends(c, m, q)
<1> DEFINE p == Point(FALSE, TRUE, x, "off")
           zero == Point(FALSE, TRUE, 0, "off")
           a1 == IF "pitch" = m THEN zero ELSE p
           a2 == IF "yaw" = m THEN zero ELSE a1
           b1 == IF "pitch" = m THEN Shifted(a2, Revolution) ELSE a2
           b2 == IF "yaw" = m THEN Shifted(b1, Revolution) ELSE b1
           w == IF m = "slide" THEN b2 ELSE Rested(b2)
           h1 == IF "pitch" = m THEN zero ELSE w
           h2 == IF "yaw" = m THEN zero ELSE h1
           refs == <<Reference("pitch"), Reference("yaw")>>
           turns == <<By("pitch", Revolution), By("yaw", Revolution)>>
           home1 == <<ToMagnet("pitch"), Wait("pitch"), Reference("pitch")>>
           home2 == <<ToMagnet("yaw"), Wait("yaw"), Reference("yaw")>>
<1>1. "pitch" \in Motors /\ "yaw" \in Motors /\ Revolution \in Int
  BY HomeAssumption DEF Motors
<1>2. /\ hard_homing = refs \o turns \o WaitBoth \o (home1 \o home2)
      /\ refs \in Seq(Operations) /\ turns \in Seq(Operations)
  <2>1. /\ Reference("pitch") \in Operations /\ Reference("yaw") \in Operations
        /\ By("pitch", Revolution) \in Operations /\ By("yaw", Revolution) \in Operations
    BY <1>1 DEF Reference, By, Operations
  <2>2. /\ <<Reference("pitch"), Reference("yaw"), By("pitch", Revolution),
             By("yaw", Revolution)>> = refs \o turns
        /\ <<ToMagnet("pitch"), Wait("pitch"), Reference("pitch"),
             ToMagnet("yaw"), Wait("yaw"), Reference("yaw")>> = home1 \o home2
    OBVIOUS
  <2>3. refs \in Seq(Operations) /\ turns \in Seq(Operations)
    BY <2>1
  <2> QED
    BY <2>2, <2>3 DEF hard_homing
<1>3. /\ p \in Points /\ p.laser = "off" /\ p.moves = FALSE
      /\ zero \in Points /\ zero.known = TRUE /\ zero.at = 0 /\ zero.laser = "off"
      /\ zero.moves = FALSE /\ Calm(p) /\ Calm(zero)
  BY DEF Point, Points, Calm
<1>4. Ends(c, m, h2) /\ h2 \in Points
  <2>1. CASE m = "slide"
    <3>1. h2 = p
      BY <2>1
    <3> HIDE DEF p, h2
    <3> QED
      BY <1>3, <2>1, <3>1 DEF Ends, Demanded
  <2>2. CASE m # "slide"
    <3>1. h2 = zero
      BY <2>2 DEF Motors
    <3>2. Place(c, m) = 0
      BY DEF Place
    <3> HIDE DEF zero, h2
    <3> QED
      BY <1>3, <3>1, <3>2 DEF Ends
  <2> QED
    BY <2>1, <2>2
<1>5. Leads(c, m, p, refs, a2) /\ Calm(a2)
  <2>1. Point(FALSE, TRUE, 0, p.laser) = zero
    BY <1>3
  <2> HIDE DEF p, zero
  <2>2. Allowed(c, Reference("pitch"), m, p) /\ After(Reference("pitch"), m, p) = a1
    BY <1>1, <1>3, <2>1, ReferenceLeads
  <2>3. Calm(a1) /\ a1.moves = FALSE /\ Point(FALSE, TRUE, 0, a1.laser) = zero
    BY <1>3, <2>1
  <2> HIDE DEF a1
  <2>4. Allowed(c, Reference("yaw"), m, a1) /\ After(Reference("yaw"), m, a1) = a2
    <3>1. ~a1.moves
      BY <2>3
    <3>2. /\ Allowed(c, Reference("yaw"), m, a1)
          /\ After(Reference("yaw"), m, a1) =
               (IF "yaw" = m THEN Point(FALSE, TRUE, 0, a1.laser) ELSE a1)
      BY <1>1, <2>3, <3>1, PointFields DEF Allowed, After, Reference, Calm
    <3> QED
      BY <2>3, <3>2
  <2>5. Calm(a2)
    BY <1>3, <2>3
  <2>6. Reference("pitch") \in Operations /\ Reference("yaw") \in Operations
    BY <1>1 DEF Reference, Operations
  <2> HIDE DEF a2
  <2>7. Leads(c, m, p, <<Reference("pitch"), Reference("yaw")>>, a2)
    BY <1>3, <2>2, <2>4, <2>6, LeadsByTwo
  <2> QED
    BY <2>5, <2>7
<1> HIDE DEF a2
<1>6. Leads(c, m, a2, turns, b2) /\ Calm(b2)
  <2>1. Allowed(c, By("pitch", Revolution), m, a2)
        /\ After(By("pitch", Revolution), m, a2) = b1 /\ Calm(b1)
    <3>1. /\ Allowed(c, By("pitch", Revolution), m, a2)
          /\ After(By("pitch", Revolution), m, a2) =
               (IF "pitch" = m THEN Shifted(a2, Revolution) ELSE a2)
          /\ Calm(IF "pitch" = m THEN Shifted(a2, Revolution) ELSE a2)
      BY <1>1, <1>5 DEF Allowed, After, By, Shifted, Calm, Point, Points
    <3> QED
      BY <3>1
  <2> HIDE DEF b1
  <2>2. Allowed(c, By("yaw", Revolution), m, b1)
        /\ After(By("yaw", Revolution), m, b1) = b2 /\ Calm(b2)
    <3>1. /\ Allowed(c, By("yaw", Revolution), m, b1)
          /\ After(By("yaw", Revolution), m, b1) =
               (IF "yaw" = m THEN Shifted(b1, Revolution) ELSE b1)
          /\ Calm(IF "yaw" = m THEN Shifted(b1, Revolution) ELSE b1)
      BY <1>1, <2>1 DEF Allowed, After, By, Shifted, Calm, Point, Points
    <3> QED
      BY <3>1
  <2>3. By("pitch", Revolution) \in Operations /\ By("yaw", Revolution) \in Operations
    BY <1>1 DEF By, Operations
  <2> HIDE DEF b2
  <2>4. Leads(c, m, a2, <<By("pitch", Revolution), By("yaw", Revolution)>>, b2)
    BY <1>5, <2>1, <2>2, <2>3, LeadsByTwo DEF Calm
  <2> QED
    BY <2>2, <2>4
<1> HIDE DEF b2
<1>7. WaitBoth \in Seq(Operations) /\ Leads(c, m, b2, WaitBoth, w) /\ Calm(w)
  BY <1>6, WaitBothLeads, WaitLeads
<1>8. w.laser = "off" /\ h1.laser = "off" /\ Calm(h1)
  <2>1. w.laser = "off"
    BY <1>3 DEF a2, b2, Rested, Shifted, Point
  <2> HIDE DEF w, zero
  <2> QED
    BY <1>3, <1>7, <2>1
<1> HIDE DEF w
<1>9. home1 \in Seq(Operations) /\ Leads(c, m, w, home1, h1)
  <2>1. home1 \in Seq(Operations)
    BY <1>1, <1>7, HomeLeads
  <2>2. Leads(c, m, w, home1, IF "pitch" = m THEN Point(FALSE, TRUE, 0, w.laser) ELSE w)
    BY <1>1, <1>7, HomeLeads
  <2> QED
    BY <1>8, <2>1, <2>2
<1> HIDE DEF h1
<1>10. home2 \in Seq(Operations) /\ Leads(c, m, h1, home2, h2)
  <2>1. home2 \in Seq(Operations)
    BY <1>1, <1>8, HomeLeads
  <2>2. Leads(c, m, h1, home2, IF "yaw" = m THEN Point(FALSE, TRUE, 0, h1.laser) ELSE h1)
    BY <1>1, <1>8, HomeLeads
  <2> QED
    BY <1>8, <2>1, <2>2
<1> HIDE DEF p, h2, refs, turns, home1, home2
<1> DEFINE s1 == refs \o turns
           s2 == s1 \o WaitBoth
           s3 == home1 \o home2
<1>11. Leads(c, m, p, s1, b2) /\ s1 \in Seq(Operations)
  BY <1>2, <1>5, <1>6, LeadsThrough
<1>12. Leads(c, m, w, s3, h2) /\ s3 \in Seq(Operations)
  BY <1>9, <1>10, LeadsThrough
<1> HIDE DEF s1, s3
<1>13. Leads(c, m, p, s2, w) /\ s2 \in Seq(Operations)
  BY <1>7, <1>11, LeadsThrough
<1> HIDE DEF s2
<1>14. Leads(c, m, p, s2 \o s3, h2) /\ s2 \o s3 \in Seq(Operations)
  BY <1>12, <1>13, LeadsThrough
<1> QED
  BY <1>2, <1>4, <1>14 DEF p, s1, s2, s3

LEMMA HomingLeads ==
  ASSUME NEW c, c.type = "HOMING", NEW m \in Motors, NEW x \in Int
  PROVE  /\ handle_homing(c.type) \in Seq(Operations)
         /\ \E q \in Points :
              /\ Leads(c, m, Point(FALSE, TRUE, x, "off"), handle_homing(c.type), q)
              /\ Ends(c, m, q)
<1> DEFINE p == Point(FALSE, TRUE, x, "off")
           zeros == [k \in Motors |-> 0]
           p1 == Point(TRUE, TRUE, 0, "off")
           end == Point(FALSE, TRUE, 0, "off")
           goals == ToAll(zeros)
<1>1. zeros \in [Motors -> Int] /\ zeros[m] = 0
  OBVIOUS
<1>2. /\ Calm(p) /\ p \in Points /\ p.laser = "off"
      /\ Calm(p1) /\ p1 \in Points /\ Rested(p1) = end
      /\ end \in Points /\ end.known = TRUE /\ end.at = 0 /\ end.laser = "off"
      /\ end.moves = FALSE
  BY DEF Calm, Point, Points, Rested
<1>3. handle_homing(c.type) = goals \o WaitAll
  BY DEF handle_homing, ToAll, Motors
<1> HIDE DEF zeros
<1>4. goals \in Seq(Operations) /\ Leads(c, m, p, goals, p1)
  <2>1. goals \in Seq(Operations)
    BY <1>1, <1>2, ToAllLeads
  <2>2. Leads(c, m, p, goals, Point(TRUE, TRUE, zeros[m], p.laser))
    BY <1>1, <1>2, ToAllLeads
  <2> QED
    BY <1>1, <1>2, <2>1, <2>2
<1>5. Ends(c, m, end)
  BY <1>2 DEF Ends, Place
<1> HIDE DEF p, p1, end, goals
<1>6. WaitAll \in Seq(Operations) /\ Leads(c, m, p1, WaitAll, end)
  BY <1>2, WaitAllLeads
<1>7. Leads(c, m, p, goals \o WaitAll, end) /\ goals \o WaitAll \in Seq(Operations)
  BY <1>4, <1>6, LeadsThrough
<1> QED
  BY <1>2, <1>3, <1>5, <1>7 DEF p

LEMMA SoftHomingLeads ==
  ASSUME NEW c, c.type = "SOFT_HOMING", NEW m \in Motors, NEW x \in Int
  PROVE  /\ handle_homing(c.type) \in Seq(Operations)
         /\ \E q \in Points :
              /\ Leads(c, m, Point(FALSE, TRUE, x, "off"), handle_homing(c.type), q)
              /\ Ends(c, m, q)
<1> DEFINE p == Point(FALSE, TRUE, x, "off")
           zero == Point(FALSE, TRUE, 0, "off")
           p1 == IF m = "pitch" THEN zero ELSE p
           p2 == IF m = "yaw" THEN zero ELSE p1
           p3 == IF m = "slide" THEN zero ELSE p2
<1>1. "pitch" \in Motors /\ "yaw" \in Motors /\ "slide" \in Motors
  BY DEF Motors
<1>2. /\ Reference("pitch") \in Operations /\ Reference("yaw") \in Operations
      /\ Reference("slide") \in Operations
  BY <1>1 DEF Reference, Operations
<1>3. p \in Points /\ zero \in Points /\ p3 = zero
  BY DEF Point, Points, Motors
<1>4. /\ Allowed(c, Reference("pitch"), m, p) /\ After(Reference("pitch"), m, p) = p1
      /\ Allowed(c, Reference("yaw"), m, p1) /\ After(Reference("yaw"), m, p1) = p2
      /\ Allowed(c, Reference("slide"), m, p2) /\ After(Reference("slide"), m, p2) = p3
  BY DEF Allowed, After, Reference, Point
<1>5. Ends(c, m, zero)
  BY DEF Ends, Place, Point
<1>6. handle_homing(c.type) = <<Reference("pitch"), Reference("yaw"), Reference("slide")>>
  BY DEF handle_homing
<1> HIDE DEF p, zero, p1, p2, p3
<1>7. Leads(c, m, p, <<Reference("pitch"), Reference("yaw"), Reference("slide")>>, p3)
  BY <1>2, <1>3, <1>4, LeadsByThree
<1>8. <<Reference("pitch"), Reference("yaw"), Reference("slide")>> \in Seq(Operations)
  BY <1>2
<1> QED
  BY <1>3, <1>5, <1>6, <1>7, <1>8, Zenon DEF p

LEMMA SetupLeads ==
  ASSUME NEW c \in Setups, NEW m \in Motors, NEW x \in Int
  PROVE  /\ handle_setup(c) \in Seq(Operations)
         /\ \E q \in Points : /\ Leads(c, m, Point(FALSE, TRUE, x, "off"), handle_setup(c), q)
                              /\ Ends(c, m, q)
<1> DEFINE p == Point(FALSE, TRUE, x, "off")
           set == Point(FALSE, FALSE, 0, "off")
           p1 == IF m = "pitch" THEN set ELSE p
           p2 == IF m = "yaw" THEN set ELSE p1
           p3 == IF m = "slide" THEN set ELSE p2
           en1 == Enable("pitch", c.en_motors["pitch"])
           en2 == Enable("yaw", c.en_motors["yaw"])
           en3 == Enable("slide", c.en_motors["slide"])
<1>1. en1 \in Operations /\ en2 \in Operations /\ en3 \in Operations
  BY DEF Enable, Operations, Motors
<1>2. /\ en1.op = "enable" /\ en1.m = "pitch" /\ en2.op = "enable" /\ en2.m = "yaw"
      /\ en3.op = "enable" /\ en3.m = "slide" /\ handle_setup(c) = <<en1, en2, en3>>
  BY DEF Enable, handle_setup
<1> HIDE DEF en1, en2, en3
<1>3. p \in Points /\ set \in Points /\ p3 = set
  BY DEF Point, Points, Motors
<1>4. /\ Allowed(c, en1, m, p) /\ After(en1, m, p) = p1
      /\ Allowed(c, en2, m, p1) /\ After(en2, m, p1) = p2
      /\ Allowed(c, en3, m, p2) /\ After(en3, m, p2) = p3
  BY <1>2 DEF Allowed, After, Point
<1>5. Ends(c, m, set)
  BY DEF Ends, Demanded, Point, Setups
<1> HIDE DEF p, set, p1, p2, p3
<1>6. Leads(c, m, p, <<en1, en2, en3>>, p3)
  BY <1>1, <1>3, <1>4, LeadsByThree
<1>7. <<en1, en2, en3>> \in Seq(Operations)
  BY <1>1
<1> QED
  BY <1>2, <1>3, <1>5, <1>6, <1>7 DEF p

\* Every routine, begun at rest with the laser off, ends where it should.
LEMMA RoutineLeads ==
  ASSUME NEW c \in Setups \cup Targets \cup Homings, NEW m \in Motors, NEW x \in Int
  PROVE  /\ Routine(c) \in Seq(Operations)
         /\ \E q \in Points : /\ Leads(c, m, Point(FALSE, TRUE, x, "off"), Routine(c), q)
                              /\ Ends(c, m, q)
<1>1. CASE c \in Setups
  <2>1. Routine(c) = handle_setup(c)
    BY <1>1 DEF Routine, Setups
  <2> QED
    BY <1>1, <2>1, SetupLeads
<1>2. CASE c \in Targets
  <2>1. Routine(c) = handle_target(c)
    BY <1>2 DEF Routine, Targets
  <2> QED
    BY <1>2, <2>1, ScanTargetLeads, StarTargetLeads
<1>3. CASE c \in Homings
  <2>1. /\ Routine(c) = handle_homing(c.type)
        /\ c.type \in {"HOMING", "SOFT_HOMING", "HARD_HOMING"}
    BY <1>3 DEF Routine, Homings
  <2>2. CASE c.type = "HARD_HOMING"
    <3>1. Routine(c) = hard_homing
      BY <2>1, <2>2 DEF handle_homing
    <3> QED
      BY <2>2, <3>1, HardHomingLeads
  <2> QED
    BY <2>1, <2>2, HomingLeads, SoftHomingLeads
<1> QED
  BY <1>1, <1>2, <1>3

-----------------------------------------------------------------------------
(* The invariant: it holds at first and every step keeps it. *)

LEMMA Starts == Init => IInv
<1> SUFFICES ASSUME Init PROVE IInv
  OBVIOUS
<1> USE DEF Init
<1>1. Typed
  <2>1. <<>> \in Seq(Operations)
    OBVIOUS
  <2> QED
    BY <2>1 DEF Typed
<1>2. ASSUME NEW m \in Motors PROVE OnItsWay(m) /\ Stroke(m) /\ motor[m].position = motor[m].goal
  <2> DEFINE p == Point(FALSE, TRUE, 0, "off")
  <2>1. p \in Points /\ p.laser = "off" /\ ~p.moves /\ p.known = TRUE /\ p.at = 0
    BY DEF Point, Points
  <2> HIDE DEF p
  <2>2. Fits(m, p) /\ Ends(active, m, p)
    BY <2>1 DEF Fits, Ends, Moving, Demanded, NoCommand
  <2>3. Leads(active, m, p, script, p)
    BY <2>1, LeadsNowhere
  <2> QED
    BY <2>1, <2>2, <2>3 DEF OnItsWay, Stroke, Moving
<1> QED
  BY <1>1, <1>2 DEF IInv

\* When nothing is left of the routine, its end is what the motor fits.
LEMMA AtTheEnd ==
  ASSUME IInv, script = <<>>, NEW m \in Motors
  PROVE  /\ ~Moving(m) /\ laser = "off"
         /\ Demanded(active, m) /\ motor[m].state # "DISABLED" =>
              motor[m].position = Place(active, m)
<1>1. PICK p \in Points, q \in Points :
        Fits(m, p) /\ Leads(active, m, p, script, q) /\ Ends(active, m, q)
  BY DEF IInv, OnItsWay
<1>2. p = q
  BY <1>1, LeadsNowhere
<1> QED
  BY <1>1, <1>2 DEF Fits, Ends, IInv

\* One operation is carried out: the rest of the script leads on.
LEMMA Onwards ==
  ASSUME NEW m \in Motors, NEW p \in Points, NEW q \in Points, NEW r \in Points,
         script \in Seq(Operations), script # <<>>, script' = Tail(script), active' = active,
         Leads(active, m, p, script, q), Ends(active, m, q),
         r = After(Head(script), m, p), Fits(m, r)'
  PROVE  OnItsWay(m)'
<1>1. Leads(active, m, r, Tail(script), q)
  BY LeadsOn
<1>2. Leads(active', m, r, script', q) /\ Ends(active', m, q)
  BY <1>1
<1> QED
  BY <1>2 DEF OnItsWay

MotorRecords == [state : {"DISABLED", "ENABLED", "MOVING"}, position : Int, goal : Int,
                 errand : {"none", "by", "to", "magnet"}]

\* An operation keeps the invariant if it keeps what is said of each motor.
LEMMA OperationKeeps ==
  ASSUME IInv, NEW ops, Do(ops),
         motor' \in [Motors -> MotorRecords], laser' \in {"off", "timed", "steady"},
         laser' = "timed" => Head(script).op = "flash" /\ motor' = motor,
         \A m \in Motors :
           motor'[m].state # "MOVING" => motor'[m].position = motor'[m].goal,
         \A m \in Motors : \A p \in Points, r \in Points :
           Fits(m, p) /\ Allowed(active, Head(script), m, p) /\ r = After(Head(script), m, p)
             => Fits(m, r)' /\ Stroke(m)'
  PROVE  IInv'
<1>1. /\ Typed /\ script # <<>> /\ script' = Tail(script) /\ system_state' = system_state
      /\ active' = active /\ system_state # "READY"
  BY DEF IInv, Do
<1>2. Head(script) \in Operations /\ script' \in Seq(Operations)
  BY <1>1 DEF Typed
<1>3. Typed'
  BY <1>1, <1>2 DEF Typed, MotorRecords
<1>4. ASSUME NEW m \in Motors
      PROVE  /\ OnItsWay(m)' /\ Stroke(m)'
             /\ laser' = "timed" => /\ active.type = "TARGET" /\ motor'[m].state # "MOVING"
                                    /\ motor'[m].state = "ENABLED" =>
                                         motor'[m].position = active.step_goals[m]
  <2>1. PICK p \in Points, q \in Points :
          Fits(m, p) /\ Leads(active, m, p, script, q) /\ Ends(active, m, q)
    BY DEF IInv, OnItsWay
  <2>2. Allowed(active, Head(script), m, p)
    BY <1>1, <2>1, LeadsOn DEF Typed
  <2>3. PICK r \in Points : r = After(Head(script), m, p)
    BY <1>2, AfterTyped
  <2>4. Fits(m, r)' /\ Stroke(m)'
    BY <2>1, <2>2, <2>3
  <2>5. OnItsWay(m)'
    BY <1>1, <2>1, <2>3, <2>4, Onwards DEF Typed
  <2>6. ASSUME laser' = "timed"
        PROVE  /\ active.type = "TARGET" /\ motor'[m].state # "MOVING"
               /\ motor'[m].state = "ENABLED" => motor'[m].position = active.step_goals[m]
    <3>1. active.type = "TARGET" /\ ~p.moves /\ p.known /\ p.at = active.step_goals[m]
      BY <2>2, <2>6 DEF Allowed
    <3> QED
      BY <2>1, <2>6, <3>1 DEF Fits, Moving
  <2> QED
    BY <2>4, <2>5, <2>6
<1>5. laser' = "timed" => active'.type = "TARGET" /\ FlashOnTarget'
  BY <1>1, <1>4 DEF FlashOnTarget, Moving, Motors
<1>6. \A m \in Motors : (~Moving(m))' => motor'[m].position = motor'[m].goal
  BY DEF Moving
<1> QED
  BY <1>1, <1>3, <1>4, <1>5, <1>6 DEF IInv

\* The timed laser is switched off before anything else is done.
LEMMA NotTimed ==
  ASSUME IInv, script # <<>>, Head(script).op # "off"
  PROVE  laser # "timed"
<1>1. "pitch" \in Motors /\ script \in Seq(Operations)
  BY DEF Motors, IInv, Typed
<1>2. PICK p \in Points, q \in Points :
        Fits("pitch", p) /\ Leads(active, "pitch", p, script, q)
  BY <1>1 DEF IInv, OnItsWay
<1>3. Allowed(active, Head(script), "pitch", p)
  BY <1>1, <1>2, LeadsOn
<1> QED
  BY <1>2, <1>3 DEF Allowed, Fits

LEMMA MoveKeeps ==
  ASSUME IInv, NEW kind \in {"by", "to", "magnet"}, Do({kind}),
         NEW target \in Int, MoveSavely(target),
         kind = "by" => target = motor[Head(script).m].position + Head(script).n,
         kind = "to" => target = Head(script).n
  PROVE  IInv'
<1> DEFINE o == Head(script)
           k == o.m
<1>1. /\ Typed /\ script # <<>> /\ o \in Operations /\ o.op = kind
      /\ active' = active /\ laser' = laser /\ laser # "timed"
  BY NotTimed DEF IInv, Typed, Do, MoveSavely
<1>2. k \in Motors /\ o.n \in Int
  BY <1>1 DEF Operations
<1>3. motor \in [Motors -> MotorRecords] /\ laser \in {"off", "timed", "steady"}
  BY <1>1 DEF Typed, MotorRecords
<1>4. motor[k].state # "MOVING" /\ motor[k].position = motor[k].goal
  BY <1>2 DEF IInv, Moving, MoveSavely
<1> DEFINE new == [state |-> IF target = motor[k].position THEN "ENABLED" ELSE "MOVING",
                   position |-> motor[k].position, goal |-> target, errand |-> o.op]
<1>5. motor' = IF motor[k].state = "DISABLED" THEN motor ELSE [motor EXCEPT ![k] = new]
  BY DEF MoveSavely
<1>6. new \in MotorRecords
  BY <1>1, <1>2, <1>3 DEF MotorRecords
<1>7. /\ motor' \in [Motors -> MotorRecords]
      /\ \A m \in Motors : m # k \/ motor[k].state = "DISABLED" => motor'[m] = motor[m]
      /\ motor[k].state # "DISABLED" => motor'[k] = new
  BY <1>2, <1>3, <1>5, <1>6
<1>8. /\ new.position = motor[k].position /\ new.goal = target /\ new.errand = kind
      /\ new.state \in {"ENABLED", "MOVING"}
      /\ new.state # "MOVING" => target = motor[k].position
  BY <1>1
<1> HIDE DEF o, k, new
<1>9. \A m \in Motors : motor'[m].state # "MOVING" => motor'[m].position = motor'[m].goal
  BY <1>7, <1>8 DEF IInv, Moving
<1>10. ASSUME NEW m \in Motors, NEW p \in Points, NEW r \in Points, Fits(m, p),
              Allowed(active, o, m, p), r = After(o, m, p)
       PROVE  Fits(m, r)' /\ Stroke(m)'
  <2>1. CASE m # k
    <3>1. r = p /\ motor'[m] = motor[m]
      BY <1>1, <1>7, <1>10, <2>1 DEF After, k
    <3> QED
      BY <1>1, <1>10, <3>1 DEF Fits, Stroke, Moving, IInv
  <2>2. CASE m = k /\ motor[k].state = "DISABLED"
    <3>1. r.laser = p.laser /\ motor'[m] = motor[m] /\ ~Moving(m)
      BY <1>1, <1>2, <1>7, <1>10, <2>2 DEF After, Point, Moving
    <3> QED
      BY <1>1, <1>10, <2>2, <3>1 DEF Fits, Stroke, Moving
  <2>3. CASE m = k /\ motor[k].state # "DISABLED"
    <3>1. motor'[m] = new
      BY <1>7, <2>3
    <3>2. /\ r.moves /\ r.laser = p.laser
          /\ kind = "by" => r.known = p.known /\ r.at = p.at + o.n
          /\ kind = "to" => r.at = o.n
          /\ kind = "magnet" => ~r.known
      BY <1>1, <1>10, <2>3 DEF After, Point, k
    <3>3. r.known => target = r.at
      BY <1>4, <1>10, <2>3, <3>2 DEF Fits, o, k
    <3>4. Fits(m, r)'
      BY <1>1, <1>8, <1>10, <3>1, <3>2, <3>3 DEF Fits
    <3>5. ASSUME active.type = "TARGET", kind = "by"
          PROVE  motor[k].position \in Room(active, m) /\ target \in Room(active, m)
      <4>1. p.known /\ p.at \in Room(active, m) /\ p.at + o.n \in Room(active, m)
        BY <1>1, <1>10, <2>3, <3>5 DEF Allowed, k
      <4> QED
        BY <1>4, <1>10, <2>3, <3>2, <3>3, <3>5, <4>1 DEF Fits
    <3>6. Stroke(m)'
      BY <1>1, <1>8, <3>1, <3>5 DEF Stroke, Room, ShortOf
    <3> QED
      BY <3>4, <3>6
  <2> QED
    BY <2>1, <2>2, <2>3
<1> QED
  BY <1>1, <1>3, <1>7, <1>9, <1>10, OperationKeeps DEF o

LEMMA WaitKeeps == IInv /\ DoWait => IInv'
<1> SUFFICES ASSUME IInv, DoWait PROVE IInv'
  OBVIOUS
<1> DEFINE o == Head(script)
<1>1. /\ Do({"wait"}) /\ o.op = "wait" /\ motor[o.m].state # "MOVING" /\ motor' = motor
      /\ laser' = laser /\ laser # "timed" /\ active' = active /\ Typed
  BY NotTimed DEF DoWait, Do, IInv
<1>2. motor' \in [Motors -> MotorRecords] /\ laser' \in {"off", "timed", "steady"}
  BY <1>1 DEF Typed, MotorRecords
<1>3. \A m \in Motors : motor'[m].state # "MOVING" => motor'[m].position = motor'[m].goal
  BY <1>1 DEF IInv, Moving
<1> HIDE DEF o
<1>4. ASSUME NEW m \in Motors, NEW p \in Points, NEW r \in Points, Fits(m, p),
             Allowed(active, o, m, p), r = After(o, m, p)
      PROVE  Fits(m, r)' /\ Stroke(m)'
  <2>1. /\ r.laser = p.laser /\ r.known = p.known /\ r.at = p.at
        /\ o.m # m => r.moves = p.moves
    BY <1>1, <1>4 DEF After, Point
  <2>2. Fits(m, r)'
    BY <1>1, <1>4, <2>1 DEF Fits, Moving
  <2>3. Stroke(m)'
    BY <1>1 DEF IInv, Stroke, Moving
  <2> QED
    BY <2>2, <2>3
<1> QED
  BY <1>1, <1>2, <1>3, <1>4, OperationKeeps DEF o

LEMMA ReferenceKeeps == IInv /\ DoReference => IInv'
<1> SUFFICES ASSUME IInv, DoReference PROVE IInv'
  OBVIOUS
<1> DEFINE o == Head(script)
           k == o.m
<1>1. /\ Do({"reference"}) /\ o.op = "reference" /\ o \in Operations /\ laser' = laser
      /\ laser # "timed" /\ active' = active /\ Typed
  BY NotTimed DEF DoReference, Do, IInv, Typed
<1>2. motor \in [Motors -> MotorRecords] /\ laser' \in {"off", "timed", "steady"} /\ k \in Motors
  BY <1>1 DEF Typed, MotorRecords, Operations
<1>3. motor' = [motor EXCEPT ![k].position = 0, ![k].goal = 0]
  BY DEF DoReference
<1>4. /\ motor' \in [Motors -> MotorRecords]
      /\ motor'[k].position = 0 /\ motor'[k].goal = 0 /\ motor'[k].state = motor[k].state
      /\ \A m \in Motors : m # k => motor'[m] = motor[m]
  BY <1>2, <1>3 DEF MotorRecords
<1> HIDE DEF o, k
<1>5. \A m \in Motors : motor'[m].state # "MOVING" => motor'[m].position = motor'[m].goal
  BY <1>4 DEF IInv, Moving
<1>6. ASSUME NEW m \in Motors, NEW p \in Points, NEW r \in Points, Fits(m, p),
             Allowed(active, o, m, p), r = After(o, m, p)
      PROVE  Fits(m, r)' /\ Stroke(m)'
  <2>1. CASE m # k
    <3>1. r = p /\ motor'[m] = motor[m]
      BY <1>1, <1>4, <1>6, <2>1 DEF After, k
    <3> QED
      BY <1>1, <1>6, <3>1 DEF Fits, Stroke, Moving, IInv
  <2>2. CASE m = k
    <3>1. ~p.moves /\ r.laser = p.laser /\ r.at = 0 /\ r.moves = p.moves
      BY <1>1, <1>6, <2>2 DEF After, Point, Allowed, k
    <3>2. ~Moving(m) /\ ~Moving(m)'
      BY <1>4, <1>6, <2>2, <3>1 DEF Fits, Moving
    <3> QED
      BY <1>1, <1>4, <1>6, <2>2, <3>1, <3>2 DEF Fits, Stroke
  <2> QED
    BY <2>1, <2>2
<1> QED
  BY <1>1, <1>2, <1>4, <1>5, <1>6, OperationKeeps DEF o

\* Neither reference nor configuration of a moving motor are touched.
LEMMA StillBefore ==
  ASSUME IInv, script # <<>>, Head(script).op \in {"reference", "enable"}
  PROVE  Head(script).m \in Motors /\ ~Moving(Head(script).m)
<1> DEFINE o == Head(script)
<1>1. script \in Seq(Operations) /\ o \in Operations
  BY DEF IInv, Typed
<1>2. o.m \in Motors
  BY <1>1 DEF Operations
<1>3. PICK p \in Points, q \in Points : Fits(o.m, p) /\ Leads(active, o.m, p, script, q)
  BY <1>2 DEF IInv, OnItsWay
<1>4. Allowed(active, o, o.m, p)
  BY <1>1, <1>3, LeadsOn
<1> QED
  BY <1>2, <1>3, <1>4 DEF Allowed, Fits

LEMMA EnableKeeps == IInv /\ DoEnable => IInv'
<1> SUFFICES ASSUME IInv, DoEnable PROVE IInv'
  OBVIOUS
<1> DEFINE o == Head(script)
           k == o.m
           new == IF o.n = 1 THEN "ENABLED" ELSE "DISABLED"
<1>1. /\ Do({"enable"}) /\ o.op = "enable" /\ o \in Operations /\ laser' = laser
      /\ laser # "timed" /\ active' = active /\ Typed
  BY NotTimed DEF DoEnable, Do, IInv, Typed
<1>2. motor \in [Motors -> MotorRecords] /\ laser' \in {"off", "timed", "steady"} /\ k \in Motors
  BY <1>1 DEF Typed, MotorRecords, Operations
<1>3. motor' = [motor EXCEPT ![k].state = new] /\ new \in {"ENABLED", "DISABLED"}
  BY DEF DoEnable
<1> HIDE DEF new
<1>4. /\ motor' \in [Motors -> MotorRecords]
      /\ motor'[k].position = motor[k].position /\ motor'[k].goal = motor[k].goal
      /\ motor'[k].state # "MOVING"
      /\ \A m \in Motors : m # k => motor'[m] = motor[m]
  BY <1>2, <1>3 DEF MotorRecords
<1> HIDE DEF o, k
<1>5. ASSUME NEW m \in Motors, NEW p \in Points, NEW r \in Points, Fits(m, p),
             Allowed(active, o, m, p), r = After(o, m, p)
      PROVE  Fits(m, r)' /\ Stroke(m)'
  <2>1. CASE m # k
    <3>1. r = p /\ motor'[m] = motor[m]
      BY <1>1, <1>4, <1>5, <2>1 DEF After, k
    <3> QED
      BY <1>1, <1>5, <3>1 DEF Fits, Stroke, Moving, IInv
  <2>2. CASE m = k
    <3>1. r.laser = p.laser /\ r.known = FALSE
      BY <1>1, <1>5, <2>2 DEF After, Point, k
    <3> QED
      BY <1>1, <1>4, <1>5, <2>2, <3>1 DEF Fits, Stroke, Moving
  <2> QED
    BY <2>1, <2>2
<1>7. ~Moving(k)
  BY <1>1, StillBefore DEF Do, o, k
<1>8. \A m \in Motors : motor'[m].state # "MOVING" => motor'[m].position = motor'[m].goal
  BY <1>4, <1>7 DEF IInv, Moving
<1> QED
  BY <1>1, <1>2, <1>4, <1>5, <1>8, OperationKeeps DEF o

LEMMA LaserKeeps == IInv /\ DoLaser => IInv'
<1> SUFFICES ASSUME IInv, DoLaser PROVE IInv'
  OBVIOUS
<1> DEFINE o == Head(script)
<1>1. /\ Do({"steady", "flash", "off"}) /\ o.op \in {"steady", "flash", "off"}
      /\ motor' = motor /\ active' = active /\ Typed
      /\ laser' = CASE o.op = "steady" -> "steady" [] o.op = "flash" -> "timed" [] OTHER -> "off"
  BY DEF DoLaser, Do, IInv
<1>2. /\ motor' \in [Motors -> MotorRecords] /\ laser' \in {"off", "timed", "steady"}
      /\ laser' = "timed" => o.op = "flash"
  BY <1>1 DEF Typed, MotorRecords
<1>3. \A m \in Motors : motor'[m].state # "MOVING" => motor'[m].position = motor'[m].goal
  BY <1>1 DEF IInv, Moving
<1> HIDE DEF o
<1>4. ASSUME NEW m \in Motors, NEW p \in Points, NEW r \in Points, Fits(m, p),
             Allowed(active, o, m, p), r = After(o, m, p)
      PROVE  Fits(m, r)' /\ Stroke(m)'
  <2>1. r.laser = laser' /\ r.known = p.known /\ r.at = p.at /\ r.moves = p.moves
    BY <1>1, <1>4 DEF After, Point
  <2>2. Fits(m, r)'
    BY <1>1, <1>4, <2>1 DEF Fits, Moving
  <2>3. Stroke(m)'
    BY <1>1 DEF IInv, Stroke, Moving
  <2> QED
    BY <2>2, <2>3
<1> QED
  BY <1>1, <1>2, <1>3, <1>4, OperationKeeps DEF o

LEMMA BeginKeeps ==
  ASSUME IInv, NEW c \in Setups \cup Targets \cup Homings, Begin(c)
  PROVE  IInv'
<1>1. /\ system_state = "READY" /\ script = <<>> /\ Typed
      /\ active' = c /\ script' = Routine(c) /\ motor' = motor /\ laser' = laser
  BY DEF Begin, IInv
<1>2. system_state' \in {"CONFIGURING", "MOVING", "CALIBRATING"}
  BY DEF Begin, StateOf
<1>3. "pitch" \in Motors
  BY DEF Motors
<1>4. laser = "off"
  BY <1>1, <1>3, AtTheEnd
<1>5. Routine(c) \in Seq(Operations)
  <2>1. motor["pitch"].goal \in Int
    BY <1>1, <1>3 DEF Typed
  <2>2. /\ Routine(c) \in Seq(Operations)
        /\ \E q \in Points :
             /\ Leads(c, "pitch", Point(FALSE, TRUE, motor["pitch"].goal, "off"), Routine(c), q)
             /\ Ends(c, "pitch", q)
    BY <1>3, <2>1, RoutineLeads
  <2> QED
    BY <2>2
<1>6. Typed'
  BY <1>1, <1>2, <1>5 DEF Typed
<1>7. ASSUME NEW m \in Motors
      PROVE  /\ OnItsWay(m)' /\ Stroke(m)'
             /\ motor'[m].position = motor'[m].goal
  <2>1. ~Moving(m) /\ motor[m].position = motor[m].goal /\ motor[m].goal \in Int
    BY <1>1, AtTheEnd DEF IInv, Typed
  <2> DEFINE p == Point(FALSE, TRUE, motor[m].goal, "off")
  <2>2. PICK q \in Points :
          Leads(c, m, Point(FALSE, TRUE, motor[m].goal, "off"), Routine(c), q) /\ Ends(c, m, q)
    BY <2>1, RoutineLeads
  <2>3. PICK r \in Points : r = Point(FALSE, TRUE, motor[m].goal, "off")
    BY <2>1, Fields
  <2>4. r.laser = "off" /\ r.at = motor[m].goal
    BY <2>3 DEF Point
  <2>5. Fits(m, r)'
    BY <1>1, <1>4, <2>1, <2>4 DEF Fits, Moving
  <2>6. Leads(active', m, r, script', q) /\ Ends(active', m, q)
    BY <1>1, <2>2, <2>3
  <2>7. OnItsWay(m)'
    BY <2>5, <2>6 DEF OnItsWay
  <2> QED
    BY <1>1, <2>1, <2>7 DEF Stroke, Moving
<1> QED
  BY <1>1, <1>2, <1>4, <1>6, <1>7 DEF IInv

LEMMA MotorStepKeeps ==
  ASSUME IInv, NEW k \in Motors, MotorStep(k)
  PROVE  IInv'
<1> DEFINE rec == motor[k]
           new == IF rec.position < rec.goal THEN rec.position + 1 ELSE rec.position - 1
<1>1. /\ Typed /\ rec.state = "MOVING" /\ motor \in [Motors -> MotorRecords]
      /\ system_state' = system_state /\ active' = active /\ script' = script /\ laser' = laser
  BY DEF MotorStep, IInv, Typed, MotorRecords
<1>2. motor' = IF rec.position = rec.goal THEN [motor EXCEPT ![k].state = "ENABLED"]
               ELSE [motor EXCEPT ![k].position = new]
  BY DEF MotorStep
<1>3. new \in Int /\ rec.position \in Int /\ rec.goal \in Int
  BY <1>1 DEF MotorRecords
<1> HIDE DEF new
<1>4. /\ motor' \in [Motors -> MotorRecords]
      /\ \A m \in Motors : m # k => motor'[m] = motor[m]
      /\ motor'[k].goal = rec.goal /\ motor'[k].errand = rec.errand
      /\ IF rec.position = rec.goal
         THEN motor'[k].position = rec.position /\ motor'[k].state = "ENABLED"
         ELSE motor'[k].position = new /\ motor'[k].state = rec.state
  BY <1>1, <1>2, <1>3 DEF MotorRecords
<1>5. Typed'
  BY <1>1, <1>4 DEF Typed, MotorRecords
<1>6. laser # "timed"
  BY <1>1 DEF IInv, FlashOnTarget, Moving, Motors
<1>7. ASSUME NEW m \in Motors
      PROVE  /\ OnItsWay(m)' /\ Stroke(m)'
             /\ (~Moving(m))' => motor'[m].position = motor'[m].goal
  <2>1. PICK p \in Points, q \in Points :
          Fits(m, p) /\ Leads(active, m, p, script, q) /\ Ends(active, m, q)
    BY DEF IInv, OnItsWay
  <2>2. CASE m # k
    <3>1. motor'[m] = motor[m]
      BY <1>4, <2>2
    <3>2. Fits(m, p)'
      BY <1>1, <2>1, <3>1 DEF Fits, Moving
    <3> QED
      BY <1>1, <2>1, <3>1, <3>2 DEF IInv, Stroke, Moving, OnItsWay
  <2>3. CASE m = k
    <3>1. Fits(m, p)'
      BY <1>1, <1>4, <2>1, <2>3 DEF Fits, Moving
    <3>2. OnItsWay(m)'
      BY <1>1, <2>1, <3>1 DEF OnItsWay
    <3>3. ASSUME active.type = "TARGET", rec.errand = "by"
          PROVE  motor'[k].position \in Room(active, m) /\ rec.goal \in Room(active, m)
      <4>1. rec.position \in Room(active, m) /\ rec.goal \in Room(active, m)
        BY <1>1, <2>3, <3>3 DEF IInv, Stroke, Moving
      <4>2. active \in Targets
        BY <1>1, <3>3 DEF Typed, Setups, Homings, NoCommand
      <4>3. PICK low \in Int, high \in Int : Room(active, m) = low .. high
        <5>1. /\ active.step_goals[m] \in Int /\ active.star \in Nat /\ active.scan \in Nat
              /\ active.star \div 2 \in Int /\ ShortOf(active.star) \in Int
          BY <4>2, TargetFields, Halves
        <5> DEFINE half == active.star \div 2
                   low == active.step_goals[m]
                          + (IF active.star = 0 THEN -active.scan
                             ELSE half - active.star - 2 * ShortOf(active.star))
                   high == active.step_goals[m]
                           + (IF active.star = 0 THEN active.scan ELSE half)
        <5>2. low \in Int /\ high \in Int
          BY <5>1
        <5>3. Room(active, m) = low .. high
          BY DEF Room
        <5> HIDE DEF low, high
        <5> QED
          BY <5>2, <5>3
      <4> QED
        BY <1>3, <1>4, <4>1, <4>3 DEF new
    <3>4. Stroke(m)'
      BY <1>1, <1>4, <2>3, <3>3 DEF Stroke, Moving
    <3> QED
      BY <1>1, <1>4, <2>3, <3>2, <3>4 DEF Moving
  <2> QED
    BY <2>2, <2>3
<1> QED
  BY <1>1, <1>5, <1>6, <1>7 DEF IInv

LEMMA Keeps == IInv /\ [Next]_vars => IInv'
<1> SUFFICES ASSUME IInv, [Next]_vars PROVE IInv'
  OBVIOUS
<1>1. ASSUME DoMove PROVE IInv'
  <2>1. script # <<>> => /\ Head(script).m \in Motors /\ Head(script).n \in Int
                         /\ motor[Head(script).m].position \in Int
    <3>1. script # <<>> => Head(script) \in Operations
      BY DEF IInv, Typed
    <3> QED
      BY <3>1 DEF IInv, Typed, Operations
  <2>2. CASE Do({"by"}) /\ MoveSavely(motor[Head(script).m].position + Head(script).n)
    <3>1. motor[Head(script).m].position + Head(script).n \in Int
      BY <2>1, <2>2 DEF Do
    <3> QED
      BY <2>2, <3>1, MoveKeeps
  <2>3. CASE Do({"to"}) /\ MoveSavely(Head(script).n)
    <3>1. Head(script).n \in Int
      BY <2>1, <2>3 DEF Do
    <3> QED
      BY <2>3, <3>1, MoveKeeps
  <2>4. CASE Do({"magnet"}) /\ \E home \in HomeGoals : MoveSavely(home)
    <3>1. PICK home \in HomeGoals : MoveSavely(home)
      BY <2>4
    <3>2. home \in Int
      BY HomeAssumption
    <3> QED
      BY <2>4, <3>1, <3>2, MoveKeeps
  <2> QED
    BY <1>1, <2>2, <2>3, <2>4 DEF DoMove
<1>2. ASSUME End PROVE IInv'
  <2>1. /\ script' = script /\ script = <<>> /\ active' = active /\ motor' = motor
        /\ laser' = laser /\ system_state' = "READY"
    BY <1>2 DEF End
  <2> QED
    BY <2>1 DEF IInv, Typed, FlashOnTarget, Moving, OnItsWay, Stroke, Fits
<1>3. ASSUME UNCHANGED vars PROVE IInv'
  BY <1>3 DEF vars, IInv, Typed, FlashOnTarget, Moving, OnItsWay, Stroke, Fits
<1> QED
  BY <1>1, <1>2, <1>3, WaitKeeps, ReferenceKeeps, EnableKeeps, LaserKeeps, BeginKeeps,
     MotorStepKeeps DEF Next, CommandThread

LEMMA Always == Spec => []IInv
  BY Starts, Keeps, PTL DEF Spec

-----------------------------------------------------------------------------
(* The theorems. *)

\* Only a motor at rest is moved, referenced or configured; one that moves
\* goes on as its contract says.
LEMMA StepsWithinContract ==
  ASSUME IInv, IInv', [Next]_vars, NEW m \in Motors
  PROVE  /\ Moving(m) => UNCHANGED motor[m] \/ Contract(m)!Step \/ Contract(m)!Finish
         /\ [Contract(m)!Next]_(Contract(m)!vars)
<1> DEFINE rec == motor[m]
           new == motor'[m]
<1>1. rec \in MotorRecords /\ new \in MotorRecords
  BY DEF IInv, Typed, MotorRecords
<1>2. ASSUME NEW k \in Motors, MotorStep(k)
      PROVE  UNCHANGED motor[m] \/ Contract(m)!Step \/ Contract(m)!Finish
  <2>1. CASE m # k
    BY <1>2, <2>1 DEF MotorStep, IInv, Typed
  <2>2. CASE m = k
    BY <1>2, <2>2 DEF MotorStep, IInv, Typed, Contract!Step, Contract!Finish
  <2> QED
    BY <2>1, <2>2
<1>3. ASSUME NEW kind \in {"by", "to", "magnet"}, Do({kind}), NEW target \in Int,
             MoveSavely(target)
      PROVE  \/ UNCHANGED motor[m]
             \/ ~Moving(m) /\ [Contract(m)!Begin(target)]_(Contract(m)!vars)
  <2>1. Head(script).m \in Motors /\ Head(script).op \in {"by", "to", "magnet"}
    <3>1. Head(script) \in Operations /\ Head(script).op = kind
      BY <1>3 DEF Do, IInv, Typed
    <3> QED
      BY <3>1 DEF Operations
  <2>2. motor \in [Motors -> MotorRecords]
    BY DEF IInv, Typed, MotorRecords
  <2>3. CASE m # Head(script).m
    <3> DEFINE k == Head(script).m
    <3>1. PICK changed : motor' = motor \/ motor' = [motor EXCEPT ![k] = changed]
      BY <1>3 DEF MoveSavely
    <3> HIDE DEF k
    <3>2. motor'[m] = motor[m]
      BY <2>2, <2>3, <3>1 DEF k
    <3> QED
      BY <3>2
  <2>4. CASE m = Head(script).m
    <3>1. rec.state # "MOVING" /\ rec.position = rec.goal /\ (rec.state = "DISABLED" => motor' = motor)
      BY <1>3, <2>4 DEF MoveSavely, IInv, Moving
    <3>2. rec.state # "DISABLED" =>
            /\ new.state = (IF target = rec.position THEN "ENABLED" ELSE "MOVING")
            /\ new.position = rec.position /\ new.goal = target
      BY <1>3, <2>2, <2>4 DEF MoveSavely
    <3> QED
      BY <1>1, <3>1, <3>2 DEF Contract!Begin, Contract!vars, Moving, MotorRecords
  <2> QED
    BY <2>3, <2>4
<1>4. ASSUME DoMove
      PROVE  \/ UNCHANGED motor[m]
             \/ ~Moving(m) /\ [\E target \in Int : Contract(m)!Begin(target)]_(Contract(m)!vars)
  <2>1. script # <<>> => /\ Head(script).m \in Motors /\ Head(script).n \in Int
                         /\ motor[Head(script).m].position \in Int
    <3>1. script # <<>> => Head(script) \in Operations
      BY DEF IInv, Typed
    <3> QED
      BY <3>1 DEF IInv, Typed, Operations
  <2>2. PICK kind \in {"by", "to", "magnet"}, target \in Int : Do({kind}) /\ MoveSavely(target)
    BY <1>4, <2>1, HomeAssumption DEF DoMove, Do
  <2> QED
    BY <1>3, <2>2
<1>5. ASSUME DoReference
      PROVE  \/ UNCHANGED motor[m]
             \/ ~Moving(m) /\ Contract(m)!SetReference(0)
  <2>1. Head(script).m \in Motors /\ ~Moving(Head(script).m)
    BY <1>5, StillBefore DEF DoReference, Do
  <2>2. motor \in [Motors -> MotorRecords]
    BY DEF IInv, Typed, MotorRecords
  <2>3. CASE m # Head(script).m
    <3>1. motor'[m] = motor[m]
      BY <1>5, <2>2, <2>3 DEF DoReference
    <3> QED
      BY <3>1
  <2>4. CASE m = Head(script).m
    <3>1. new.position = 0 /\ new.goal = 0 /\ new.state = rec.state
      BY <1>5, <2>2, <2>4 DEF DoReference, MotorRecords
    <3> QED
      BY <2>1, <2>4, <3>1 DEF Contract!SetReference, Moving
  <2> QED
    BY <2>3, <2>4
<1>6. ASSUME DoEnable
      PROVE  \/ UNCHANGED motor[m]
             \/ ~Moving(m) /\ \E to \in {"DISABLED", "ENABLED"} : Contract(m)!Configure(to)
  <2>1. Head(script).m \in Motors /\ ~Moving(Head(script).m)
    BY <1>6, StillBefore DEF DoEnable, Do
  <2>2. motor \in [Motors -> MotorRecords]
    BY DEF IInv, Typed, MotorRecords
  <2>3. CASE m # Head(script).m
    <3>1. motor'[m] = motor[m]
      BY <1>6, <2>2, <2>3 DEF DoEnable
    <3> QED
      BY <3>1
  <2>4. CASE m = Head(script).m
    <3>1. /\ new.position = rec.position /\ new.goal = rec.goal
          /\ new.state \in {"DISABLED", "ENABLED"}
      BY <1>6, <2>2, <2>4 DEF DoEnable, MotorRecords
    <3> QED
      BY <2>1, <2>4, <3>1 DEF Contract!Configure, Moving
  <2> QED
    BY <2>3, <2>4
<1>7. ASSUME DoWait \/ DoLaser \/ End \/ UNCHANGED vars \/ \E c : Begin(c)
      PROVE  UNCHANGED motor[m]
  BY <1>7 DEF DoWait, DoLaser, End, vars, Begin
<1>8. UNCHANGED motor[m] => UNCHANGED Contract(m)!vars
  BY DEF Contract!vars
<1>9. \/ UNCHANGED motor[m]
      \/ Contract(m)!Step \/ Contract(m)!Finish
      \/ ~Moving(m) /\ [Contract(m)!Next]_(Contract(m)!vars)
  <2>1. CASE \E k \in Motors : MotorStep(k)
    <3>1. PICK k \in Motors : MotorStep(k)
      BY <2>1
    <3> QED
      BY <1>2, <3>1
  <2>2. CASE DoMove
    BY <1>4, <2>2 DEF Contract!Next
  <2>3. CASE DoReference
    BY <1>5, <2>3 DEF Contract!Next
  <2>4. CASE DoEnable
    BY <1>6, <2>4 DEF Contract!Next
  <2> QED
    BY <1>7, <2>1, <2>2, <2>3, <2>4 DEF Next, CommandThread
<1> QED
  BY <1>8, <1>9 DEF Contract!Next, Contract!Progress

\* The routines of handle_setup, handle_target and handle_homing keep the
\* types of everything they change.
THEOREM TypeCorrect == Spec => []TypeOK
<1>1. IInv => TypeOK
  BY DEF IInv, Typed, TypeOK
<1> QED
  BY <1>1, Always, PTL

\* handle_setup, handle_target and handle_homing announce READY only when all
\* the motors stand still and the laser is off.
THEOREM ReadyIsStill == Spec => []ReadyMeansStill
<1>1. IInv => ReadyMeansStill
  <2> SUFFICES ASSUME IInv, system_state = "READY", NEW m \in Motors
               PROVE  laser = "off" /\ ~Moving(m)
    BY DEF ReadyMeansStill, Motors
  <2>1. script = <<>>
    BY DEF IInv
  <2> QED
    BY <2>1, AtTheEnd
<1> QED
  BY <1>1, Always, PTL

\* activate_led_for_ms_blocking: the timed laser is on only while every enabled
\* motor rests on the goal of the target, however the scan before it went.
THEOREM TimedLaserOnTarget == Spec => []FlashOnTarget
<1>1. IInv => FlashOnTarget
  BY DEF IInv, FlashOnTarget
<1> QED
  BY <1>1, Always, PTL

\* When a routine is over every enabled motor is where its command says, a
\* star with an odd diameter short of it by what its halves round off.
THEOREM RoutineArrives == Spec => []RestsWhereCommanded
<1>1. IInv => RestsWhereCommanded
  <2> SUFFICES ASSUME IInv, system_state = "READY", NEW m \in Motors,
                      motor[m].state = "ENABLED"
               PROVE  motor[m].position = RestingPlace(m)
    BY DEF RestsWhereCommanded
  <2>1. script = <<>> /\ active \in Setups \cup Targets \cup Homings \cup {NoCommand}
    BY DEF IInv, Typed
  <2>2. Demanded(active, m) => motor[m].position = Place(active, m)
    BY <2>1, AtTheEnd
  <2>3. CASE Demanded(active, m)
    <3>1. RestingPlace(m) = Place(active, m)
      BY <2>3 DEF Demanded, RestingPlace, Place, NoCommand
    <3> QED
      BY <2>2, <2>3, <3>1
  <2>4. CASE ~Demanded(active, m)
    <3>1. \/ active.type = "SETUP" \/ active = NoCommand
          \/ active.type = "HARD_HOMING" /\ m = "slide"
      BY <2>1, <2>4 DEF Demanded, Setups, Targets, Homings
    <3>2. active.type # "TARGET"
      BY <2>4 DEF Demanded
    <3> QED
      BY <3>1, <3>2 DEF RestingPlace
  <2> QED
    BY <2>3, <2>4
<1> QED
  BY <1>1, Always, PTL

\* scan_pattern and star_pattern: a stroke never leaves the surroundings of the
\* goal of its motor, moving to the goal or not when the pattern began.
THEOREM PatternStays == Spec => []PatternAroundGoal
<1>1. IInv => PatternAroundGoal
  <2> SUFFICES ASSUME IInv, NEW m \in Motors, active.type = "TARGET", Moving(m),
                      motor[m].errand = "by"
               PROVE  LET half == active.star \div 2
                          off == motor[m].position - active.step_goals[m]
                      IN IF active.star = 0
                         THEN off \in -active.scan .. active.scan
                         ELSE off \in half - active.star - 2 * ShortOf(active.star) .. half
    BY DEF PatternAroundGoal
  <2>1. active \in Targets
    BY DEF IInv, Typed, Setups, Homings, NoCommand
  <2>2. /\ active.step_goals[m] \in Int /\ active.star \in Nat /\ active.scan \in Nat
        /\ active.star \div 2 \in Int /\ ShortOf(active.star) \in Int
    BY <2>1, TargetFields, Halves
  <2>3. motor[m].position \in Room(active, m) /\ motor[m].position \in Int
    BY DEF IInv, Stroke, Typed
  <2> QED
    BY <2>2, <2>3 DEF Room
<1> QED
  BY <1>1, Always, PTL

\* move_savely_by, move_savely_to, stepper_set_reference_position and
\* handle_setup: nothing is asked of a motor that moves.
THEOREM CallsWait == Spec => NoCallWhileMoving
<1>1. IInv /\ IInv' /\ [Next]_vars =>
        [\A m \in Motors :
           Moving(m) =>
             UNCHANGED motor[m] \/ Contract(m)!Step \/ Contract(m)!Finish]_vars
  BY StepsWithinContract
<1> QED
  BY <1>1, Always, PTL DEF Spec, NoCallWhileMoving

\* Seen by one motor, the routines are a client that keeps to MotorContract:
\* every step of the program is a step of the contract or passes the motor by.
THEOREM WithinContract ==
  ASSUME NEW m \in Motors
  PROVE  Spec => Contract(m)!Init /\ [][Contract(m)!Next]_(Contract(m)!vars)
<1>1. Init => Contract(m)!Init
  BY DEF Init, Contract!Init
<1>2. IInv /\ IInv' /\ [Next]_vars => [Contract(m)!Next]_(Contract(m)!vars)
  BY StepsWithinContract
<1> QED
  BY <1>1, <1>2, Always, PTL DEF Spec
=============================================================================
