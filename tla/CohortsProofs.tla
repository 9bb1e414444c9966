----------------------------- MODULE CohortsProofs -----------------------------
(***************************************************************************)
(* The cohorts that every rank computes on its own partition a communicator *)
(* of any size, for any separation, after any recoveries.                   *)
(***************************************************************************)
EXTENDS Cohorts, OrderedSets

-----------------------------------------------------------------------------
(* Quotients *)

LEMMA Division ==
  ASSUME NEW a \in Nat, NEW b \in Nat, b > 0
  PROVE  /\ a \div b \in Nat /\ a % b \in 0 .. b - 1
         /\ a = b * (a \div b) + (a % b)
<1>1. a \div b \in Nat
  OBVIOUS
<1>2. a % b \in 0 .. b - 1
  OBVIOUS
<1>3. a = b * (a \div b) + (a % b)
  BY SMT
<1>4. QED
  BY <1>1, <1>2, <1>3

LEMMA Products ==
  ASSUME NEW b \in Nat, NEW q \in Nat, NEW p \in Nat
  PROVE  /\ b * q \in Nat /\ b * (q + 1) = b * q + b /\ b * 0 = 0 /\ b * 2 = b + b
         /\ q <= p => b * q <= b * p
OBVIOUS

LEMMA QuotientIs ==
  ASSUME NEW a \in Nat, NEW b \in Nat, b > 0, NEW q \in Nat, NEW m \in 0 .. b - 1, a = b * q + m
  PROVE  a \div b = q /\ a % b = m
<1>1. PICK p \in Nat, n \in 0 .. b - 1 : p = a \div b /\ n = a % b /\ a = b * p + n
  BY Division
<1>2. CASE p < q
  <2>1. b * (p + 1) <= b * q /\ b * (p + 1) = b * p + b
    BY <1>2, Products
  <2>2. b * p \in Nat /\ b * q \in Nat
    BY Products
  <2>3. QED
    BY <1>1, <2>1, <2>2
<1>3. CASE q < p
  <2>1. b * (q + 1) <= b * p /\ b * (q + 1) = b * q + b
    BY <1>3, Products
  <2>2. b * p \in Nat /\ b * q \in Nat
    BY Products
  <2>3. QED
    BY <1>1, <2>1, <2>2
<1>4. CASE p = q
  <2>1. b * q \in Nat
    BY Products
  <2>2. QED
    BY <1>1, <1>4, <2>1
<1>5. QED
  BY <1>2, <1>3, <1>4

LEMMA Halves ==
  ASSUME NEW n \in Nat
  PROVE  Mid(n) \in Nat /\ Odd(n) \in {0, 1} /\ n = 2 * Mid(n) + Odd(n)
BY DEF Mid, Odd

LEMMA Middle ==
  ASSUME NEW n \in Nat, n >= 2
  PROVE  \E m \in Nat, o \in Nat : m = Mid(n) /\ o = Odd(n) /\ n = 2 * m + o /\ m >= 1 /\ (o = 0 \/ o = 1)
<1>1. PICK m \in Nat : m = Mid(n)
  BY Halves
<1>2. PICK o \in Nat : o = Odd(n) /\ (o = 0 \/ o = 1)
  BY Halves
<1>3. n = 2 * m + o
  BY <1>1, <1>2, Halves
<1>4. m >= 1
  BY <1>2, <1>3
<1>5. QED
  BY <1>1, <1>2, <1>3, <1>4

\* A block of s ranks and the next, in full groups of 2 * s ranks.
LEMMA Blocks ==
  ASSUME NEW s \in Nat, s > 0, NEW q \in Nat, NEW e \in Nat, e < 2 * (s * q)
  PROVE  /\ (e \div s) % 2 = 0 => e + s < 2 * (s * q) /\ ((e + s) \div s) % 2 # 0
         /\ (e \div s) % 2 # 0 => e - s \in Nat /\ ((e - s) \div s) % 2 = 0
<1>1. PICK a \in Nat, b \in 0 .. s - 1 : a = e \div s /\ e = s * a + b
  BY Division
<1>2. s * a \in Nat /\ s * q \in Nat /\ s * (2 * q) = 2 * (s * q)
  BY Products
<1>3. a < 2 * q
  <2>1. SUFFICES ASSUME 2 * q <= a PROVE FALSE
    OBVIOUS
  <2>2. s * (2 * q) <= s * a
    BY <2>1, Products
  <2>3. QED
    BY <1>1, <1>2, <2>2
<1>4. (e + s) \div s = a + 1
  <2>1. e + s = s * (a + 1) + b
    BY <1>1, <1>2, Products
  <2>2. QED
    BY <1>1, <2>1, QuotientIs
<1>5. CASE a % 2 = 0
  <2>1. a + 2 <= 2 * q /\ (a + 1) % 2 # 0
    BY <1>3, <1>5
  <2>2. s * (a + 2) <= s * (2 * q)
    BY <2>1, Products
  <2>3. s * (a + 2) = s * a + s + s
    <3>1. s * (a + 1) = s * a + s /\ s * ((a + 1) + 1) = s * (a + 1) + s /\ (a + 1) + 1 = a + 2
      BY Products
    <3>2. QED
      BY <1>2, <3>1
  <2>4. QED
    BY <1>1, <1>2, <1>4, <1>5, <2>1, <2>2, <2>3
<1>6. CASE a % 2 # 0
  <2>1. PICK c \in Nat : a = c + 1 /\ c % 2 = 0
    BY <1>6
  <2>2. s * a = s * c + s /\ s * c \in Nat
    BY <2>1, Products
  <2>3. e - s = s * c + b /\ e - s \in Nat
    BY <1>1, <2>2
  <2>4. (e - s) \div s = c
    BY <1>1, <2>3, QuotientIs
  <2>5. QED
    BY <1>1, <1>6, <2>1, <2>3, <2>4
<1>7. QED
  BY <1>5, <1>6

-----------------------------------------------------------------------------
(* Buddies *)

\* There are q full groups; around the middle are s * q ranks on each side of it.
LEMMA BuddyShape ==
  ASSUME NEW n \in Nat, n >= 2, NEW s \in Nat, s > 0
  PROVE  \E q \in Nat : /\ s * q \in Nat /\ s * q <= Mid(n) - Odd(n) /\ Mid(n) - Odd(n) - s * q < s
                        /\ Mini(n, s) = Mid(n) - Odd(n) - s * q
                        /\ Start(n, s) = Mid(n) - s * q /\ EndStart(n, s) = Mid(n) + Odd(n) + s * q
<1>1. PICK m \in Nat, o \in Nat : m = Mid(n) /\ o = Odd(n) /\ n = 2 * m + o /\ m >= 1 /\ (o = 0 \/ o = 1)
  BY Halves
<1>2. PICK k \in Nat : k = n - 3 * o /\ k = 2 * (m - o)
  BY <1>1
<1>3. s * 2 \in Nat /\ s * 2 > 0
  OBVIOUS
<1>4. PICK q \in Nat, x \in 0 .. s * 2 - 1 : q = k \div (s * 2) /\ k = (s * 2) * q + x
  BY <1>3, Division
<1>5. PICK P \in Nat : P = s * q
  BY Products
<1>6. (s * 2) * q = 2 * P /\ q * s * 2 = 2 * P
  BY <1>5
<1>7. PICK d \in Int : d = m - o - P
  BY <1>1
<1>8. 2 * d = x /\ d >= 0 /\ d < s
  <2>1. k = 2 * P + x
    BY <1>4, <1>6
  <2>2. k = 2 * m - 2 * o
    BY <1>2
  <2>3. x \in Int /\ x >= 0 /\ x <= s * 2 - 1
    OBVIOUS
  <2>4. 2 * d = x
    BY <1>7, <2>1, <2>2, <2>3
  <2>5. QED
    BY <2>3, <2>4
<1>9. Mini(n, s) = d
  <2>1. k - q * s * 2 = 2 * d
    <3>1. k - 2 * P = 2 * d
      BY <1>2, <1>7
    <3>2. QED
      BY <1>6, <3>1
  <2>2. (2 * d) \div 2 = d
    OBVIOUS
  <2>3. QED
    BY <1>1, <1>2, <1>4, <2>1, <2>2 DEF Mini
<1>10. Start(n, s) = m - P /\ EndStart(n, s) = m + o + P
  <2>1. Start(n, s) = d + o /\ EndStart(n, s) = n - d - o
    BY <1>1, <1>9 DEF Start, EndStart
  <2>2. n = 2 * m + o
    BY <1>1
  <2>3. d + o = m - P /\ n - d - o = m + o + P
    BY <1>7, <2>2
  <2>4. QED
    BY <2>1, <2>3
<1>11. P <= m - o /\ m - o - P < s
  BY <1>7, <1>8
<1>12. QED
  BY <1>1, <1>5, <1>7, <1>9, <1>10, <1>11

\* The rank without the middle of an odd communicator, from the start of the full groups.
Place(r, m, o, P) == r - (m - P) - (IF o = 1 /\ r > m THEN 1 ELSE 0)
Within(r, m, o, P) == r \in Nat /\ r >= m - P /\ r < m + o + P /\ (o = 1 => r # m)
After(r, s, m, o)  == r + s + (IF o = 1 /\ r < m /\ r + s >= m THEN 1 ELSE 0)
Before(r, s, m, o) == r - s - (IF o = 1 /\ r > m /\ r - s <= m THEN 1 ELSE 0)

LEMMA Places ==
  ASSUME NEW m \in Nat, NEW o \in Nat, o = 0 \/ o = 1, NEW P \in Nat, P <= m - o,
         NEW s \in Nat, s > 0, NEW r, Within(r, m, o, P)
  PROVE  LET e == Place(r, m, o, P) IN
         /\ e \in Nat /\ e < 2 * P
         /\ e + s < 2 * P => LET p == After(r, s, m, o) IN
              Within(p, m, o, P) /\ Place(p, m, o, P) = e + s /\ p - r >= s /\ Before(p, s, m, o) = r
         /\ e - s \in Nat => LET p == Before(r, s, m, o) IN
              Within(p, m, o, P) /\ Place(p, m, o, P) = e - s /\ r - p >= s /\ After(p, s, m, o) = r
<1>1. PICK e \in Int : e = Place(r, m, o, P)
  <2>1. r \in Int
    BY DEF Within
  <2>2. Place(r, m, o, P) \in Int
    BY <2>1 DEF Place
  <2>3. QED
    BY <2>2
<1>2. e \in Nat /\ e < 2 * P
  BY <1>1 DEF Place, Within
<1>3. ASSUME e + s < 2 * P, NEW p \in Int, p = After(r, s, m, o)
      PROVE  Within(p, m, o, P) /\ Place(p, m, o, P) = e + s /\ p - r >= s /\ Before(p, s, m, o) = r
  BY <1>1, <1>3 DEF Place, Within, After, Before
<1>4. ASSUME e - s \in Nat, NEW p \in Int, p = Before(r, s, m, o)
      PROVE  Within(p, m, o, P) /\ Place(p, m, o, P) = e - s /\ r - p >= s /\ After(p, s, m, o) = r
  BY <1>1, <1>4 DEF Place, Within, After, Before
<1>5. After(r, s, m, o) \in Int /\ Before(r, s, m, o) \in Int
  BY DEF Within, After, Before
<1>6. QED
  BY <1>1, <1>2, <1>3, <1>4, <1>5

\* Who has whom for a partner, in terms of the middle and the full groups.
Partner(r, s, m, o, P) ==
  IF (Place(r, m, o, P) \div s) % 2 = 0 THEN After(r, s, m, o) ELSE Before(r, s, m, o)

Shape(n, s, m, o, P) ==
  /\ m = Mid(n) /\ o = Odd(n) /\ n = 2 * m + o /\ Mini(n, s) = m - o - P
  /\ Start(n, s) = m - P /\ EndStart(n, s) = m + o + P

LEMMA BuddiesAre ==
  ASSUME NEW n \in Nat, n >= 2, NEW s \in Nat, s > 0, NEW P \in Nat, NEW m \in Nat, NEW o \in Nat,
         Shape(n, s, m, o, P), NEW r \in 0 .. n - 1
  PROVE  /\ Within(r, m, o, P) => BuddyPartners(r, n, s) = {Partner(r, s, m, o, P)}
         /\ (~Within(r, m, o, P) /\ r >= o /\ r < m - P) => BuddyPartners(r, n, s) = {r + m + P}
         /\ (~Within(r, m, o, P) /\ r >= m + o + P /\ r < n - o) => BuddyPartners(r, n, s) = {r - m - P}
         /\ (~Within(r, m, o, P) /\ ~(r >= o /\ r < m - P) /\ ~(r >= m + o + P /\ r < n - o)) =>
              BuddyPartners(r, n, s) = {0, m, n - 1}
<1>1. r \in Nat
  OBVIOUS
<1>2. Normal(r, n, s) <=> Within(r, m, o, P)
  BY <1>1 DEF Normal, Within, Shape
<1>3. NormalPartner(r, n, s) = Partner(r, s, m, o, P)
  BY DEF NormalPartner, Forward, Partner, Place, After, Before, Shape
<1>4. o + (m - o - P) = m - P /\ m + o + P + r - o = r + m + P /\ o + r - (m + o + P) = r - m - P
  BY <1>1
<1>5. BuddyPartners(r, n, s) =
        IF Within(r, m, o, P) THEN {Partner(r, s, m, o, P)}
        ELSE IF r >= o /\ r < m - P THEN {r + m + P}
        ELSE IF r >= m + o + P /\ r < n - o THEN {r - m - P}
        ELSE {0, m, n - 1}
  BY <1>2, <1>3, <1>4 DEF BuddyPartners, Shape
<1>6. ~(r >= o /\ r < m - P /\ r >= m + o + P)
  BY <1>1
<1>7. QED
  BY <1>5, <1>6

Trio(n) == IF Odd(n) = 1 THEN {0, Mid(n), n - 1} ELSE {}
Far(r, p, d) == r - p >= d \/ p - r >= d
Paired(r, p, n, s) ==
  /\ p \in 0 .. n - 1 /\ p # r /\ p \notin Trio(n) /\ BuddyPartners(r, n, s) = {p} /\ BuddyPartners(p, n, s) = {r}
  /\ Far(r, p, s) \/ Far(r, p, Mid(n))

\* The ranks of a communicator are paired, except for the trio of an odd one.
LEMMA Buddies ==
  ASSUME NEW n \in Nat, n >= 2, NEW s \in Nat, s > 0, NEW r \in 0 .. n - 1
  PROVE  IF r \in Trio(n) THEN BuddyPartners(r, n, s) = Trio(n) ELSE \E p : Paired(r, p, n, s)
<1>1. PICK m \in Nat, o \in Nat : m = Mid(n) /\ o = Odd(n) /\ n = 2 * m + o /\ m >= 1 /\ (o = 0 \/ o = 1)
  BY Halves
<1>2. PICK q \in Nat, P \in Nat :
        /\ P = s * q /\ P <= m - o /\ Mini(n, s) = m - o - P
        /\ Start(n, s) = m - P /\ EndStart(n, s) = m + o + P
  <2>1. PICK q \in Nat : /\ s * q \in Nat /\ s * q <= Mid(n) - Odd(n) /\ Mini(n, s) = Mid(n) - Odd(n) - s * q
                         /\ Start(n, s) = Mid(n) - s * q /\ EndStart(n, s) = Mid(n) + Odd(n) + s * q
    BY ZenonT(60), BuddyShape
  <2>2. PICK P \in Nat : P = s * q
    BY <2>1
  <2>3. QED
    BY <1>1, <2>1, <2>2
<1>3. n = 2 * m + o /\ (o = 0 \/ o = 1) /\ m >= 1 /\ P <= m - o
  BY <1>1, <1>2
<1>4. Trio(n) = IF o = 1 THEN {0, m, n - 1} ELSE {}
  BY <1>1 DEF Trio
<1>5. ASSUME NEW x \in 0 .. n - 1
      PROVE  /\ Within(x, m, o, P) => BuddyPartners(x, n, s) = {Partner(x, s, m, o, P)}
             /\ (~Within(x, m, o, P) /\ x >= o /\ x < m - P) => BuddyPartners(x, n, s) = {x + m + P}
             /\ (~Within(x, m, o, P) /\ x >= m + o + P /\ x < n - o) => BuddyPartners(x, n, s) = {x - m - P}
             /\ (~Within(x, m, o, P) /\ ~(x >= o /\ x < m - P) /\ ~(x >= m + o + P /\ x < n - o)) =>
                  BuddyPartners(x, n, s) = {0, m, n - 1}
  <2>1. Shape(n, s, m, o, P)
    BY <1>1, <1>2 DEF Shape
  <2>2. QED
    BY <2>1, BuddiesAre
<1>6. CASE Within(r, m, o, P)
  <2>1. PICK e \in Nat : e = Place(r, m, o, P) /\ e < 2 * (s * q)
    BY <1>2, <1>3, <1>6, Places
  <2>2. \E p : /\ p = Partner(r, s, m, o, P) /\ Within(p, m, o, P) /\ Partner(p, s, m, o, P) = r /\ Far(r, p, s)
    <3>1. CASE (e \div s) % 2 = 0
      <4>1. e + s < 2 * P /\ ((e + s) \div s) % 2 # 0
        BY ZenonT(60), <1>2, <2>1, <3>1, Blocks
      <4>2. PICK p : p = After(r, s, m, o)
        OBVIOUS
      <4>3. Within(p, m, o, P) /\ Place(p, m, o, P) = e + s /\ p - r >= s /\ Before(p, s, m, o) = r
        BY <1>3, <1>6, <2>1, <4>1, <4>2, Places
      <4>4. Partner(r, s, m, o, P) = p
        BY <2>1, <3>1, <4>2 DEF Partner
      <4>5. Partner(p, s, m, o, P) = r
        BY <4>1, <4>3 DEF Partner
      <4>6. QED
        BY <4>3, <4>4, <4>5 DEF Far
    <3>2. CASE (e \div s) % 2 # 0
      <4>1. e - s \in Nat /\ ((e - s) \div s) % 2 = 0
        BY <1>2, <2>1, <3>2, Blocks
      <4>2. PICK p : p = Before(r, s, m, o)
        OBVIOUS
      <4>3. Within(p, m, o, P) /\ Place(p, m, o, P) = e - s /\ r - p >= s /\ After(p, s, m, o) = r
        BY <1>3, <1>6, <2>1, <4>1, <4>2, Places
      <4>4. Partner(r, s, m, o, P) = p
        BY <2>1, <3>2, <4>2 DEF Partner
      <4>5. Partner(p, s, m, o, P) = r
        BY <4>1, <4>3 DEF Partner
      <4>6. QED
        BY <4>3, <4>4, <4>5 DEF Far
    <3>3. QED
      BY <3>1, <3>2
  <2>3. PICK p : p = Partner(r, s, m, o, P) /\ Within(p, m, o, P) /\ Partner(p, s, m, o, P) = r /\ Far(r, p, s)
    BY <2>2
  <2>4. ASSUME NEW x, Within(x, m, o, P) PROVE x \in 0 .. n - 1 /\ x \notin Trio(n)
    BY <1>3, <1>4, <2>4 DEF Within
  <2>5. p \in 0 .. n - 1 /\ p \notin Trio(n) /\ r \notin Trio(n)
    BY <1>6, <2>3, <2>4
  <2>6. p # r
    BY <2>3, <2>5 DEF Far
  <2>7. BuddyPartners(r, n, s) = {p} /\ BuddyPartners(p, n, s) = {r}
    BY <1>5, <1>6, <2>3, <2>5
  <2>8. QED
    BY <2>3, <2>5, <2>6, <2>7 DEF Paired
<1>7. CASE ~Within(r, m, o, P) /\ r >= o /\ r < m - P
  <2>1. PICK p \in 0 .. n - 1 : p = r + m + P
    BY <1>3, <1>7
  <2>2. p >= m + o + P /\ p < n - o /\ p - m - P = r /\ p - r >= m /\ p # r
    BY <1>3, <1>7, <2>1
  <2>3. ~Within(p, m, o, P)
    BY <2>2 DEF Within
  <2>4. BuddyPartners(r, n, s) = {p} /\ BuddyPartners(p, n, s) = {r}
    BY <1>5, <1>7, <2>1, <2>2, <2>3
  <2>5. p \notin Trio(n) /\ r \notin Trio(n)
    BY <1>3, <1>4, <1>7, <2>1, <2>2
  <2>6. QED
    BY <1>1, <2>2, <2>4, <2>5 DEF Paired, Far
<1>8. CASE ~Within(r, m, o, P) /\ r >= m + o + P /\ r < n - o
  <2>1. PICK p \in 0 .. n - 1 : p = r - m - P
    BY <1>3, <1>8
  <2>2. p >= o /\ p < m - P /\ p + m + P = r /\ r - p >= m /\ p # r
    BY <1>3, <1>8, <2>1
  <2>3. ~Within(p, m, o, P)
    BY <2>2 DEF Within
  <2>4. BuddyPartners(r, n, s) = {p} /\ BuddyPartners(p, n, s) = {r}
    BY <1>5, <1>8, <2>1, <2>2, <2>3
  <2>5. p \notin Trio(n) /\ r \notin Trio(n)
    BY <1>3, <1>4, <1>8, <2>1, <2>2
  <2>6. QED
    BY <1>1, <2>2, <2>4, <2>5 DEF Paired, Far
<1>9. CASE ~Within(r, m, o, P) /\ ~(r >= o /\ r < m - P) /\ ~(r >= m + o + P /\ r < n - o)
  <2>1. o = 1 /\ r \in {0, m, n - 1}
    BY <1>3, <1>9 DEF Within
  <2>2. BuddyPartners(r, n, s) = {0, m, n - 1}
    BY <1>5, <1>9
  <2>3. QED
    BY <1>4, <2>1, <2>2
<1>10. QED
  BY <1>6, <1>7, <1>8, <1>9

\* Without room for a full group, or with just one, the communicator is cut into halves.
HalfPartners(r, n) ==
  IF r >= Odd(n) /\ r < Mid(n) THEN {r + Mid(n)}
  ELSE IF r >= Mid(n) + Odd(n) /\ r < n - Odd(n) THEN {r - Mid(n)} ELSE {0, Mid(n), n - 1}

\* From half the communicator on, it does not matter what the separation is.
LEMMA LargeSeparations ==
  ASSUME NEW n \in Nat, n >= 2, NEW s \in Nat, s > 0, s >= Mid(n), NEW r \in 0 .. n - 1
  PROVE  BuddyPartners(r, n, s) = HalfPartners(r, n)
<1>1. PICK m \in Nat, o \in Nat : m = Mid(n) /\ o = Odd(n) /\ n = 2 * m + o /\ m >= 1 /\ (o = 0 \/ o = 1)
  BY Middle
<1>2. PICK q \in Nat : /\ s * q \in Nat /\ s * q <= Mid(n) - Odd(n) /\ Mini(n, s) = Mid(n) - Odd(n) - s * q
                       /\ Start(n, s) = Mid(n) - s * q /\ EndStart(n, s) = Mid(n) + Odd(n) + s * q
  BY ZenonT(60), BuddyShape
<1>3. PICK P \in Nat : P = s * q
  BY <1>2
<1>4. n = 2 * m + o /\ (o = 0 \/ o = 1) /\ m >= 1 /\ P <= m - o /\ s >= m
  BY <1>1, <1>2, <1>3
<1>5. Shape(n, s, m, o, P)
  BY <1>1, <1>2, <1>3 DEF Shape
<1>6. /\ Within(r, m, o, P) => BuddyPartners(r, n, s) = {Partner(r, s, m, o, P)}
      /\ (~Within(r, m, o, P) /\ r >= o /\ r < m - P) => BuddyPartners(r, n, s) = {r + m + P}
      /\ (~Within(r, m, o, P) /\ r >= m + o + P /\ r < n - o) => BuddyPartners(r, n, s) = {r - m - P}
      /\ (~Within(r, m, o, P) /\ ~(r >= o /\ r < m - P) /\ ~(r >= m + o + P /\ r < n - o)) =>
           BuddyPartners(r, n, s) = {0, m, n - 1}
  BY <1>5, BuddiesAre
<1>7. HalfPartners(r, n) = IF r >= o /\ r < m THEN {r + m}
                           ELSE IF r >= m + o /\ r < n - o THEN {r - m} ELSE {0, m, n - 1}
  BY <1>1 DEF HalfPartners
<1>8. CASE q = 0
  <2>1. P = 0
    BY <1>3, <1>8, Products
  <2>2. ~Within(r, m, o, P)
    BY <1>4, <2>1 DEF Within
  <2>3. m - P = m /\ m + o + P = m + o /\ r + m + P = r + m /\ r - m - P = r - m
    BY <2>1
  <2>4. ~(r >= o /\ r < m /\ r >= m + o)
    BY <1>4
  <2>5. QED
    BY <1>6, <1>7, <2>2, <2>3, <2>4
<1>9. CASE q # 0
  <2>1. s * 1 <= s * q /\ s * 1 = s
    BY <1>9, Products
  <2>2. o = 0 /\ P = m /\ s = m
    BY <1>3, <1>4, <2>1
  <2>3. Within(r, m, o, P) /\ Place(r, m, o, P) = r /\ After(r, s, m, o) = r + m /\ Before(r, s, m, o) = r - m
    BY <1>4, <2>2 DEF Within, Place, After, Before
  <2>4. CASE r < m
    <3>1. r = m * 0 + r /\ r \in 0 .. m - 1
      BY <2>4, Products
    <3>2. r \div m = 0
      BY <1>4, <3>1, QuotientIs
    <3>3. Partner(r, s, m, o, P) = r + m
      BY <2>2, <2>3, <3>2 DEF Partner
    <3>4. QED
      BY <1>6, <1>7, <2>2, <2>3, <2>4, <3>3
  <2>5. CASE r >= m
    <3>1. r = m * 1 + (r - m) /\ r - m \in 0 .. m - 1
      BY <1>4, <2>2, <2>5
    <3>2. r \div m = 1
      BY <1>4, <3>1, QuotientIs
    <3>3. Partner(r, s, m, o, P) = r - m
      BY <2>2, <2>3, <3>2 DEF Partner
    <3>4. ~(r < m) /\ r >= m + o /\ r < n - o
      BY <1>4, <2>2, <2>5
    <3>5. QED
      BY <1>6, <1>7, <2>3, <3>3, <3>4
  <2>6. QED
    BY <2>4, <2>5
<1>10. QED
  BY <1>8, <1>9

-----------------------------------------------------------------------------
(* Parity sets *)

Rung(b, s, i) == b + s * i
Column(b, s, k) == {b + s * i : i \in 0 .. k - 1}

Fills(n, s, k) == n % (s * k) = 0

LEMMA ColumnSize ==
  ASSUME NEW b \in Nat, NEW s \in Nat, s > 0, NEW k \in Nat
  PROVE  Cardinality(Column(b, s, k)) = k
<1> DEFINE f == [i \in 0 .. k - 1 |-> b + s * i]
<1>1. f \in [0 .. k - 1 -> Column(b, s, k)] /\ \A x \in Column(b, s, k) : \E i \in 0 .. k - 1 : f[i] = x
  BY DEF Column
<1>2. ASSUME NEW i \in 0 .. k - 1, NEW j \in 0 .. k - 1, i # j PROVE f[i] # f[j]
  <2>1. ASSUME NEW x \in Nat, NEW y \in Nat, x < y PROVE b + s * x # b + s * y
    <3>1. s * (x + 1) <= s * y /\ s * (x + 1) = s * x + s /\ s * x \in Nat /\ s * y \in Nat
      BY <2>1, Products
    <3>2. QED
      BY <3>1
  <2>2. i \in Nat /\ j \in Nat /\ (i < j \/ j < i)
    BY <1>2
  <2>3. b + s * i # b + s * j
    BY <2>1, <2>2
  <2>4. QED
    BY <2>3
<1>3. f \in Bijection(0 .. k - 1, Column(b, s, k))
  BY <1>1, <1>2 DEF Bijection, Injection, Surjection, IsInjective
<1>4. IsFiniteSet(0 .. k - 1) /\ Cardinality(0 .. k - 1) = k
  <2>1. 0 \in Int /\ k - 1 \in Int
    OBVIOUS
  <2>2. IsFiniteSet(0 .. k - 1) /\ Cardinality(0 .. k - 1) = IF 0 > k - 1 THEN 0 ELSE (k - 1) - 0 + 1
    BY <2>1, FS_Interval
  <2>3. QED
    BY <2>2
<1>5. ExistsBijection(0 .. k - 1, Column(b, s, k))
  BY <1>3 DEF ExistsBijection
<1>6. QED
  BY <1>4, <1>5, FS_Bijection

\* Rank d is at the head of a column that ends within the communicator.
Heads(d, n, s, k) == \E c \in Nat, b \in 0 .. s - 1 : d = s * (k * c) + b /\ d + s * k <= n + b

\* All ranks of the column compute it.
LEMMA InColumn ==
  ASSUME NEW n \in Nat, NEW s \in Nat, s > 0, NEW k \in Nat, k > 0, NEW d \in Nat, Heads(d, n, s, k),
         NEW i \in 0 .. k - 1
  PROVE  Rung(d, s, i) \in 0 .. n - 1 /\ ParityPartners(Rung(d, s, i), n, s, k) = Column(d, s, k)
<1>1. PICK r : r = d + s * i /\ r = Rung(d, s, i)
  BY DEF Rung
<1>2. PICK c \in Nat, b \in 0 .. s - 1 : d = s * (k * c) + b /\ d + s * k <= n + b
  BY DEF Heads
<1>3. s * i + s <= s * k /\ s * i \in Nat /\ s * k \in Nat
  <2>1. s * (i + 1) <= s * k /\ s * (i + 1) = s * i + s
    BY Products
  <2>2. QED
    BY <2>1, Products
<1>4. r \in 0 .. n - 1
  BY <1>1, <1>2, <1>3
<1>5. PICK a \in Nat : a = k * c + i /\ k * c \in Nat
  BY Products
<1>6. r = s * a + b
  <2>1. s * a = s * (k * c) + s * i
    BY <1>5
  <2>2. QED
    BY <1>1, <1>2, <1>3, <2>1
<1>7. r \div s = a
  BY <1>4, <1>6, QuotientIs
<1>8. a % k = i
  BY <1>5, QuotientIs
<1>9. ASSUME NEW j \in 0 .. k - 1 PROVE (n + r - s * (i - j)) % n = d + s * j
  <2>1. s * (i - j) = s * i - s * j /\ s * j \in Nat /\ s * j + s <= s * k
    <3>1. s * (j + 1) <= s * k /\ s * (j + 1) = s * j + s /\ s * j \in Nat
      BY Products
    <3>2. s * (i - j) = s * i - s * j
      OBVIOUS
    <3>3. QED
      BY <3>1, <3>2
  <2>2. n + r - s * (i - j) = n + (d + s * j)
    BY <1>1, <1>3, <2>1
  <2>3. d + s * j \in 0 .. n - 1 /\ n > 0
    BY <1>2, <1>3, <2>1
  <2>4. n + (d + s * j) = n * 1 + (d + s * j)
    BY <2>3
  <2>5. (n + (d + s * j)) % n = d + s * j
    BY <2>3, <2>4, QuotientIs
  <2>6. QED
    BY <2>2, <2>5
<1>10. ParityPartners(r, n, s, k) = {(n + r - s * (i - j)) % n : j \in 0 .. k - 1}
  BY <1>7, <1>8 DEF ParityPartners
<1>11. {(n + r - s * (i - j)) % n : j \in 0 .. k - 1} = {d + s * j : j \in 0 .. k - 1}
  BY <1>9, Zenon
<1>12. QED
  BY <1>4, <1>10, <1>11, <1>1 DEF Column

\* A communicator that the sets fill is divided into columns.
LEMMA ParityColumns ==
  ASSUME NEW n \in Nat, NEW s \in Nat, s > 0, NEW k \in Nat, k > 0, Fills(n, s, k), NEW r \in 0 .. n - 1
  PROVE  \E d \in Nat : /\ \E i \in 0 .. k - 1 : r = d + s * i
                        /\ \A q \in Column(d, s, k) : q \in 0 .. n - 1 /\ ParityPartners(q, n, s, k) = Column(d, s, k)
<1>1. PICK a \in Nat, b \in 0 .. s - 1 : r = s * a + b
  <2>1. r \in Nat
    OBVIOUS
  <2>2. r \div s \in Nat /\ r % s \in 0 .. s - 1 /\ r = s * (r \div s) + (r % s)
    BY <2>1, Division
  <2>3. QED
    BY <2>2
<1>2. PICK c \in Nat, i \in 0 .. k - 1 : a = k * c + i
  <2>1. a \div k \in Nat /\ a % k \in 0 .. k - 1 /\ a = k * (a \div k) + (a % k)
    BY Division
  <2>2. QED
    BY <2>1
<1>3. PICK w \in Nat : w = s * k /\ w > 0
  <2>1. s * 1 <= s * k /\ s * 1 = s /\ s * k \in Nat
    BY Products
  <2>2. QED
    BY <2>1
<1>4. PICK M \in Nat : n = w * M
  <2>1. n = w * (n \div w) + (n % w) /\ n \div w \in Nat
    BY <1>3, Division
  <2>2. w * (n \div w) \in Nat
    BY <2>1, Products
  <2>3. n = w * (n \div w)
    BY <1>3, <2>1, <2>2 DEF Fills
  <2>4. QED
    BY <2>1, <2>3
<1>5. w * c \in Nat /\ s * (k * c) = w * c /\ s * a = w * c + s * i /\ s * i \in Nat
  <2>1. s * (k * c) = (s * k) * c /\ s * (k * c + i) = s * (k * c) + s * i
    OBVIOUS
  <2>2. QED
    BY <1>2, <1>3, <2>1, Products
<1>6. c < M
  <2>1. SUFFICES ASSUME M <= c PROVE FALSE
    OBVIOUS
  <2>2. w * M <= w * c
    BY <2>1, Products
  <2>3. QED
    BY <1>1, <1>4, <1>5, <2>2
<1>7. w * c + w <= n
  <2>1. w * (c + 1) <= w * M /\ w * (c + 1) = w * c + w
    BY <1>6, Products
  <2>2. QED
    BY <1>4, <2>1
<1>8. PICK d \in Nat : d = s * (k * c) + b /\ d = w * c + b
  BY <1>5
<1>9. d + s * k <= n + b
  BY <1>3, <1>5, <1>7, <1>8
<1>10. r = d + s * i
  BY <1>1, <1>5, <1>8
<1>11. \A q \in Column(d, s, k) : q \in 0 .. n - 1 /\ ParityPartners(q, n, s, k) = Column(d, s, k)
  <2>1. ASSUME NEW q \in Column(d, s, k) PROVE q \in 0 .. n - 1 /\ ParityPartners(q, n, s, k) = Column(d, s, k)
    <3>1. PICK j \in 0 .. k - 1 : q = Rung(d, s, j)
      BY DEF Column, Rung
    <3>2. Heads(d, n, s, k)
      BY <1>8, <1>9 DEF Heads
    <3>3. QED
      BY <3>1, <3>2, InColumn
  <2>2. QED
    BY <2>1
<1>12. QED
  BY <1>10, <1>11

-----------------------------------------------------------------------------
(* Cohorts *)

BuddyCohort(r, n, s) == {r} \cup BuddyPartners(r, n, s)
ParityCohort(r, n, s, k) == {r} \cup ParityPartners(r, n, s, k)

LEMMA Trios ==
  ASSUME NEW n \in Nat, n >= 2
  PROVE  /\ Trio(n) \subseteq 0 .. n - 1 /\ Cardinality(Trio(n)) = 3 * Odd(n)
         /\ \A r, q \in Trio(n) : r # q => Odd(n) = 1 /\ Far(r, q, Mid(n))
<1>1. PICK m \in Nat, o \in Nat : m = Mid(n) /\ o = Odd(n) /\ n = 2 * m + o /\ m >= 1 /\ (o = 0 \/ o = 1)
  BY Middle
<1>2. CASE o = 0
  <2>1. Trio(n) = {}
    BY <1>1, <1>2 DEF Trio
  <2>2. QED
    BY <1>1, <1>2, <2>1, FS_EmptySet
<1>3. CASE o = 1
  <2>1. n - 1 = m + m /\ n - 1 \in 0 .. n - 1 /\ m \in 0 .. n - 1 /\ 0 \in 0 .. n - 1
    BY <1>1, <1>3
  <2>2. PICK l \in Nat : l = n - 1 /\ l = m + m
    BY <2>1
  <2>3. Trio(n) = {0, m, l}
    BY <1>1, <1>3, <2>2 DEF Trio
  <2>4. Cardinality({0, m, l}) = 3
    <3>1. IsFiniteSet({0}) /\ Cardinality({0}) = 1
      BY FS_Singleton
    <3>2. IsFiniteSet({0} \cup {m}) /\ Cardinality({0} \cup {m}) = 2
      <4>1. m \notin {0}
        BY <1>1
      <4>2. QED
        BY <3>1, <4>1, FS_AddElement
    <3>3. Cardinality(({0} \cup {m}) \cup {l}) = 3
      <4>1. l \notin {0} \cup {m}
        BY <1>1, <2>2
      <4>2. QED
        BY <3>2, <4>1, FS_AddElement
    <3>4. {0, m, l} = ({0} \cup {m}) \cup {l}
      OBVIOUS
    <3>5. QED
      BY <3>3, <3>4
  <2>5. ASSUME NEW r \in {0, m, l}, NEW q \in {0, m, l}, r # q PROVE Far(r, q, m)
    BY <1>1, <2>2, <2>5 DEF Far
  <2>6. Trio(n) \subseteq 0 .. n - 1
    BY <2>1, <2>2, <2>3
  <2>7. Cardinality(Trio(n)) = 3 * Odd(n)
    BY <1>1, <1>3, <2>3, <2>4
  <2>8. \A r, q \in Trio(n) : r # q => Far(r, q, Mid(n))
    BY <1>1, <2>3, <2>5
  <2>9. QED
    BY <1>1, <1>3, <2>6, <2>7, <2>8
<1>4. QED
  BY <1>1, <1>2, <1>3

LEMMA BuddyCohorts ==
  ASSUME NEW n \in Nat, n >= 2, NEW s \in Nat, s > 0, NEW r \in 0 .. n - 1
  PROVE  /\ BuddyCohort(r, n, s) \subseteq 0 .. n - 1
         /\ \A q \in BuddyCohort(r, n, s) : BuddyCohort(q, n, s) = BuddyCohort(r, n, s)
         /\ Cardinality(BuddyCohort(r, n, s)) = IF r \in Trio(n) THEN 3 ELSE 2
         /\ \A q \in BuddyCohort(r, n, s) \ {r} : Far(r, q, s) \/ Far(r, q, Mid(n))
<1>1. CASE r \in Trio(n)
  <2>1. ASSUME NEW q \in Trio(n) PROVE BuddyCohort(q, n, s) = Trio(n)
    <3>1. q \in 0 .. n - 1
      BY Trios
    <3>2. BuddyPartners(q, n, s) = Trio(n)
      BY <3>1, Buddies
    <3>3. QED
      BY <3>2 DEF BuddyCohort
  <2>2. BuddyCohort(r, n, s) = Trio(n)
    BY <1>1, <2>1
  <2>3. Odd(n) = 1
    BY <1>1 DEF Trio
  <2>4. Cardinality(Trio(n)) = 3
    BY <2>3, Trios
  <2>5. \A q \in Trio(n) \ {r} : Far(r, q, Mid(n))
    BY <1>1, Trios
  <2>6. Trio(n) \subseteq 0 .. n - 1
    BY Trios
  <2>7. QED
    BY <1>1, <2>1, <2>2, <2>4, <2>5, <2>6
<1>2. CASE r \notin Trio(n)
  <2>1. PICK p : Paired(r, p, n, s)
    BY <1>2, Buddies
  <2>2. BuddyCohort(r, n, s) = {r, p} /\ BuddyCohort(p, n, s) = {r, p}
    BY <2>1 DEF BuddyCohort, Paired
  <2>3. Cardinality({r, p}) = 2
    <3>1. IsFiniteSet({r}) /\ Cardinality({r}) = 1
      BY FS_Singleton
    <3>2. p \notin {r}
      BY <2>1 DEF Paired
    <3>3. Cardinality({r} \cup {p}) = 2
      BY <3>1, <3>2, FS_AddElement
    <3>4. {r, p} = {r} \cup {p}
      OBVIOUS
    <3>5. QED
      BY <3>3, <3>4
  <2>4. {r, p} \subseteq 0 .. n - 1 /\ (Far(r, p, s) \/ Far(r, p, Mid(n)))
    BY <2>1 DEF Paired
  <2>5. \A q \in {r, p} : BuddyCohort(q, n, s) = {r, p}
    BY <2>2
  <2>6. QED
    BY <1>2, <2>2, <2>3, <2>4, <2>5
<1>3. QED
  BY <1>1, <1>2

LEMMA RungsApart ==
  ASSUME NEW d \in Nat, NEW s \in Nat, s > 0, NEW i \in Nat, NEW j \in Nat, i # j
  PROVE  Far(Rung(d, s, i), Rung(d, s, j), s)
<1>1. ASSUME NEW x \in Nat, NEW y \in Nat, x < y
      PROVE  Rung(d, s, y) - Rung(d, s, x) >= s
  <2>1. s * (x + 1) <= s * y /\ s * (x + 1) = s * x + s /\ s * x \in Nat /\ s * y \in Nat
    BY <1>1, Products
  <2>2. QED
    BY <2>1 DEF Rung
<1>2. i < j \/ j < i
  OBVIOUS
<1>3. QED
  BY <1>1, <1>2 DEF Far

LEMMA ParityCohorts ==
  ASSUME NEW n \in Nat, NEW s \in Nat, s > 0, NEW k \in Nat, k > 0, Fills(n, s, k), NEW r \in 0 .. n - 1
  PROVE  /\ ParityCohort(r, n, s, k) \subseteq 0 .. n - 1
         /\ \A q \in ParityCohort(r, n, s, k) : ParityCohort(q, n, s, k) = ParityCohort(r, n, s, k)
         /\ Cardinality(ParityCohort(r, n, s, k)) = k
         /\ \A q \in ParityCohort(r, n, s, k) \ {r} : Far(r, q, s)
<1>1. PICK d \in Nat :
        /\ \E i \in 0 .. k - 1 : r = d + s * i
        /\ \A q \in Column(d, s, k) : q \in 0 .. n - 1 /\ ParityPartners(q, n, s, k) = Column(d, s, k)
  BY ParityColumns
<1>2. PICK i \in 0 .. k - 1 : r = d + s * i /\ r = Rung(d, s, i)
  BY <1>1 DEF Rung
<1>3. r \in Column(d, s, k)
  BY <1>2 DEF Column
<1>4. \A q \in Column(d, s, k) : ParityCohort(q, n, s, k) = Column(d, s, k)
  BY <1>1 DEF ParityCohort
<1>5. ASSUME NEW q \in Column(d, s, k), q # r PROVE Far(r, q, s)
  <2>1. PICK j \in 0 .. k - 1 : q = Rung(d, s, j)
    BY DEF Column, Rung
  <2>2. i \in Nat /\ j \in Nat /\ i # j
    BY <1>2, <1>5, <2>1
  <2>3. QED
    BY <1>2, <2>1, <2>2, RungsApart
<1>6. Cardinality(Column(d, s, k)) = k
  BY ColumnSize
<1>7. QED
  BY <1>1, <1>3, <1>4, <1>5, <1>6

LEMMA FarFromMin ==
  ASSUME NEW r \in Int, NEW q \in Int, NEW a \in Int, NEW b \in Int, Far(r, q, a) \/ Far(r, q, b), a >= 0, b >= 0, q # r
  PROVE  (IF q > r THEN q - r ELSE r - q) >= Min({a, b})
<1>1. IsFiniteSet({a, b}) /\ {a, b} \subseteq Int /\ {a, b} # {}
  <2>1. IsFiniteSet({a} \cup {b})
    BY FS_Singleton, FS_AddElement
  <2>2. {a, b} = {a} \cup {b}
    OBVIOUS
  <2>3. QED
    BY <2>1, <2>2
<1>2. Min({a, b}) \in {a, b} /\ \A t \in {a, b} : Min({a, b}) <= t
  BY <1>1, MinOf
<1>3. PICK x \in Int : x = Min({a, b}) /\ x <= a /\ x <= b
  BY <1>2
<1>4. (IF q > r THEN q - r ELSE r - q) >= x
  BY <1>3 DEF Far
<1>5. QED
  BY <1>3, <1>4

-----------------------------------------------------------------------------
(* The invariant *)

\* A rank has the separation asked for; if none was, one that cuts the communicator into
\* halves: what a rank took from a communicator is enough for every smaller one.
Suits(sep, asked, n) == sep \in Nat /\ IF asked # 0 THEN sep = asked ELSE sep >= Mid(n)

Steady ==
  /\ mode \in {1, 5} /\ policy_sep \in Nat /\ comm_size \in Nat /\ comm_size >= 2
  /\ mode = 5 => policy_sep # 0 /\ set_size_policy \in 3 .. 4
  /\ \A r \in Ranks : Suits(rank_separation[r], policy_sep, comm_size)
  /\ cohort # <<>> => \A r \in Ranks : cohort[r] = create_cohort(r)

LEMMA Suitable ==
  ASSUME NEW asked \in Nat, NEW n \in Nat
  PROVE  Suits(get_rank_sep(asked, n), asked, n)
BY Halves DEF Suits, get_rank_sep, Mid

LEMMA StillSuitable ==
  ASSUME NEW asked \in Nat, NEW n \in Nat, NEW m \in Nat, m <= n, NEW sep, Suits(sep, asked, n)
  PROVE  Suits(sep, asked, m)
<1>1. PICK x \in Nat, y \in Nat : x = Mid(m) /\ y = Mid(n) /\ x <= y
  BY Halves DEF Mid
<1>2. QED
  BY <1>1 DEF Suits

LEMMA InitSteady ==
  ASSUME Init
  PROVE  Steady
<1>1. mode \in {1, 5} /\ policy_sep \in Nat /\ comm_size \in Nat /\ comm_size >= 2 /\ cohort = <<>>
  BY CohortsAssumption DEF Init
<1>2. mode = 5 => policy_sep # 0 /\ set_size_policy \in 3 .. 4
  BY DEF Init
<1>3. \A r \in Ranks : Suits(rank_separation[r], policy_sep, comm_size)
  <2>1. \A r \in Ranks : rank_separation[r] = get_rank_sep(policy_sep, comm_size)
    BY DEF Init, Ranks
  <2>2. QED
    BY <1>1, <2>1, Suitable
<1>4. QED
  BY <1>1, <1>2, <1>3 DEF Steady

LEMMA GroupInitSteady ==
  ASSUME Steady, GroupInit
  PROVE  Steady'
<1>1. \A r \in Ranks : cohort'[r] = create_cohort(r)
  BY DEF GroupInit
<1>2. /\ mode' = mode /\ policy_sep' = policy_sep /\ set_size_policy' = set_size_policy
      /\ comm_size' = comm_size /\ rank_separation' = rank_separation /\ Ranks' = Ranks
  BY DEF GroupInit, Ranks
<1>3. \A r : create_cohort(r)' = create_cohort(r)
  BY <1>2 DEF create_cohort
<1>4. QED
  BY <1>1, <1>2, <1>3 DEF Steady

LEMMA RecoverSteady ==
  ASSUME Steady, Recover
  PROVE  Steady'
<1> DEFINE Replaced(dead) == {r \in dead : Cardinality({q \in dead : q < r}) < spares}
           Kept(dead) == Ranks \ (dead \ Replaced(dead))
           Was(dead, i) == CHOOSE r \in Kept(dead) : Cardinality({q \in Kept(dead) : q < r}) = i
<1>1. PICK dead \in SUBSET Ranks :
        /\ Cardinality(Kept(dead)) >= 2
        /\ comm_size' = Cardinality(Kept(dead))
        /\ rank_separation' =
             [i \in 0 .. Cardinality(Kept(dead)) - 1 |->
                IF Was(dead, i) \in Replaced(dead) THEN get_rank_sep(policy_sep, Cardinality(Kept(dead)))
                ELSE rank_separation[Was(dead, i)]]
  BY Zenon DEF Recover
<1>2. PICK kept \in SUBSET Ranks : kept = Kept(dead)
  OBVIOUS
<1>3. comm_size \in Nat /\ comm_size >= 2 /\ policy_sep \in Nat
  BY DEF Steady
<1>4. IsFiniteSet(Ranks) /\ Cardinality(Ranks) = comm_size
  <2>1. PICK n \in Nat : n = comm_size /\ n >= 2
    BY <1>3
  <2>2. IsFiniteSet(0 .. n - 1) /\ Cardinality(0 .. n - 1) = IF 0 > n - 1 THEN 0 ELSE (n - 1) - 0 + 1
    BY <2>1, FS_Interval
  <2>3. QED
    BY <2>1, <2>2 DEF Ranks
<1>5. IsFiniteSet(kept) /\ Cardinality(kept) <= comm_size
  BY <1>4, FS_Subset
<1>6. PICK size \in Nat : size = Cardinality(kept) /\ size >= 2 /\ size <= comm_size
  BY <1>1, <1>2, <1>5, FS_CardinalityType
<1>7. comm_size' = size /\ policy_sep' = policy_sep /\ cohort' = <<>> /\ mode' = mode /\ set_size_policy' = set_size_policy
  BY <1>1, <1>2, <1>6 DEF Recover
<1>8. ASSUME NEW i \in 0 .. size - 1 PROVE Suits(rank_separation'[i], policy_sep, size)
  <2>1. \E r \in kept : Cardinality({q \in kept : q < r}) = i
    <3>1. kept \subseteq Int
      BY DEF Ranks
    <3>2. \E r \in kept : Cardinality(Older(kept, r)) = i
      BY <1>5, <1>6, <1>8, <3>1, OlderPositionTaken
    <3>3. QED
      BY <3>2 DEF Older
  <2>2. PICK r \in kept : r = Was(dead, i)
    BY <1>2, <2>1
  <2>3. rank_separation'[i] = IF r \in Replaced(dead) THEN get_rank_sep(policy_sep, size) ELSE rank_separation[r]
    BY <1>1, <1>2, <1>6, <1>8, <2>2
  <2>4. Suits(get_rank_sep(policy_sep, size), policy_sep, size)
    BY <1>3, Suitable
  <2>5. Suits(rank_separation[r], policy_sep, size)
    <3>1. Suits(rank_separation[r], policy_sep, comm_size)
      BY DEF Steady
    <3>2. QED
      BY <1>3, <1>6, <3>1, StillSuitable
  <2>6. QED
    BY <2>3, <2>4, <2>5
<1>9. Ranks' = 0 .. size - 1
  BY <1>7 DEF Ranks
<1>10. mode \in {1, 5} /\ (mode = 5 => policy_sep # 0 /\ set_size_policy \in 3 .. 4)
  BY DEF Steady
<1>11. QED
  BY <1>3, <1>6, <1>7, <1>8, <1>9, <1>10 DEF Steady

LEMMA AlwaysSteady == Spec => []Steady
<1>1. Init => Steady
  BY InitSteady
<1>2. Steady /\ [Next]_vars => Steady'
  <2>1. SUFFICES ASSUME Steady, [Next]_vars PROVE Steady'
    OBVIOUS
  <2>2. CASE GroupInit
    BY <2>1, <2>2, GroupInitSteady
  <2>3. CASE Recover
    BY <2>1, <2>3, RecoverSteady
  <2>4. CASE UNCHANGED vars
    BY <2>1, <2>4 DEF Steady, Ranks, create_cohort, vars
  <2>5. QED
    BY <2>1, <2>2, <2>3, <2>4 DEF Next
<1>3. QED
  BY <1>1, <1>2, PTL DEF Spec

-----------------------------------------------------------------------------
(* The theorems *)

\* Whatever separations the ranks have, they compute the cohorts of a single one.
LEMMA OneSeparation ==
  ASSUME Steady, mode = 1
  PROVE  \E s \in Nat : /\ s > 0
                        /\ \A r \in Ranks : /\ create_cohort(r) = BuddyCohort(r, comm_size, s)
                                            /\ s = rank_separation[r] \/ s = Mid(comm_size)
<1>1. comm_size \in Nat /\ comm_size >= 2 /\ policy_sep \in Nat
  BY DEF Steady
<1>2. \A r \in Ranks : Suits(rank_separation[r], policy_sep, comm_size)
  BY DEF Steady
<1>3. \A r \in Ranks : create_cohort(r) = BuddyCohort(r, comm_size, rank_separation[r])
  BY DEF create_cohort, BuddyCohort
<1>4. CASE policy_sep # 0
  <2>1. \A r \in Ranks : rank_separation[r] = policy_sep
    BY <1>2, <1>4 DEF Suits
  <2>2. policy_sep > 0
    BY <1>1, <1>4
  <2>3. QED
    BY <1>1, <1>3, <2>1, <2>2
<1>5. CASE policy_sep = 0
  <2>1. PICK m \in Nat : m = Mid(comm_size) /\ m >= 1
    BY <1>1, Middle
  <2>2. ASSUME NEW r \in Ranks PROVE create_cohort(r) = BuddyCohort(r, comm_size, m)
    <3>1. PICK s \in Nat : s = rank_separation[r] /\ s >= m
      BY <1>2, <1>5, <2>1 DEF Suits
    <3>2. s > 0 /\ s >= Mid(comm_size) /\ m > 0 /\ m >= Mid(comm_size) /\ r \in 0 .. comm_size - 1
      BY <2>1, <3>1 DEF Ranks
    <3>3. BuddyPartners(r, comm_size, s) = HalfPartners(r, comm_size)
      BY <1>1, <3>2, LargeSeparations
    <3>4. BuddyPartners(r, comm_size, m) = HalfPartners(r, comm_size)
      BY <1>1, <3>2, LargeSeparations
    <3>5. QED
      BY <1>3, <3>1, <3>3, <3>4 DEF BuddyCohort
  <2>3. QED
    BY <2>1, <2>2
<1>6. QED
  BY <1>1, <1>4, <1>5

\* In the parity mode every rank has the separation asked for, and fits its column.
LEMMA OneColumnWidth ==
  ASSUME Steady, mode = 5, Sensible
  PROVE  /\ policy_sep \in Nat /\ policy_sep > 0 /\ set_size_policy \in Nat /\ set_size_policy > 0
         /\ Fills(comm_size, policy_sep, set_size_policy)
         /\ \A r \in Ranks : /\ create_cohort(r) = ParityCohort(r, comm_size, policy_sep, set_size_policy)
                             /\ rank_separation[r] = policy_sep
<1>1. policy_sep \in Nat /\ policy_sep > 0 /\ set_size_policy \in Nat /\ set_size_policy > 0
  BY DEF Steady
<1>2. \A r \in Ranks : rank_separation[r] = policy_sep
  BY <1>1 DEF Steady, Suits
<1>3. \A r \in Ranks : create_cohort(r) = ParityCohort(r, comm_size, rank_separation[r], set_size_policy)
  BY DEF create_cohort, ParityCohort
<1>4. Fills(comm_size, policy_sep, set_size_policy)
  BY DEF Fills, Sensible
<1>5. QED
  BY <1>1, <1>2, <1>3, <1>4


\* The ranks agree on the cohorts IMRGroup::create_cohort computes on each of them, in a
\* communicator of any size and after any recoveries: they partition it, into pairs and
\* one trio if it is odd (mode 1), or into sets of the size asked for (mode 5).
THEOREM CohortsAlwaysPartition == Spec => []CohortsPartition
<1>1. ASSUME Steady, cohort # <<>>, Sensible
      PROVE  /\ \A r \in Ranks : cohort[r] \subseteq Ranks /\ \A q \in cohort[r] : cohort[q] = cohort[r]
             /\ IF mode = 5 THEN \A r \in Ranks : Cardinality(cohort[r]) = set_size_policy
                ELSE /\ \A r \in Ranks : Cardinality(cohort[r]) \in {2, 3}
                     /\ Cardinality({r \in Ranks : Cardinality(cohort[r]) = 3}) = 3 * Odd(comm_size)
  <2>1. comm_size \in Nat /\ comm_size >= 2 /\ mode \in {1, 5}
    BY <1>1 DEF Steady
  <2>2. \A r \in Ranks : cohort[r] = create_cohort(r)
    BY <1>1 DEF Steady
  <2>3. CASE mode = 1
    <3>1. PICK s \in Nat : s > 0 /\ \A r \in Ranks : create_cohort(r) = BuddyCohort(r, comm_size, s)
      BY <1>1, <2>3, OneSeparation
    <3>2. \A r \in Ranks : cohort[r] = BuddyCohort(r, comm_size, s)
      BY <2>2, <3>1
    <3>3. ASSUME NEW r \in Ranks
          PROVE  /\ cohort[r] \subseteq Ranks /\ \A q \in cohort[r] : cohort[q] = cohort[r]
                 /\ Cardinality(cohort[r]) = IF r \in Trio(comm_size) THEN 3 ELSE 2
      <4>1. r \in 0 .. comm_size - 1
        BY DEF Ranks
      <4>2. BuddyCohort(r, comm_size, s) \subseteq Ranks
        BY <2>1, <3>1, <4>1, BuddyCohorts DEF Ranks
      <4>3. \A q \in BuddyCohort(r, comm_size, s) : BuddyCohort(q, comm_size, s) = BuddyCohort(r, comm_size, s)
        BY <2>1, <3>1, <4>1, BuddyCohorts
      <4>4. Cardinality(BuddyCohort(r, comm_size, s)) = IF r \in Trio(comm_size) THEN 3 ELSE 2
        BY <2>1, <3>1, <4>1, BuddyCohorts
      <4>5. QED
        BY <3>2, <4>2, <4>3, <4>4
    <3>4. {r \in Ranks : Cardinality(cohort[r]) = 3} = Trio(comm_size)
      <4>1. Trio(comm_size) \subseteq Ranks
        BY <2>1, Trios DEF Ranks
      <4>2. QED
        BY <3>3, <4>1
    <3>5. Cardinality({r \in Ranks : Cardinality(cohort[r]) = 3}) = 3 * Odd(comm_size)
      BY <2>1, <3>4, Trios
    <3>6. QED
      BY <2>3, <3>3, <3>5
  <2>4. CASE mode = 5
    <3>1. /\ policy_sep \in Nat /\ policy_sep > 0 /\ set_size_policy \in Nat /\ set_size_policy > 0
          /\ Fills(comm_size, policy_sep, set_size_policy)
      BY <1>1, <2>4, OneColumnWidth
    <3>2. \A r \in Ranks : cohort[r] = ParityCohort(r, comm_size, policy_sep, set_size_policy)
      BY <1>1, <2>2, <2>4, OneColumnWidth
    <3>3. ASSUME NEW r \in Ranks
          PROVE  /\ cohort[r] \subseteq Ranks /\ \A q \in cohort[r] : cohort[q] = cohort[r]
                 /\ Cardinality(cohort[r]) = set_size_policy
      <4>1. r \in 0 .. comm_size - 1
        BY DEF Ranks
      <4>2. PICK C : C = ParityCohort(r, comm_size, policy_sep, set_size_policy)
        OBVIOUS
      <4>3. C \subseteq Ranks
        BY <2>1, <3>1, <4>1, <4>2, ParityCohorts DEF Ranks
      <4>4. \A q \in C : ParityCohort(q, comm_size, policy_sep, set_size_policy) = C
        BY <2>1, <3>1, <4>1, <4>2, ParityCohorts
      <4>5. Cardinality(C) = set_size_policy
        BY <2>1, <3>1, <4>1, <4>2, ParityCohorts
      <4>6. QED
        BY <3>2, <4>2, <4>3, <4>4, <4>5
    <3>4. QED
      BY <2>4, <3>3
  <2>5. QED
    BY <2>1, <2>3, <2>4
<1>2. Steady => CohortsPartition
  BY <1>1 DEF CohortsPartition
<1>3. QED
  BY <1>2, AlwaysSteady, PTL

\* Partners are the separation of their IMRGroup apart, or half the communicator if that
\* is less, so that IMRGroup::create_cohort keeps copies as far as the application asked.
THEOREM PartnersAlwaysApart == Spec => []PartnersApart
<1>1. ASSUME Steady, cohort # <<>>, Sensible, NEW r \in Ranks, NEW q \in cohort[r] \ {r}
      PROVE  (IF q > r THEN q - r ELSE r - q) >= Min({rank_separation[r], comm_size \div 2})
  <2>1. comm_size \in Nat /\ comm_size >= 2 /\ mode \in {1, 5} /\ r \in 0 .. comm_size - 1
    BY <1>1 DEF Steady, Ranks
  <2>2. cohort[r] = create_cohort(r)
    BY <1>1 DEF Steady
  <2>3. PICK m \in Nat : m = comm_size \div 2 /\ m = Mid(comm_size)
    BY <2>1, Halves DEF Mid
  <2>4. PICK a \in Nat : a = rank_separation[r]
    BY <1>1 DEF Steady, Suits
  <2>5. q \in 0 .. comm_size - 1 /\ (Far(r, q, a) \/ Far(r, q, m))
    <3>1. CASE mode = 1
      <4>1. PICK s \in Nat : s > 0 /\ create_cohort(r) = BuddyCohort(r, comm_size, s) /\ (s = a \/ s = m)
        BY <1>1, <2>3, <2>4, <3>1, OneSeparation
      <4>2. q \in BuddyCohort(r, comm_size, s) \ {r}
        BY <1>1, <2>2, <4>1
      <4>3. BuddyCohort(r, comm_size, s) \subseteq 0 .. comm_size - 1
        BY <2>1, <4>1, BuddyCohorts
      <4>4. Far(r, q, s) \/ Far(r, q, Mid(comm_size))
        BY <2>1, <4>1, <4>2, BuddyCohorts
      <4>5. QED
        BY <2>3, <4>1, <4>2, <4>3, <4>4
    <3>2. CASE mode = 5
      <4>1. /\ policy_sep \in Nat /\ policy_sep > 0 /\ set_size_policy \in Nat /\ set_size_policy > 0
            /\ Fills(comm_size, policy_sep, set_size_policy)
        BY <1>1, <3>2, OneColumnWidth
      <4>2. /\ create_cohort(r) = ParityCohort(r, comm_size, policy_sep, set_size_policy)
            /\ a = policy_sep
        BY <1>1, <2>4, <3>2, OneColumnWidth
      <4>3. ParityCohort(r, comm_size, policy_sep, set_size_policy) \subseteq 0 .. comm_size - 1
        BY <2>1, <4>1, ParityCohorts
      <4>4. \A p \in ParityCohort(r, comm_size, policy_sep, set_size_policy) \ {r} : Far(r, p, policy_sep)
        BY <2>1, <4>1, ParityCohorts
      <4>5. QED
        BY <1>1, <2>2, <4>2, <4>3, <4>4
    <3>3. QED
      BY <2>1, <3>1, <3>2
  <2>6. r \in Int /\ q \in Int /\ q # r
    BY <1>1, <2>1, <2>5
  <2>7. (IF q > r THEN q - r ELSE r - q) >= Min({a, m})
    <3>1. a \in Int /\ m \in Int /\ a >= 0 /\ m >= 0 /\ (Far(r, q, a) \/ Far(r, q, m))
      BY <2>5
    <3>2. QED
      BY <2>6, <3>1, FarFromMin, Zenon
  <2>8. QED
    BY <2>3, <2>4, <2>7
<1>2. Steady => PartnersApart
  BY <1>1 DEF PartnersApart
<1>3. QED
  BY <1>2, AlwaysSteady, PTL

=============================================================================
