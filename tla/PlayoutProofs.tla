---------------------------- MODULE PlayoutProofs ----------------------------
(***************************************************************************)
(* Proofs about Playout, for every ring, depth, window and tick.  The      *)
(* inductive invariant has a part for each promise: the dry quanta are     *)
(* accounted for (DryInv), the sound of an episode is heard or in the ring *)
(* (SoundInv), a packet that was not seen yet is known to be (QuietInv),   *)
(* and the age of the window is backed by credit (CreditInv).              *)
(***************************************************************************)
EXTENDS Playout, TLAPS

(* The dry quanta in a row are among those dry_quanta counts. *)
DryInv == streaming => dryRun \leq dry

(* The base depth an episode opened on has been heard or is still there. *)
SoundInv == streaming => heard + fill \geq Base

(* last_progress is no older than the last packet, once it was looked at. *)
QuietInv == ~packetIn => progress \leq quiet

(* The window's age is backed by as much credit, up to all there is to
   give back. *)
CreditInv ==
  /\ credit \geq 0
  /\ age # NoWindow => credit \geq Smaller(Step * age, MaxCredit)

PlayoutInv == TypeOK /\ DryInv /\ SoundInv /\ QuietInv /\ CreditInv

-----------------------------------------------------------------------------
(* Arithmetic of the decay. *)

(* A product of naturals is a natural. *)
LEMMA ProductIsNat ==
  ASSUME NEW a \in Nat, NEW b \in Nat
  PROVE  a * b \in Nat
BY SMT

(* Multiplication by a natural keeps the order. *)
LEMMA ProductKeepsOrder ==
  ASSUME NEW a \in Nat, NEW b \in Int, NEW c \in Int, b \leq c
  PROVE  a * b \leq a * c
BY SMT

(* The credit there is to spend is that of the whole band. *)
LEMMA MaxCreditIsNat == MaxCredit \in Nat
<1>1. MaxTarget - Base \in Nat
  BY DepthAssumption
<1> QED BY <1>1, ProductIsNat, DepthAssumption DEF MaxCredit

(* A window of a ticks is the steps it earned and the rest. *)
LEMMA WindowDivides ==
  ASSUME NEW a \in Nat
  PROVE  /\ Steps(a) \in Nat
         /\ Remainder(a) \in 0 .. Window - 1
         /\ a = Window * Steps(a) + Remainder(a)
BY DepthAssumption DEF Steps, Remainder

(* Lowering a depth t by n steps, not below the base, costs the credit of
   at most n windows, and at most all the credit there is. *)
LEMMA DecayCost ==
  ASSUME NEW t \in Base .. MaxTarget, NEW n \in Nat,
         NEW low, low = IF n > 0 THEN Larger(t - n * Step, Base) ELSE t
  PROVE  /\ low \in Base .. t
         /\ Window * (t - low) \in Nat
         /\ Window * (t - low) \leq Step * (Window * n)
         /\ Window * (t - low) \leq MaxCredit
<1>1. n * Step \in Nat /\ (n = 0 => n * Step = 0)
  BY ProductIsNat, DepthAssumption
<1>2. low \in Base .. t /\ t - low \leq n * Step
  BY <1>1, DepthAssumption DEF Larger
<1>3. t - low \in Nat /\ t - low \leq MaxTarget - Base
  BY <1>2, DepthAssumption
<1>4. Window * (t - low) \leq Window * (n * Step)
  BY <1>1, <1>2, <1>3, ProductKeepsOrder, DepthAssumption
<1>5. Window * (n * Step) = Step * (Window * n)
  BY DepthAssumption
<1>6. Window * (t - low) \leq MaxCredit
  BY <1>3, ProductKeepsOrder, DepthAssumption DEF MaxCredit
<1>7. Window * (t - low) \in Nat
  BY <1>3, ProductIsNat, DepthAssumption
<1> QED BY <1>2, <1>4, <1>5, <1>6, <1>7

(* The step that gives depth back keeps the window backed: a window aged a
   and d ticks more has earned Steps(a + d) steps; what they cost leaves
   credit for the remainder. *)
LEMMA DecayIsBacked ==
  ASSUME NEW a \in 0 .. Window - 1, NEW d \in Nat, NEW c \in Int, NEW cost \in Nat,
         c \geq Smaller(Step * a, MaxCredit),
         cost \leq Step * (Window * Steps(a + d)),
         cost \leq MaxCredit,
         Steps(a + d) = 0 => cost = 0
  PROVE  c + Step * d - cost \geq Smaller(Step * Remainder(a + d), MaxCredit)
<1> DEFINE n == Steps(a + d)
           r == Remainder(a + d)
<1>1. n \in Nat /\ r \in 0 .. Window - 1 /\ a + d = Window * n + r /\ a \in Nat
  <2>1. a \in Nat /\ a + d \in Nat
    BY DepthAssumption
  <2> QED BY <2>1, WindowDivides
<1>2. Step * a \in Nat /\ Step * d \in Nat /\ Step * r \in Nat
      /\ Step * (Window * n) \in Nat /\ MaxCredit \in Nat
  BY <1>1, ProductIsNat, MaxCreditIsNat, DepthAssumption
<1>3. Step * a + Step * d = Step * (Window * n) + Step * r
  <2>1. Step * (a + d) = Step * (Window * n + r)
    BY <1>1
  <2>2. Step * (a + d) = Step * a + Step * d
    BY <1>1, DepthAssumption
  <2>3. Window * n \in Nat
    BY <1>1, ProductIsNat, DepthAssumption
  <2>4. Step * (Window * n + r) = Step * (Window * n) + Step * r
    BY <1>1, <2>3, DepthAssumption
  <2> QED BY <2>1, <2>2, <2>4
<1>4. CASE c \geq Step * a
  <2>1. c + Step * d - cost \geq Step * r
    <3> HIDE DEF r
    <3> QED BY <1>2, <1>3, <1>4
  <2> QED BY <2>1, <1>2 DEF Smaller
<1>5. CASE c \geq MaxCredit /\ n = 0
  BY <1>2, <1>5 DEF Smaller
<1>6. CASE c \geq MaxCredit /\ n \geq 1
  <2>1. Window * n \geq Window
    BY <1>6, <1>1, ProductKeepsOrder, DepthAssumption
  <2>2. d \geq r
    BY <2>1, <1>1, ProductIsNat, DepthAssumption
  <2>3. Step * d \geq Step * r
    BY <2>2, <1>1, ProductKeepsOrder, DepthAssumption
  <2>4. c + Step * d - cost \geq Step * r
    <3> HIDE DEF r, n
    <3> QED BY <1>2, <2>3, <1>6
  <2> QED BY <2>4, <1>2 DEF Smaller
<1> QED BY <1>1, <1>2, <1>4, <1>5, <1>6 DEF Smaller

-----------------------------------------------------------------------------
(* At the start the latch is closed and the window has no age. *)
LEMMA InitEstablishes ==
  ASSUME Init
  PROVE  PlayoutInv
<1>1. MaxCredit \in Nat
  BY MaxCreditIsNat
<1>2. TypeOK
  <2>1. /\ 0 \in 0 .. Capacity /\ 0 \in 0 .. DryReset - 1
        /\ 0 \in 0 .. MaxHeard /\ 0 \in 0 .. MaxDryRun /\ 0 \in 0 .. MaxQuiet
        /\ Base \in Base .. MaxTarget /\ 0 \in Int /\ 0 \leq MaxCredit
    BY <1>1, DepthAssumption, RingAssumption, TimingAssumption
    DEF MaxHeard, MaxDryRun, MaxQuiet
  <2> QED BY <2>1 DEF Init, TypeOK
<1>3. DryInv /\ SoundInv /\ QuietInv /\ CreditInv
  BY DEF Init, DryInv, SoundInv, QuietInv, CreditInv, NoWindow
<1> QED BY <1>2, <1>3 DEF PlayoutInv

(* A packet arrives: the ring's fill grows, and the watch has news. *)
LEMMA ArrivalKeeps ==
  ASSUME PlayoutInv, Arrival
  PROVE  PlayoutInv'
<1> USE DEF ringVars, latchVars, depthVars, peerVars
<1>1. ASSUME NEW n \in Frames, Push(n)
      PROVE  PlayoutInv'
  <2>1. n \in Nat
    BY RingAssumption
  <2>2. fill' \in fill .. Capacity
    BY <1>1, <2>1, RingAssumption DEF Push, PlayoutInv, TypeOK, Smaller
  <2>3. TypeOK'
    BY <1>1, <2>2, RingAssumption, TimingAssumption
    DEF Push, PlayoutInv, TypeOK, MaxQuiet, MaxCredit, MaxHeard, MaxDryRun
  <2>4. SoundInv'
    BY <1>1, <2>2, DepthAssumption, RingAssumption
    DEF Push, PlayoutInv, TypeOK, SoundInv, MaxHeard
  <2>5. DryInv' /\ QuietInv' /\ CreditInv'
    BY <1>1 DEF Push, PlayoutInv, DryInv, QuietInv, CreditInv, MaxCredit
  <2> QED BY <2>3, <2>4, <2>5 DEF PlayoutInv
<1>2. ASSUME Discard \/ Control
      PROVE  PlayoutInv'
  <2>1. TypeOK'
    <3>1. 0 \in 0 .. MaxQuiet
      BY TimingAssumption DEF MaxQuiet
    <3> QED BY <1>2, <3>1
            DEF Discard, Control, PlayoutInv, TypeOK, MaxQuiet, MaxCredit,
                MaxHeard, MaxDryRun
  <2>2. DryInv' /\ SoundInv' /\ QuietInv' /\ CreditInv'
    BY <1>2 DEF Discard, Control, PlayoutInv, DryInv, SoundInv, QuietInv,
                CreditInv, MaxCredit
  <2> QED BY <2>1, <2>2 DEF PlayoutInv
<1> QED BY <1>1, <1>2 DEF Arrival

(* What a quantum does to the ring: it takes what is there, if the latch is
   open, and an empty ring cannot open it. *)
LEMMA Quantum ==
  ASSUME TypeOK, NEW q \in Quanta, Hear(q)
  PROVE  /\ q \in Nat \ {0}
         /\ Popped(q) \in 0 .. fill /\ fill' = fill - Popped(q)
         /\ fill' \in 0 .. Capacity
         /\ heard' \in 0 .. MaxHeard /\ dryRun' \in 0 .. MaxDryRun
         /\ Popped(q) > 0 \/ ~Opens => dryRun' = 0
         /\ Opens /\ Popped(q) = 0 =>
              streaming /\ fill = 0 /\ heard' = heard
                /\ dryRun' \leq dryRun + 1
         /\ Opens /\ (streaming => heard + fill \geq Base) =>
              heard' + fill' \geq Base
<1>1. q \in Nat \ {0}
  BY RingAssumption
<1>2. fill \in Nat /\ heard \in 0 .. Base /\ dryRun \in 0 .. DryReset
      /\ target \in Nat /\ target \geq Base /\ Base \geq 1 /\ Base \in Nat
      /\ streaming \in BOOLEAN /\ fill \leq Capacity /\ Capacity \in Nat
      /\ DryReset \in Nat \ {0}
  BY DepthAssumption, RingAssumption, TimingAssumption
  DEF TypeOK, MaxHeard, MaxDryRun
<1>3. Popped(q) \in 0 .. fill /\ fill' = fill - Popped(q)
      /\ fill' \in 0 .. Capacity
  BY <1>1, <1>2 DEF Hear, Popped, Smaller
<1>4. heard' \in 0 .. MaxHeard /\ dryRun' \in 0 .. MaxDryRun
  BY <1>2, <1>3 DEF Hear, Smaller, MaxHeard, MaxDryRun
<1>5. Popped(q) > 0 \/ ~Opens => dryRun' = 0
  BY <1>3 DEF Hear
<1>6. Opens /\ Popped(q) = 0 =>
        streaming /\ fill = 0 /\ heard' = heard /\ dryRun' \leq dryRun + 1
  BY <1>1, <1>2 DEF Hear, Opens, Popped, Smaller, MaxHeard, MaxDryRun
<1>7. Opens /\ (streaming => heard + fill \geq Base) => heard' + fill' \geq Base
  BY <1>2, <1>3 DEF Hear, Opens, Smaller, MaxHeard
<1> QED BY <1>1, <1>3, <1>4, <1>5, <1>6, <1>7

(* A quantum: the latch, the dry count and the histories. *)
LEMMA CallbackKeeps ==
  ASSUME PlayoutInv, Callback
  PROVE  PlayoutInv'
<1> SUFFICES ASSUME NEW q \in Quanta,
                    Prebuffer(q) \/ PlayFull(q) \/ PlayPart(q)
                      \/ ConcealDry(q) \/ Underrun(q)
             PROVE  PlayoutInv'
  BY DEF Callback
<1> USE DEF ringVars, latchVars, depthVars, peerVars, arrivalVars
<1>1. TypeOK /\ Hear(q)
  BY DEF PlayoutInv, Prebuffer, PlayFull, PlayPart, ConcealDry, Underrun
<1>2. dry \in 0 .. DryReset - 1 /\ DryReset \in Nat \ {0} /\ dryRun \in Nat
  BY <1>1, TimingAssumption DEF TypeOK, MaxDryRun
<1>3. QuietInv' /\ CreditInv'
  BY DEF PlayoutInv, QuietInv, CreditInv, MaxCredit, Prebuffer, PlayFull,
         PlayPart, ConcealDry, Underrun
<1>4. dry' \in 0 .. DryReset - 1 /\ streaming' \in BOOLEAN
  <2>1. dry' \in {dry, 0} \/ (dry' = dry + 1 /\ dry + 1 < DryReset)
    BY DEF Concealed, Prebuffer, PlayFull, PlayPart, ConcealDry, Underrun
  <2>2. dry' \in 0 .. DryReset - 1
    BY <2>1, <1>2
  <2>3. streaming' \in {streaming, TRUE, FALSE}
    BY DEF Prebuffer, PlayFull, PlayPart, ConcealDry, Underrun
  <2>4. streaming \in BOOLEAN
    BY <1>1 DEF TypeOK
  <2> QED BY <2>2, <2>3, <2>4
<1>5. TypeOK'
  BY <1>1, <1>4, Quantum
  DEF TypeOK, MaxCredit, MaxHeard, MaxDryRun, MaxQuiet, Prebuffer, PlayFull,
      PlayPart, ConcealDry, Underrun
<1>6. DryInv'
  <2>1. CASE Prebuffer(q)
    BY <2>1 DEF Prebuffer, Opens, DryInv
  <2>2. CASE PlayFull(q) \/ PlayPart(q)
    <3>1. Popped(q) > 0
      BY <2>2, <1>1, Quantum DEF PlayFull, PlayPart
    <3> QED BY <3>1, <1>1, <1>4, Quantum DEF DryInv
  <2>3. CASE ConcealDry(q)
    <3>1. streaming /\ dryRun' \leq dryRun + 1 /\ dry' = dry + 1
      BY <2>3, <1>1, Quantum DEF ConcealDry
    <3>2. dryRun' \in Nat
      BY <1>5, <1>2 DEF TypeOK, MaxDryRun
    <3> QED BY <3>1, <3>2, <1>2 DEF PlayoutInv, DryInv
  <2>4. CASE Underrun(q)
    BY <2>4 DEF Underrun, DryInv
  <2> QED BY <2>1, <2>2, <2>3, <2>4
<1>7. SoundInv'
  <2>1. CASE Prebuffer(q)
    BY <2>1 DEF Prebuffer, Opens, SoundInv
  <2>2. CASE PlayFull(q) \/ PlayPart(q) \/ ConcealDry(q)
    <3>1. Opens
      BY <2>2 DEF PlayFull, PlayPart, ConcealDry
    <3> QED BY <3>1, <1>1, Quantum DEF PlayoutInv, SoundInv
  <2>3. CASE Underrun(q)
    BY <2>3 DEF Underrun, SoundInv
  <2> QED BY <2>1, <2>2, <2>3
<1> QED BY <1>3, <1>5, <1>6, <1>7 DEF PlayoutInv

(* The depth after a tick, and the credit that backs its window. *)
LEMMA ControllerKeeps ==
  ASSUME PlayoutInv, Controller
  PROVE  PlayoutInv'
<1> SUFFICES ASSUME NEW d \in 1 .. MaxLate, Tick(d)
             PROVE  PlayoutInv'
  BY DEF Controller
<1> DEFINE raised == IF unseen THEN Smaller(target + Rise, MaxTarget) ELSE target
           aged == IF age = NoWindow THEN NoWindow ELSE age + d
           window == IF unseen THEN Restart(aged) ELSE aged
           steps == IF audioIn /\ window # NoWindow THEN Steps(window) ELSE 0
           idle == IF progress = NoWindow THEN NoWindow
                                          ELSE Smaller(progress + d, StaleAfter)
           clean == IF unseen \/ ~audioIn THEN 0 ELSE credit + Step * d
<1>1. /\ target' = IF steps > 0 THEN Larger(raised - steps * Step, Base)
                                ELSE raised
      /\ age' = IF ~audioIn THEN NoWindow
                ELSE IF window = NoWindow THEN 0 ELSE Remainder(window)
      /\ credit' = Smaller(clean - Window * (raised - target'), MaxCredit)
      /\ progress' = IF packetIn THEN 0 ELSE idle
      /\ stale' = (progress' \geq StaleAfter)
      /\ quiet' = Smaller(quiet + d, MaxQuiet)
      /\ unseen' = FALSE /\ audioIn' = FALSE /\ packetIn' = FALSE
      /\ UNCHANGED <<ringVars, latchVars>>
  BY DEF Tick, Progressed, Discarded
<1>2. d \in Nat \ {0}
  BY DepthAssumption
<1>3. /\ target \in Base .. MaxTarget /\ age \in {NoWindow} \cup 0 .. Window - 1
      /\ credit \in Int /\ credit \geq 0
      /\ age # NoWindow => credit \geq Smaller(Step * age, MaxCredit)
      /\ unseen \in BOOLEAN /\ audioIn \in BOOLEAN
  BY DEF PlayoutInv, TypeOK, CreditInv
<1>4. MaxCredit \in Nat /\ Step * d \in Nat
  BY MaxCreditIsNat, ProductIsNat, <1>2, DepthAssumption
<1>5. raised \in Base .. MaxTarget
  BY <1>3, DepthAssumption DEF Smaller
<1>6. window \in {NoWindow} \cup Nat
  BY <1>2, <1>3, DepthAssumption DEF NoWindow, Restart
<1>7. steps \in Nat /\ (window \notin Nat => steps = 0)
  <2>1. CASE window \in Nat
    BY <2>1, WindowDivides
  <2>2. CASE window = NoWindow
    BY <2>2 DEF NoWindow
  <2> QED BY <1>6, <2>1, <2>2
<1>8. /\ target' \in Base .. raised
      /\ Window * (raised - target') \in Nat
      /\ Window * (raised - target') \leq Step * (Window * steps)
      /\ Window * (raised - target') \leq MaxCredit
  <2> HIDE DEF raised, steps
  <2> QED BY <1>1, <1>5, <1>7, DecayCost
<1>9. target' \in Base .. MaxTarget
  BY <1>5, <1>8, DepthAssumption
<1>10. age' \in {NoWindow} \cup 0 .. Window - 1
  <2>1. age' \in {NoWindow, 0}
          \/ (window \in Nat /\ age' = Remainder(window))
    <3> HIDE DEF window
    <3> QED BY <1>1, <1>6
  <2>2. window \in Nat => Remainder(window) \in 0 .. Window - 1
    <3> HIDE DEF window
    <3> QED BY WindowDivides
  <2>3. 0 \in 0 .. Window - 1
    BY DepthAssumption
  <2> HIDE DEF window
  <2> QED BY <2>1, <2>2, <2>3
<1>11. steps = 0 => target' = raised /\ Window * (raised - target') = 0
  <2>1. ASSUME steps = 0
        PROVE  target' = raised /\ Window * (raised - target') = 0
    <3> HIDE DEF raised, steps
    <3>1. target' = raised
      BY <1>1, <2>1
    <3>2. raised - target' = 0
      BY <3>1, <1>5, DepthAssumption
    <3> QED BY <3>1, <3>2, DepthAssumption
  <2> QED BY <2>1
<1>12. credit' \in Int /\ credit' \leq MaxCredit /\ CreditInv'
  <2> DEFINE cost == Window * (raised - target')
  <2>1. cost \in Nat /\ credit' = Smaller(clean - cost, MaxCredit)
    BY <1>1, <1>8
  <2>2. Step * 0 = 0 /\ Steps(0) = 0 /\ Remainder(0) = 0
    BY DepthAssumption DEF Steps, Remainder
  <2>3. CASE unseen \/ ~audioIn
    <3>1. clean = 0 /\ steps = 0 /\ age' \in {NoWindow, 0}
      BY <2>3, <1>1, <1>3, <2>2 DEF Restart
    <3>2. credit' = 0
      <4> HIDE DEF clean, steps, raised
      <4> QED BY <3>1, <2>1, <1>4, <1>11 DEF Smaller
    <3> QED BY <3>1, <3>2, <2>2, <1>4 DEF CreditInv, Smaller
  <2>4. CASE ~unseen /\ audioIn /\ age = NoWindow
    <3>1. clean = credit + Step * d /\ steps = 0 /\ age' = 0
      BY <2>4, <1>1
    <3>2. credit' = Smaller(credit + Step * d, MaxCredit)
      <4> HIDE DEF clean, steps, raised
      <4> QED BY <3>1, <2>1, <1>3, <1>4, <1>11
    <3> QED BY <3>1, <3>2, <2>2, <1>3, <1>4 DEF CreditInv, Smaller
  <2>5. CASE ~unseen /\ audioIn /\ age # NoWindow
    <3>1. age \in 0 .. Window - 1 /\ age \in Nat /\ age + d \in Nat
      BY <2>5, <1>2, <1>3, DepthAssumption
    <3>2. age + d # NoWindow
      BY <3>1 DEF NoWindow
    <3>3. clean = credit + Step * d /\ steps = Steps(age + d)
          /\ age' = Remainder(age + d)
      BY <2>5, <3>2, <1>1
    <3>4. credit + Step * d - cost \geq Smaller(Step * age', MaxCredit)
      <4>1. /\ cost \leq Step * (Window * Steps(age + d))
            /\ cost \leq MaxCredit
            /\ Steps(age + d) = 0 => cost = 0
        BY <1>8, <1>11, <3>3
      <4>2. credit \in Int /\ credit \geq Smaller(Step * age, MaxCredit)
            /\ d \in Nat
        BY <1>2, <1>3, <2>5
      <4> HIDE DEF cost
      <4> QED BY <2>1, <3>1, <3>3, <4>1, <4>2, DecayIsBacked
    <3>5. Remainder(age + d) \in 0 .. Window - 1
      BY <3>1, WindowDivides
    <3>6. age' \in Nat
      BY <3>3, <3>5, DepthAssumption
    <3>7. Step * age' \in Nat
      BY <3>6, ProductIsNat, DepthAssumption
    <3>8. credit' = Smaller(credit + Step * d - cost, MaxCredit)
      <4>1. clean = credit + Step * d
        BY <3>3
      <4> HIDE DEF raised, aged, window, steps, idle, clean, cost
      <4>2. clean - cost = credit + Step * d - cost
        BY <2>1, <4>1, <1>3, <1>4
      <4> QED BY <2>1, <4>2
    <3> HIDE DEF cost
    <3> QED BY <2>1, <3>4, <3>7, <3>8, <1>3, <1>4 DEF CreditInv, Smaller
  <2> QED BY <2>3, <2>4, <2>5, <1>3
<1>13. /\ progress' \in {NoWindow} \cup 0 .. StaleAfter
       /\ quiet' \in 0 .. MaxQuiet /\ stale' \in BOOLEAN /\ QuietInv'
  <2>1. /\ progress \in {NoWindow} \cup 0 .. StaleAfter
        /\ quiet \in 0 .. StaleAfter /\ StaleAfter \in Nat
        /\ packetIn \in BOOLEAN
        /\ ~packetIn => progress \leq quiet
    BY TimingAssumption DEF PlayoutInv, TypeOK, QuietInv, MaxQuiet
  <2>2. quiet' \in 0 .. MaxQuiet
    BY <1>1, <1>2, <2>1 DEF Smaller, MaxQuiet
  <2>3. progress' \in {NoWindow} \cup 0 .. StaleAfter
    BY <1>1, <1>2, <2>1 DEF Smaller, NoWindow
  <2>4. progress' \leq quiet'
    BY <1>1, <1>2, <2>1 DEF Smaller, NoWindow, MaxQuiet
  <2>5. stale' \in BOOLEAN
    BY <1>1
  <2> QED BY <2>2, <2>3, <2>4, <2>5 DEF QuietInv
<1>14. TypeOK'
  <2> HIDE DEF raised, aged, window, steps, idle, clean
  <2>1. <<ringVars, latchVars>>' = <<ringVars, latchVars>>
    BY <1>1
  <2>2. unseen' \in BOOLEAN /\ audioIn' \in BOOLEAN /\ packetIn' \in BOOLEAN
    BY <1>1
  <2> QED BY <2>1, <2>2, <1>9, <1>10, <1>12, <1>13
          DEF PlayoutInv, TypeOK, ringVars, latchVars, MaxCredit, MaxHeard,
              MaxDryRun, MaxQuiet
<1>15. DryInv' /\ SoundInv'
  <2> HIDE DEF raised, aged, window, steps, idle, clean
  <2> QED BY <1>1 DEF PlayoutInv, DryInv, SoundInv, ringVars, latchVars
<1> QED BY <1>12, <1>13, <1>14, <1>15 DEF PlayoutInv

(* The invariant of every behaviour. *)
THEOREM Invariance == Spec => []PlayoutInv
<1>1. PlayoutInv /\ [Next]_vars => PlayoutInv'
  <2> SUFFICES ASSUME PlayoutInv, [Next]_vars
               PROVE  PlayoutInv'
    OBVIOUS
  <2>1. CASE Next
    BY <2>1, ArrivalKeeps, CallbackKeeps, ControllerKeeps DEF Next
  <2>2. CASE UNCHANGED vars
    BY <2>2 DEF PlayoutInv, TypeOK, DryInv, SoundInv, QuietInv, CreditInv,
                MaxCredit, MaxHeard, MaxDryRun, MaxQuiet, vars, ringVars,
                latchVars, depthVars, peerVars, arrivalVars
  <2> QED BY <2>1, <2>2
<1>2. Init => PlayoutInv
  BY InitEstablishes
<1> QED BY <1>1, <1>2, PTL DEF Spec

-----------------------------------------------------------------------------
(* The types hold, and with them the band of the depth: the target that the
   controller stores for the callbacks is never below base_ms nor above the
   ceiling. *)
THEOREM TypeCorrect == Spec => []TypeOK
<1>1. PlayoutInv => TypeOK
  BY DEF PlayoutInv
<1> QED BY <1>1, Invariance, PTL

(* on_tick lowers the target only for clean, flowing time that was not spent
   on an earlier step, however late the ticks come. *)
THEOREM DecayEarned == Spec => []DecayIsEarned
<1>1. PlayoutInv => DecayIsEarned
  BY DEF PlayoutInv, CreditInv, DecayIsEarned
<1> QED BY <1>1, Invariance, PTL

(* process_callback never conceals DRY_RESET_QUANTA dry quanta in a row:
   the latch has dropped by then. *)
THEOREM ConcealmentEnds == Spec => []DryIsNotConcealedLong
<1>1. PlayoutInv => DryIsNotConcealedLong
  BY TimingAssumption
  DEF PlayoutInv, TypeOK, DryInv, DryIsNotConcealedLong, MaxDryRun
<1> QED BY <1>1, Invariance, PTL

(* The latch closes only after the base depth was heard, whatever the
   controller did to the target in between: at an underrun the ring is
   empty, so all the sound the episode opened on has been played. *)
THEOREM EpisodesAreHeard == Spec => EpisodeIsHeard
<1>1. PlayoutInv /\ [Next]_vars => [streaming /\ ~streaming' => heard' \geq Base]_vars
  <2> SUFFICES ASSUME PlayoutInv, Next, streaming, ~streaming'
               PROVE  heard' \geq Base
    BY DEF vars, latchVars
  <2>1. PICK q \in Quanta : Underrun(q)
    BY DEF Next, Arrival, Push, Discard, Control, Controller, Tick, Callback,
           Prebuffer, PlayFull, PlayPart, ConcealDry, latchVars, Opens
  <2>2. heard' = heard /\ fill = 0
    BY <2>1, Quantum DEF PlayoutInv, Underrun
  <2>3. heard + fill \geq Base /\ heard \in Nat
    BY DepthAssumption DEF PlayoutInv, SoundInv, TypeOK, MaxHeard
  <2> QED BY <2>2, <2>3
<1> QED BY <1>1, Invariance, PTL DEF Spec, EpisodeIsHeard

(* spawn_depth_controller raises peer_stale only after PEER_STALE_AFTER
   without any packet: the packets it has not seen are in its counter. *)
THEOREM TalkerIsNotStale == Spec => StaleOnlyWhenQuiet
<1>1. PlayoutInv /\ PlayoutInv' /\ [Next]_vars =>
        [~stale /\ stale' => quiet' \geq StaleAfter]_vars
  <2> SUFFICES ASSUME PlayoutInv, PlayoutInv', Next, ~stale, stale'
               PROVE  quiet' \geq StaleAfter
    BY DEF vars, peerVars
  <2>1. PICK d \in 1 .. MaxLate : Tick(d)
    BY DEF Next, Arrival, Push, Discard, Control, Controller, Callback,
           Prebuffer, PlayFull, PlayPart, ConcealDry, Underrun, peerVars
  <2>2. progress' \geq StaleAfter /\ ~packetIn'
    BY <2>1 DEF Tick
  <2>3. progress' \leq quiet'
    BY <2>2 DEF PlayoutInv, QuietInv
  <2>4. progress' \in Int /\ quiet' \in Int /\ StaleAfter \in Int
    BY TimingAssumption DEF PlayoutInv, TypeOK, NoWindow, MaxQuiet
  <2> QED BY <2>2, <2>3, <2>4
<1> QED BY <1>1, Invariance, PTL DEF Spec, StaleOnlyWhenQuiet
=============================================================================
