---------------------------- MODULE HandlingProofs ----------------------------
(***************************************************************************)
(* A failure always gets back to the application in good order, for any     *)
(* callbacks, logs and settings and any number of failures in calls, in     *)
(* callbacks and in synchronisations, however deeply they nest.             *)
(***************************************************************************)
EXTENDS Handling, SequenceTheorems, TLAPS

CallKinds == {"plain", "send", "wait", "coll", "invoke", "detect", "probe"}
Hows      == {"ok", "error", "throw", "jump", "unhandled", "aborted"}

FrameFields ==
  [kind     : {"call", "invoke", "handler", "sync"},
   what     : CallKinds \cup {"between", "running", "sync"} \cup Log,
   layer    : Nat,
   next     : Nat \ {0},
   settings : Modes,
   mlog     : Log \cup {NoLog}]

Frames == {f \in FrameFields : f.kind = "sync" => f.what \in Log}

Typed ==
  /\ settings \in Modes /\ chosen \in Modes
  /\ cbs \in Seq(Callback) /\ ran \in Seq(Callback)
  /\ order \in Seq(Log) /\ synced \in Seq(Log)
  /\ active \in Log \cup {NoLog} /\ wanted \in Log \cup {NoLog}
  /\ depth \in Nat /\ exc \in BOOLEAN /\ stack \in Seq(Frames)
  /\ outcome \in [how : Hows, logged : BOOLEAN, resume : {"jump", "return", "throw"}]

Aborted == outcome.how = "aborted"
Height  == Len(stack)

\* The application's call is at the bottom; a handler is not entered from a handler.
Shape ==
  stack # << >> =>
    /\ ~Aborted
    /\ stack[1].kind = "call" /\ stack[1].what \in CallKinds
    /\ \A k \in 2 .. Height : stack[k].kind # "call"
    /\ \A k \in 3 .. Height : stack[k].kind = "handler" => stack[k - 1].kind # "handler"
    /\ stack[1].what = "probe" => Height = 1

(***************************************************************************)
(* The settings in force in the k-th call under way: those of the           *)
(* application as long as neither its call nor one above it has runtime     *)
(* options of its own, which only its own handler has not.                  *)
(***************************************************************************)
Raw(k) ==
  stack[1].what \in {"plain", "send", "wait"} /\ (k = 1 \/ (k = 2 /\ stack[2].kind = "handler"))

InForce(k) ==
  IF stack[1].what = "probe" THEN [Runtime(chosen) EXCEPT !.recovery = "ignore"]
  ELSE IF Raw(k) THEN chosen ELSE Runtime(chosen)

\* Every call under way puts back what was in force in the one below.
Scopes ==
  /\ (stack = << >> /\ ~Aborted) => settings = chosen /\ ~exc /\ depth = 0
  /\ stack # << >> =>
       /\ stack[1].settings = chosen
       /\ \A k \in 2 .. Height : stack[k].settings = InForce(k - 1)
       /\ settings = InForce(Height)

(***************************************************************************)
(* callbacks_depth: the outermost callback_invoke_all under way, and only   *)
(* it, is the one that resets it; only the innermost call under way can be  *)
(* the most recent callback_invoke_all.                                     *)
(***************************************************************************)
Invoking(k) == stack[k].kind = "invoke"

Layers ==
  stack # << >> =>
    /\ depth = 0 <=> \A k \in 1 .. Height : ~Invoking(k)
    /\ \A k \in 1 .. Height : Invoking(k) => (stack[k].layer = 0 <=> \A j \in 1 .. k - 1 : ~Invoking(j))
    /\ \A k \in 1 .. Height : Invoking(k) =>
         stack[k].layer + 1 <= depth /\ (k < Height => stack[k].layer + 1 < depth)

(***************************************************************************)
(* While the most recent callback_invoke_all is under way it has run the    *)
(* callbacks up to its position, and no exception is on its way; after it,  *)
(* all of them have run.                                                    *)
(***************************************************************************)
Finishing == stack # << >> /\ Invoking(Height) /\ MostRecent

Recent ==
  (~Aborted /\ chosen.recovery # "ignore") =>
    IF Finishing
    THEN /\ ~exc /\ Top.what \in {"between", "running"}
         /\ Top.next <= IF Top.what = "running" THEN Len(cbs) ELSE Len(cbs) + 1
         /\ ran = SubSeq(cbs, 1, IF Top.what = "running" THEN Top.next ELSE Top.next - 1)
    ELSE ran = cbs

(***************************************************************************)
(* All logs are synchronised, or the handler of the last repair is under    *)
(* way, has synchronised those before its position, and will do the others: *)
(* an exception can reach it only after a later repair.                     *)
(***************************************************************************)
Full == ToSet(order) \subseteq ToSet(synced)

Partial(k) ==
  /\ k \in 2 .. Height /\ stack[k].kind = "handler" /\ ~exc
  /\ \A i \in DOMAIN order : i < stack[k].next => order[i] \in ToSet(synced)
  /\ chosen.recovery # "ignore" /\ chosen.mlog = "autosync"

Syncing ==
  ~Aborted =>
    \/ Full
    \/ Partial(Height)
    \/ /\ Partial(Height - 1)
       /\ \/ Top.kind = "invoke"
          \/ /\ Top.kind = "sync" /\ stack[Height - 1].next \in DOMAIN order
             /\ Top.what = order[stack[Height - 1].next]

HInv == Typed /\ Shape /\ Scopes /\ Layers /\ Recent /\ Syncing /\ UndisturbedIfThrown

-----------------------------------------------------------------------------
(* Settings *)

LEMMA RuntimeFacts ==
  ASSUME NEW s \in Modes
  PROVE  /\ Runtime(s) \in Modes /\ Runtime(Runtime(s)) = Runtime(s)
         /\ Runtime(s).resume = "throw" /\ Runtime(s).unhandled = "abort"
         /\ Runtime(s).recovery = s.recovery /\ Runtime(s).mlog = s.mlog /\ Runtime(s).cb = s.cb
         /\ [Runtime(s) EXCEPT !.recovery = "ignore"] \in Modes
         /\ [Runtime(s) EXCEPT !.recovery = "ignore"].resume = "throw"
         /\ [Runtime(s) EXCEPT !.recovery = "ignore"].unhandled = "abort"
         /\ [Runtime(s) EXCEPT !.recovery = "ignore"].recovery = "ignore"
         /\ [Runtime(s) EXCEPT !.recovery = "ignore"].mlog = s.mlog
BY DEF Modes, Runtime

\* What the settings in force tell about the calls under way.
LEMMA InForceFacts ==
  ASSUME HInv, stack # << >>
  PROVE  /\ Height \in Nat /\ Height >= 1 /\ Top = stack[Height] /\ Top \in Frames
         /\ \A k \in 1 .. Height : stack[k] \in Frames
         /\ \A k \in 1 .. Height :
              /\ InForce(k) \in Modes /\ InForce(k).mlog = chosen.mlog
              /\ Raw(k) => InForce(k) = chosen
              /\ ~Raw(k) => InForce(k).resume = "throw" /\ InForce(k).unhandled = "abort"
              /\ InForce(k).recovery = chosen.recovery \/ (InForce(k).recovery = "ignore" /\ Height = 1)
         /\ settings = InForce(Height) /\ ~Aborted
         /\ Height > 1 => Top.settings = InForce(Height - 1)
<1> USE DEF HInv, Typed, Height
<1>1. /\ Height \in Nat /\ Height >= 1 /\ Top = stack[Height] /\ Top \in Frames
      /\ \A k \in 1 .. Height : stack[k] \in Frames
  BY DEF Top, Last
<1>2. ASSUME NEW k \in 1 .. Height
      PROVE  /\ InForce(k) \in Modes /\ InForce(k).mlog = chosen.mlog
             /\ Raw(k) => InForce(k) = chosen
             /\ ~Raw(k) => InForce(k).resume = "throw" /\ InForce(k).unhandled = "abort"
             /\ InForce(k).recovery = chosen.recovery \/ (InForce(k).recovery = "ignore" /\ Height = 1)
  <2>1. CASE stack[1].what = "probe"
    BY <2>1, RuntimeFacts DEF InForce, Raw, Shape
  <2>2. CASE stack[1].what # "probe"
    BY <2>2, RuntimeFacts DEF InForce
  <2>3. QED
    BY <2>1, <2>2
<1>3. QED
  BY <1>1, <1>2 DEF Scopes, Shape

-----------------------------------------------------------------------------
(* Sequences *)

LEMMA FrontFacts ==
  ASSUME NEW S, NEW s \in Seq(S), s # << >>
  PROVE  /\ Front(s) \in Seq(S) /\ Len(Front(s)) = Len(s) - 1
         /\ \A k \in 1 .. Len(s) - 1 : Front(s)[k] = s[k]
<1>1. Len(s) \in Nat /\ Len(s) >= 1
  OBVIOUS
<1>2. SubSeq(s, 1, Len(s) - 1) \in Seq(S)
  BY <1>1
<1>3. Len(SubSeq(s, 1, Len(s) - 1)) = Len(s) - 1
  BY SMTT(30), <1>1
<1>4. \A k \in 1 .. Len(s) - 1 : SubSeq(s, 1, Len(s) - 1)[k] = s[k]
  BY <1>1
<1>5. QED
  BY <1>2, <1>3, <1>4 DEF Front

LEMMA ReplacedElement ==
  ASSUME NEW S, NEW s \in Seq(S), NEW i \in 1 .. Len(s), NEW x \in S
  PROVE  /\ [s EXCEPT ![i] = x] \in Seq(S) /\ Len([s EXCEPT ![i] = x]) = Len(s)
         /\ \A k \in 1 .. Len(s) : [s EXCEPT ![i] = x][k] = IF k = i THEN x ELSE s[k]
OBVIOUS

LEMMA RemovedElement ==
  ASSUME NEW S, NEW s \in Seq(S), NEW i \in DOMAIN s
  PROVE  RemoveAt(s, i) \in Seq(S)
<1>1. i \in 1 .. Len(s) /\ Len(s) \in Nat
  OBVIOUS
<1>2. SubSeq(s, 1, i - 1) \in Seq(S) /\ SubSeq(s, i + 1, Len(s)) \in Seq(S)
  BY <1>1
<1>3. QED
  BY <1>2 DEF RemoveAt

\* The frames that a call adds are frames, whatever is in force.
LEMMA FrameFacts ==
  ASSUME Typed, NEW kind \in {"call", "invoke", "handler", "sync"},
         NEW what \in CallKinds \cup {"between", "running", "sync"} \cup Log, NEW layer \in Nat,
         kind = "sync" => what \in Log
  PROVE  /\ Frame(kind, what, layer) \in Frames
         /\ Frame(kind, what, layer).kind = kind /\ Frame(kind, what, layer).what = what
         /\ Frame(kind, what, layer).layer = layer /\ Frame(kind, what, layer).next = 1
         /\ Frame(kind, what, layer).settings = settings /\ Frame(kind, what, layer).mlog = active
BY DEF Frame, Frames, FrameFields, Typed

\* A frame that goes on with the next log or the next callback.
LEMMA FrameChanged ==
  ASSUME NEW f \in Frames
  PROVE  /\ LET g == [f EXCEPT !.next = @ + 1]
            IN  /\ g \in Frames /\ g.kind = f.kind /\ g.layer = f.layer /\ g.settings = f.settings
                /\ g.mlog = f.mlog /\ g.what = f.what /\ g.next = f.next + 1
         /\ \A w \in {"running", "between"} :
              LET g == [f EXCEPT !.what = w]
              IN  /\ f.kind # "sync" => g \in Frames
                  /\ g.kind = f.kind /\ g.layer = f.layer /\ g.settings = f.settings
                  /\ g.mlog = f.mlog /\ g.what = w /\ g.next = f.next
<1>1. f \in FrameFields /\ (f.kind = "sync" => f.what \in Log)
  BY DEF Frames
<1>2. f.next + 1 \in Nat \ {0}
  BY <1>1 DEF FrameFields
<1>3. [f EXCEPT !.next = @ + 1] = [f EXCEPT !.next = f.next + 1]
  BY <1>1 DEF FrameFields
<1> DEFINE g == [f EXCEPT !.next = f.next + 1]
<1>4. /\ g.kind = f.kind /\ g.layer = f.layer /\ g.settings = f.settings
      /\ g.mlog = f.mlog /\ g.what = f.what /\ g.next = f.next + 1
  BY <1>1 DEF FrameFields
<1>5. g \in FrameFields
  BY <1>1, <1>2 DEF FrameFields
<1>6. g \in Frames
  BY <1>1, <1>4, <1>5 DEF Frames
<1> HIDE DEF g
<1>7. ASSUME NEW w \in {"running", "between"}
      PROVE  LET h == [f EXCEPT !.what = w]
             IN  /\ f.kind # "sync" => h \in Frames
                 /\ h.kind = f.kind /\ h.layer = f.layer /\ h.settings = f.settings
                 /\ h.mlog = f.mlog /\ h.what = w /\ h.next = f.next
  <2> DEFINE h == [f EXCEPT !.what = w]
  <2>1. /\ h.kind = f.kind /\ h.layer = f.layer /\ h.settings = f.settings
        /\ h.mlog = f.mlog /\ h.what = w /\ h.next = f.next
    BY <1>1 DEF FrameFields
  <2>2. h \in FrameFields
    BY <1>1 DEF FrameFields
  <2>3. f.kind # "sync" => h \in Frames
    BY <2>1, <2>2 DEF Frames
  <2>4. QED
    BY <2>1, <2>3
<1>8. QED
  BY <1>3, <1>4, <1>6, <1>7 DEF g

-----------------------------------------------------------------------------
(* The effect of a step on the calls under way *)

\* No call or only the innermost one ends; what the others save stays as it is.
LEMMA CallsKept ==
  ASSUME HInv, stack # << >>, NEW m \in {Height, Height - 1}, m >= 1,
         stack' \in Seq(Frames), Len(stack') = m,
         \A k \in 1 .. m : /\ stack'[k].kind = stack[k].kind /\ stack'[k].layer = stack[k].layer
                           /\ stack'[k].settings = stack[k].settings /\ stack'[k].mlog = stack[k].mlog,
         stack'[1].what = stack[1].what,
         settings' = InForce(m), chosen' = chosen, wanted' = wanted, outcome' = outcome,
         depth' = IF m < Height /\ Top.kind = "invoke" /\ Top.layer = 0 THEN 0 ELSE depth
  PROVE  /\ Shape' /\ Scopes' /\ Layers'
         /\ m < Height => ~Finishing'
<1> USE DEF Height
<1>1. /\ Height \in Nat /\ Height >= 1 /\ Top = stack[Height] /\ m \in Nat /\ Height' = m
      /\ stack' # << >> /\ \A k \in 1 .. Height : stack[k] \in Frames
      /\ depth \in Nat /\ \A k \in 1 .. Height : stack[k].layer \in Nat
  <2>1. \A k \in 1 .. Height : stack[k] \in Frames
    BY DEF HInv, Typed
  <2>2. QED
    BY SMTT(30), <2>1, InForceFacts DEF HInv, Typed, Frames, FrameFields
<1>2. \A k \in 1 .. m : InForce(k)' = InForce(k)
  BY <1>1 DEF InForce, Raw
<1>3. Shape'
  BY SMTT(30), <1>1 DEF HInv, Shape, Aborted
<1>4. Scopes'
  BY <1>1, <1>2 DEF HInv, Scopes, Aborted
<1>5. \A k \in 1 .. m : Invoking(k)' <=> Invoking(k)
  BY <1>1 DEF Invoking
<1> DEFINE L1 == depth = 0 <=> \A k \in 1 .. Height : ~Invoking(k)
           L2 == \A k \in 1 .. Height : Invoking(k) => (stack[k].layer = 0 <=> \A j \in 1 .. k - 1 : ~Invoking(j))
           L3 == \A k \in 1 .. Height : Invoking(k) =>
                   stack[k].layer + 1 <= depth /\ (k < Height => stack[k].layer + 1 < depth)
<1>6. L1 /\ L2 /\ L3 /\ (Layers' <=> L1' /\ L2' /\ L3')
  BY <1>1 DEF HInv, Layers
<1>7. L2'
  <2>1. ASSUME NEW k \in 1 .. m, Invoking(k)
        PROVE  stack'[k].layer = 0 <=> \A j \in 1 .. k - 1 : ~Invoking(j)'
    <3>1. k \in 1 .. Height /\ stack'[k].layer = stack[k].layer
      BY <1>1
    <3>2. stack[k].layer = 0 <=> \A j \in 1 .. k - 1 : ~Invoking(j)
      BY <1>6, <2>1, <3>1
    <3>3. \A j \in 1 .. k - 1 : Invoking(j)' <=> Invoking(j)
      BY <1>1, <1>5
    <3>4. QED
      BY <3>1, <3>2, <3>3
  <2>2. QED
    BY <1>1, <1>5, <2>1
<1>8. Layers' /\ (m < Height => ~Finishing')
  <2>1. CASE m = Height
    <3>1. L1'
      BY <1>1, <1>5, <1>6, <2>1
    <3>2. L3'
      BY <1>1, <1>5, <1>6, <2>1
    <3>3. QED
      BY <1>6, <1>7, <2>1, <3>1, <3>2
  <2>2. CASE m = Height - 1 /\ ~Invoking(Height)
    <3>1. depth' = depth
      BY <1>1, <2>2 DEF Invoking
    <3>2. Layers'
      <4>1. L1'
        <5>1. \A k \in 1 .. Height : k \in 1 .. m \/ k = Height
          BY <1>1, <2>2
        <5>2. (\A k \in 1 .. Height : ~Invoking(k)) <=> \A k \in 1 .. m : ~Invoking(k)
          BY <1>1, <2>2, <5>1
        <5>3. (\A k \in 1 .. m : ~Invoking(k)) <=> \A k \in 1 .. m : ~Invoking(k)'
          BY <1>5
        <5>4. QED
          BY <1>1, <1>6, <3>1, <5>2, <5>3
      <4>2. L3'
        <5>1. ASSUME NEW k \in 1 .. m, Invoking(k)
              PROVE  stack'[k].layer + 1 <= depth' /\ (k < m => stack'[k].layer + 1 < depth')
          <6>1. k \in 1 .. Height /\ k < Height /\ stack'[k].layer = stack[k].layer
            BY <1>1, <2>2
          <6>2. QED
            BY <1>6, <3>1, <5>1, <6>1
        <5>2. QED
          BY <1>1, <1>5, <5>1
      <4>3. QED
        BY <1>6, <1>7, <4>1, <4>2
    <3>3. Invoking(m) => stack[m].layer + 1 < depth
      BY <1>1, <2>2 DEF HInv, Layers
    <3>4. Top' = stack'[m]
      BY <1>1 DEF Top, Last
    <3>5. QED
      BY <1>1, <1>5, <2>2, <3>1, <3>2, <3>3, <3>4 DEF Finishing, MostRecent
  <2>3. CASE m = Height - 1 /\ Invoking(Height) /\ stack[Height].layer = 0
    <3>1. depth' = 0 /\ \A k \in 1 .. m : ~Invoking(k)
      BY <1>1, <2>3 DEF Invoking, HInv, Layers
    <3>2. QED
      BY <1>1, <1>5, <3>1 DEF Layers, Finishing
  <2>4. CASE m = Height - 1 /\ Invoking(Height) /\ stack[Height].layer # 0
    <3>1. depth' = depth
      BY <1>1, <2>4 DEF Invoking
    <3>2. PICK j \in 1 .. m : Invoking(j)
      BY <1>1, <2>4 DEF HInv, Layers
    <3>3. depth # 0
      BY <1>1, <2>4, <3>2 DEF HInv, Layers
    <3>4. Layers'
      <4>1. L1'
        BY <1>1, <1>5, <3>1, <3>2, <3>3
      <4>2. L3'
        <5>1. ASSUME NEW k \in 1 .. m, Invoking(k)
              PROVE  stack'[k].layer + 1 <= depth' /\ (k < m => stack'[k].layer + 1 < depth')
          <6>1. k \in 1 .. Height /\ k < Height /\ stack'[k].layer = stack[k].layer
            BY <1>1, <2>4
          <6>2. QED
            BY <1>6, <3>1, <5>1, <6>1
        <5>2. QED
          BY <1>1, <1>5, <5>1
      <4>3. QED
        BY <1>6, <1>7, <4>1, <4>2
    <3>5. Invoking(m) => stack[m].layer + 1 < depth
      BY <1>1, <2>4 DEF HInv, Layers
    <3>6. Top' = stack'[m]
      BY <1>1 DEF Top, Last
    <3>7. QED
      BY <1>1, <1>5, <2>4, <3>1, <3>4, <3>5, <3>6 DEF Finishing, MostRecent
  <2>5. QED
    BY <2>1, <2>2, <2>3, <2>4
<1>9. QED
  BY <1>3, <1>4, <1>8

\* While the application's own settings are in force no callback is under way.
LEMMA RawFacts ==
  ASSUME HInv, stack # << >>, NEW k \in 1 .. Height, Raw(k)
  PROVE  /\ InForce(k) = chosen /\ k <= 2 /\ \A j \in 1 .. k : ~Invoking(j)
         /\ k = Height => depth = 0
<1>1. /\ InForce(k) = chosen /\ k <= 2
  BY InForceFacts DEF Raw
<1>2. \A j \in 1 .. k : ~Invoking(j)
  <2>1. ~Invoking(1)
    BY DEF HInv, Shape, Invoking
  <2>2. QED
    BY <2>1, InForceFacts DEF Raw, Invoking
<1>3. ASSUME k = Height PROVE depth = 0
  BY <1>2, <1>3 DEF HInv, Layers
<1>4. QED
  BY <1>1, <1>2, <1>3

\* Outside the most recent callback_invoke_all all callbacks have run, and an
\* exception leaves nothing undone.
LEMMA Settled ==
  ASSUME HInv, ~Aborted
  PROVE  /\ ~Finishing => (chosen.recovery # "ignore" => ran = cbs)
         /\ exc => Full /\ (chosen.recovery # "ignore" => ran = cbs)
<1>1. ~Finishing => (chosen.recovery # "ignore" => ran = cbs)
  BY DEF HInv, Recent
<1>2. exc => Full
  BY DEF HInv, Syncing, Partial
<1>3. exc => (chosen.recovery # "ignore" => ran = cbs)
  BY DEF HInv, Recent
<1>4. QED
  BY <1>1, <1>2, <1>3

\* The application's call itself is the only one under way.
LEMMA BottomFacts ==
  ASSUME HInv, stack # << >>, Height = 1
  PROVE  /\ Top = stack[1] /\ ~Invoking(1) /\ depth = 0 /\ Full
         /\ chosen.recovery # "ignore" => ran = cbs
<1>1. Top = stack[1] /\ ~Invoking(1) /\ ~Aborted
  BY InForceFacts DEF HInv, Shape, Invoking
<1>2. depth = 0
  BY <1>1 DEF HInv, Layers
<1>3. Full
  BY <1>1 DEF HInv, Syncing, Partial
<1>4. ~Finishing
  BY <1>1 DEF Finishing
<1>5. QED
  BY <1>1, <1>2, <1>3, <1>4, Settled

\* It finds the application's settings, unless it has options of its own.
LEMMA BottomScopes ==
  ASSUME HInv, stack # << >>, Height = 1
  PROVE  /\ stack[1].what \in {"plain", "send", "wait"} => settings = chosen
         /\ active \in Log \cup {NoLog}
<1>1. Height \in 1 .. Height /\ settings = InForce(Height)
  BY InForceFacts
<1>2. stack[1].what \in {"plain", "send", "wait"} => Raw(Height)
  BY DEF Raw
<1>3. QED
  BY <1>1, <1>2, InForceFacts DEF HInv, Typed

LEMMA TopCall ==
  ASSUME HInv, TopIs("call")
  PROVE  stack # << >> /\ Height = 1
BY InForceFacts DEF TopIs, HInv, Shape

-----------------------------------------------------------------------------
(* Back in the application *)

LEMMA InApplication ==
  ASSUME Typed', stack' = << >>, settings' = chosen', ~exc', depth' = 0,
         chosen'.recovery # "ignore" => ran' = cbs', Full', UndisturbedIfThrown'
  PROVE  HInv'
<1>1. Shape' /\ Layers' /\ Scopes'
  BY DEF Shape, Layers, Scopes
<1>2. Recent'
  BY DEF Recent, Finishing
<1>3. QED
  BY <1>1, <1>2 DEF HInv, Syncing

LEMMA EndedFacts ==
  ASSUME HInv, stack # << >>, NEW how \in Hows
  PROVE  /\ Ended(how) \in [how : Hows, logged : BOOLEAN, resume : {"jump", "return", "throw"}]
         /\ Ended(how).how = how /\ Ended(how).resume = chosen.resume
         /\ Ended(how).logged => stack[1].what \in {"send", "wait", "coll"} /\ chosen.mlog # "manual"
<1>1. stack[1].settings = chosen /\ chosen \in Modes
  BY DEF HInv, Scopes, Typed
<1>2. chosen.resume \in {"jump", "return", "throw"}
  BY <1>1 DEF Modes
<1>3. QED
  BY <1>1, <1>2 DEF Ended

\* The call at the bottom ends, by returning or by throwing.
LEMMA Returning ==
  ASSUME HInv, stack # << >>, NEW how \in Hows, NEW scoped, NEW log \in Log \cup {NoLog},
         Back(how, scoped, log), depth' = 0,
         stack[1].what \in {"plain", "send", "wait"} => scoped = chosen,
         UNCHANGED <<cbs, order, chosen, ran, synced>>, Full,
         chosen.recovery # "ignore" => ran = cbs,
         how \in {"ok", "unhandled"} \/ chosen.resume # "throw" \/ ~Ended(how).logged
  PROVE  HInv'
<1>1. /\ settings' = chosen /\ active' \in Log \cup {NoLog} /\ wanted' = wanted /\ stack' = << >>
      /\ exc' = FALSE
  <2>1. stack[1].mlog \in Log \cup {NoLog}
    BY InForceFacts DEF Frames, FrameFields
  <2>2. QED
    BY <2>1 DEF HInv, Scopes, Back
<1>2. outcome' = Ended(how)
  BY DEF Back
<1>3. Typed'
  <2>1. outcome' \in [how : Hows, logged : BOOLEAN, resume : {"jump", "return", "throw"}]
    BY <1>2, EndedFacts
  <2>2. << >> \in Seq(Frames)
    OBVIOUS
  <2>3. Typed
    BY DEF HInv
  <2>4. QED
    BY <1>1, <2>1, <2>2, <2>3 DEF Typed
<1>4. UndisturbedIfThrown'
  BY <1>2, EndedFacts DEF UndisturbedIfThrown, Undisturbed
<1>5. Full'
  BY DEF Full
<1>6. QED
  BY <1>1, <1>3, <1>4, <1>5, InApplication

\* The handler jumps over the call at the bottom.
LEMMA Jumping ==
  ASSUME HInv, stack # << >>, NEW log \in Log \cup {NoLog}, Jump(chosen, log), chosen.resume = "jump", depth' = 0,
         UNCHANGED <<cbs, order, chosen, ran, synced>>, Full,
         chosen.recovery # "ignore" => ran = cbs
  PROVE  HInv'
<1>1. settings' = chosen /\ active' = log /\ wanted' = NoLog /\ stack' = << >> /\ exc' = FALSE
  BY DEF Jump
<1>2. outcome' = Ended("jump") /\ "jump" \in Hows
  BY DEF Jump, Hows
<1>3. Typed'
  <2>1. outcome' \in [how : Hows, logged : BOOLEAN, resume : {"jump", "return", "throw"}]
    BY <1>2, EndedFacts
  <2>2. << >> \in Seq(Frames)
    OBVIOUS
  <2>3. Typed
    BY DEF HInv
  <2>4. QED
    BY <1>1, <2>1, <2>2, <2>3 DEF Typed
<1>4. UndisturbedIfThrown'
  BY <1>2, EndedFacts DEF UndisturbedIfThrown
<1>5. Full'
  BY DEF Full
<1>6. QED
  BY <1>1, <1>3, <1>4, <1>5, InApplication

-----------------------------------------------------------------------------
(* Still in the call *)

\* The frames of the calls that go on, as CallsKept wants them.
SameCalls(m) ==
  /\ stack' \in Seq(Frames) /\ Len(stack') = m
  /\ \A k \in 1 .. m : /\ stack'[k].kind = stack[k].kind /\ stack'[k].layer = stack[k].layer
                       /\ stack'[k].settings = stack[k].settings /\ stack'[k].mlog = stack[k].mlog
  /\ stack'[1].what = stack[1].what

\* The innermost call ends and the one below goes on.
LEMMA Popping ==
  ASSUME HInv, stack # << >>, Height > 1, SameCalls(Height - 1), settings' = InForce(Height - 1),
         UNCHANGED <<cbs, order, chosen, ran, wanted, outcome>>,
         active' \in Log \cup {NoLog}, exc' \in BOOLEAN, synced' \in Seq(Log),
         depth' = IF Top.kind = "invoke" /\ Top.layer = 0 THEN 0 ELSE depth,
         chosen.recovery # "ignore" => ran = cbs,
         Full' \/ Partial(Height)'
  PROVE  HInv'
<1>1. Height \in Nat /\ Height - 1 >= 1 /\ Height - 1 < Height
  BY InForceFacts
<1>2. Shape' /\ Scopes' /\ Layers' /\ ~Finishing'
  BY <1>1, CallsKept DEF SameCalls
<1>3. Typed'
  <2>1. settings' \in Modes
    BY <1>1, InForceFacts
  <2>2. depth' \in Nat
    BY DEF HInv, Typed
  <2>3. QED
    BY <2>1, <2>2 DEF HInv, Typed, SameCalls
<1>4. Recent'
  BY <1>2 DEF Recent
<1>5. QED
  BY <1>2, <1>3, <1>4 DEF HInv, Syncing, UndisturbedIfThrown, Undisturbed

\* All calls that are under way go on.
LEMMA GoingOn ==
  ASSUME HInv, stack # << >>, SameCalls(Height),
         UNCHANGED <<settings, cbs, order, chosen, wanted, outcome, depth>>,
         active' \in Log \cup {NoLog}, exc' \in BOOLEAN, synced' \in Seq(Log), ran' \in Seq(Callback),
         Recent', Syncing'
  PROVE  HInv'
<1>1. Height \in Nat /\ Height >= 1 /\ settings' = InForce(Height)
  BY InForceFacts
<1>2. Shape' /\ Scopes' /\ Layers'
  BY <1>1, CallsKept DEF SameCalls
<1>3. Typed'
  BY DEF HInv, Typed, SameCalls
<1>4. QED
  BY <1>2, <1>3 DEF HInv, UndisturbedIfThrown, Undisturbed

\* The usual way for the innermost call to end.
LEMMA FrontSame ==
  ASSUME HInv, stack # << >>, Height > 1, stack' = Front(stack)
  PROVE  /\ SameCalls(Height - 1) /\ Height' = Height - 1
         /\ \A k \in 1 .. Height - 1 : stack'[k] = stack[k]
         /\ Top' = stack[Height - 1]
<1>1. stack \in Seq(Frames) /\ Height \in Nat
  BY InForceFacts DEF HInv, Typed
<1>2. /\ stack' \in Seq(Frames) /\ Len(stack') = Height - 1
      /\ \A k \in 1 .. Height - 1 : stack'[k] = stack[k]
  BY <1>1, FrontFacts DEF Height
<1>3. QED
  BY <1>1, <1>2 DEF SameCalls, Height, Top, Last

\* A handler that is not disturbed keeps its place in the logs.
LEMMA PartialKept ==
  ASSUME NEW k \in Nat, Partial(k), Height' \in Nat, k <= Height', stack'[k] = stack[k], exc' = FALSE,
         UNCHANGED <<order, chosen, synced>>
  PROVE  Partial(k)'
BY DEF Partial

LEMMA FullKept ==
  ASSUME UNCHANGED <<order, synced>>, Full
  PROVE  Full'
BY DEF Full

-----------------------------------------------------------------------------
(* One lemma for each action *)

\* Nothing is under way: what the application may find.
LEMMA AppFacts ==
  ASSUME HInv, InApp
  PROVE  /\ settings = chosen /\ exc = FALSE /\ depth = 0 /\ stack = << >> /\ ~Aborted
         /\ Full /\ (chosen.recovery # "ignore" => ran = cbs) /\ settings \in Modes
<1>1. stack = << >> /\ ~Aborted
  BY DEF InApp, Aborted
<1>2. settings = chosen /\ exc = FALSE /\ depth = 0 /\ settings \in Modes
  BY <1>1 DEF HInv, Scopes, Typed
<1>3. Full
  BY <1>1 DEF HInv, Syncing, Partial, Height
<1>4. ~Finishing
  BY <1>1 DEF Finishing
<1>5. QED
  BY <1>1, <1>2, <1>3, <1>4, Settled

LEMMA SetOptionStep ==
  ASSUME HInv, NEW name \in DOMAIN settings, NEW option \in {m[name] : m \in Modes}, SetOption(name, option)
  PROVE  HInv'
<1>1. settings' \in Modes
  <2>1. settings' = [settings EXCEPT ![name] = option] /\ settings \in Modes
    BY DEF SetOption, HInv, Typed
  <2>2. name \in {"recovery", "resume", "unhandled", "cb", "mlog"}
    BY <2>1 DEF Modes
  <2>3. PICK s \in Modes : option = s[name]
    OBVIOUS
  <2>4. QED
    BY <2>1, <2>2, <2>3 DEF Modes
<1>2. chosen' = settings' /\ ran' = cbs' /\ synced' = order'
  BY DEF SetOption
<1>3. Typed'
  BY <1>1, <1>2 DEF SetOption, HInv, Typed
<1>4. Full'
  BY <1>2 DEF Full
<1>5. UndisturbedIfThrown'
  BY DEF SetOption, HInv, UndisturbedIfThrown, Undisturbed
<1>6. stack' = << >> /\ ~exc' /\ depth' = 0
  BY AppFacts DEF SetOption
<1>7. QED
  BY <1>2, <1>3, <1>4, <1>5, <1>6, InApplication

LEMMA RegisterStep ==
  ASSUME HInv, NEW c \in Callback, Register(c)
  PROVE  HInv'
<1>1. Typed'
  BY DEF Register, HInv, Typed
<1>2. Full' /\ UndisturbedIfThrown' /\ settings' = chosen' /\ ran' = cbs'
  BY AppFacts DEF Register, HInv, UndisturbedIfThrown, Undisturbed, Full
<1>3. stack' = << >> /\ ~exc' /\ depth' = 0
  BY AppFacts DEF Register
<1>4. QED
  BY <1>1, <1>2, <1>3, InApplication

LEMMA PopCallbackStep ==
  ASSUME HInv, PopCallback
  PROVE  HInv'
<1>1. cbs' \in Seq(Callback) /\ ran' = cbs'
  BY FrontFacts DEF PopCallback, HInv, Typed
<1>2. Typed'
  BY <1>1 DEF PopCallback, HInv, Typed
<1>3. Full' /\ UndisturbedIfThrown' /\ settings' = chosen'
  BY AppFacts DEF PopCallback, HInv, UndisturbedIfThrown, Undisturbed, Full
<1>4. stack' = << >> /\ ~exc' /\ depth' = 0
  BY AppFacts DEF PopCallback
<1>5. QED
  BY <1>1, <1>2, <1>3, <1>4, InApplication

LEMMA CreateLogStep ==
  ASSUME HInv, NEW id \in Log, CreateLog(id)
  PROVE  HInv'
<1>1. Typed'
  BY DEF CreateLog, HInv, Typed
<1>2. Full' /\ UndisturbedIfThrown' /\ settings' = chosen' /\ (chosen'.recovery # "ignore" => ran' = cbs')
  BY AppFacts DEF CreateLog, HInv, UndisturbedIfThrown, Undisturbed, Full
<1>3. stack' = << >> /\ ~exc' /\ depth' = 0
  BY AppFacts DEF CreateLog
<1>4. QED
  BY <1>1, <1>2, <1>3, InApplication

LEMMA ActivateLogStep ==
  ASSUME HInv, NEW id \in Log, ActivateLog(id)
  PROVE  HInv'
<1>1. Typed'
  BY DEF ActivateLog, HInv, Typed
<1>2. Full' /\ UndisturbedIfThrown' /\ settings' = chosen' /\ (chosen'.recovery # "ignore" => ran' = cbs')
  BY AppFacts DEF ActivateLog, HInv, UndisturbedIfThrown, Undisturbed, Full
<1>3. stack' = << >> /\ ~exc' /\ depth' = 0
  BY AppFacts DEF ActivateLog
<1>4. QED
  BY <1>1, <1>2, <1>3, InApplication

LEMMA DeleteLogStep ==
  ASSUME HInv, NEW id \in Log, DeleteLog(id)
  PROVE  HInv'
<1>1. order' \in Seq(Log) /\ synced' = order'
  BY RemovedElement DEF DeleteLog, HInv, Typed
<1>2. Typed'
  BY <1>1 DEF DeleteLog, HInv, Typed
<1>3. Full' /\ UndisturbedIfThrown' /\ settings' = chosen' /\ (chosen'.recovery # "ignore" => ran' = cbs')
  BY AppFacts DEF DeleteLog, HInv, UndisturbedIfThrown, Undisturbed, Full
<1>4. stack' = << >> /\ ~exc' /\ depth' = 0
  BY AppFacts DEF DeleteLog
<1>5. QED
  BY <1>1, <1>2, <1>3, <1>4, InApplication

\* A call other than Fenix_Callback_invoke_all puts one frame on the stack.
LEMMA PlainCallStep ==
  ASSUME HInv, NEW what \in CallKinds, Call(what), what # "invoke"
  PROVE  HInv'
<1> DEFINE call == Frame("call", what, 0)
<1>1. call \in Frames /\ call.kind = "call" /\ call.what = what /\ call.settings = chosen
  BY AppFacts, FrameFacts DEF Call, HInv
<1> HIDE DEF call
<1>2. /\ stack' = <<call>> /\ depth' = 0 /\ ran' = ran /\ ~Aborted' /\ outcome' = outcome
      /\ UNCHANGED <<cbs, order, chosen, wanted, synced>> /\ exc' = FALSE
  BY AppFacts DEF Call, appVars, call, Aborted
<1>3. /\ stack' \in Seq(Frames) /\ stack' # << >> /\ Height' = 1 /\ Len(stack') = 1
      /\ stack'[1] = call /\ Top' = call
  BY <1>1, <1>2 DEF Height, Top, Last
<1>4. settings' = InForce(1)'
  BY <1>1, <1>2, <1>3, AppFacts DEF Call, InForce, Raw, CallKinds
<1>5. settings' \in Modes
  BY <1>2, AppFacts, RuntimeFacts DEF Call
<1>6. Typed'
  BY <1>2, <1>3, <1>5 DEF HInv, Typed, Call
<1>7. Shape' /\ Scopes'
  BY <1>1, <1>2, <1>3, <1>4 DEF Shape, Scopes
<1>8. ~Invoking(1)' /\ ~Finishing'
  BY <1>1, <1>3 DEF Invoking, Finishing
<1>9. Layers'
  BY <1>2, <1>3, <1>8 DEF Layers
<1>10. Recent'
  BY <1>2, <1>8, AppFacts DEF Call, Recent
<1>11. Full'
  BY <1>2, AppFacts, FullKept DEF Call
<1>12. QED
  BY <1>2, <1>6, <1>7, <1>9, <1>10, <1>11 DEF HInv, Syncing, UndisturbedIfThrown, Undisturbed

LEMMA InvokeCallStep ==
  ASSUME HInv, Call("invoke")
  PROVE  HInv'
<1> DEFINE call == Frame("call", "invoke", 0)
           inner == [Frame("invoke", "between", depth) EXCEPT !.settings = Runtime(settings)]
<1>1. settings = chosen /\ settings \in Modes /\ depth = 0 /\ ~Aborted /\ Typed
  BY AppFacts DEF Call, HInv
<1>2. call \in Frames /\ call.kind = "call" /\ call.what = "invoke" /\ call.settings = chosen
  BY <1>1, FrameFacts DEF CallKinds
<1>3. /\ inner \in Frames /\ inner.kind = "invoke" /\ inner.what = "between" /\ inner.layer = 0
      /\ inner.next = 1 /\ inner.settings = Runtime(chosen)
  <2>1. Runtime(settings) \in Modes /\ active \in Log \cup {NoLog}
    BY <1>1, RuntimeFacts DEF Typed
  <2>2. inner = [kind |-> "invoke", what |-> "between", layer |-> 0, next |-> 1,
                 settings |-> Runtime(settings), mlog |-> active]
    BY <1>1 DEF Frame
  <2>3. QED
    BY <1>1, <2>1, <2>2 DEF Frames, FrameFields
<1> HIDE DEF call, inner
<1>4. /\ stack' = <<call, inner>> /\ depth' = 1 /\ ran' = << >> /\ ~Aborted' /\ outcome' = outcome
      /\ UNCHANGED <<cbs, order, chosen, wanted, synced>> /\ exc' = FALSE
      /\ settings' = Runtime(chosen) /\ active' = active
  BY <1>1, AppFacts DEF Call, appVars, call, inner, Aborted
<1>5. /\ stack' \in Seq(Frames) /\ stack' # << >> /\ Height' = 2 /\ Len(stack') = 2
      /\ stack'[1] = call /\ stack'[2] = inner /\ Top' = inner
  BY <1>2, <1>3, <1>4 DEF Height, Top, Last
<1>6. InForce(1)' = Runtime(chosen) /\ InForce(2)' = Runtime(chosen)
  BY <1>2, <1>4, <1>5 DEF InForce, Raw
<1>7. Typed'
  <2>1. settings' \in Modes
    BY <1>1, <1>4, RuntimeFacts
  <2>2. << >> \in Seq(Callback)
    OBVIOUS
  <2>3. QED
    BY <1>1, <1>4, <1>5, <2>1, <2>2 DEF Typed
<1>8. Shape' /\ Scopes'
  BY <1>2, <1>3, <1>4, <1>5, <1>6 DEF Shape, Scopes, CallKinds
<1>9. ~Invoking(1)' /\ Invoking(2)' /\ Finishing'
  BY <1>2, <1>3, <1>4, <1>5 DEF Invoking, Finishing, MostRecent
<1>10. Layers'
  BY <1>3, <1>4, <1>5, <1>9 DEF Layers
<1>11. Recent'
  <2>1. SubSeq(cbs, 1, 0) = << >> /\ Len(cbs) \in Nat
    BY <1>1 DEF Typed
  <2>2. QED
    BY <1>3, <1>4, <1>5, <1>9, <2>1 DEF Recent
<1>12. Full'
  BY <1>4, AppFacts, FullKept DEF Call
<1>13. QED
  BY <1>4, <1>7, <1>8, <1>10, <1>11, <1>12 DEF HInv, Syncing, UndisturbedIfThrown, Undisturbed

LEMMA CallSucceedsStep ==
  ASSUME HInv, CallSucceeds
  PROVE  HInv'
<1>1. stack # << >> /\ Height = 1
  BY TopCall DEF CallSucceeds
<1>2. /\ Back("ok", settings, active) /\ depth' = 0 /\ UNCHANGED <<cbs, order, chosen, ran, synced>>
      /\ "ok" \in Hows
  BY <1>1, BottomFacts DEF CallSucceeds, appVars, Hows
<1>3. QED
  BY <1>1, <1>2, BottomFacts, BottomScopes, Returning

LEMMA CallThrowsStep ==
  ASSUME HInv, CallThrows
  PROVE  HInv'
<1>1. stack # << >> /\ Height = 1
  BY TopCall DEF CallThrows
<1>2. depth' = 0 /\ UNCHANGED <<cbs, order, chosen, ran, synced>>
  BY <1>1, BottomFacts DEF CallThrows, appVars
<1>3. PICK how \in Hows : Back(how, settings, active)
  BY DEF CallThrows, Hows
<1>4. ~Ended(how).logged
  BY <1>1, EndedFacts DEF CallThrows, Inline, HInv, Scopes
<1>5. QED
  BY <1>1, <1>2, <1>3, <1>4, BottomFacts, BottomScopes, Returning

LEMMA CallRetriesStep ==
  ASSUME HInv, CallRetries
  PROVE  HInv'
<1>1. stack # << >> /\ Height = 1 /\ Height \in Nat
  BY TopCall DEF CallRetries
<1>2. UNCHANGED <<cbs, order, chosen, ran, synced, depth>>
  BY DEF CallRetries, appVars
<1>3. CASE stack[1].what = "send"
  <2>1. Back("ok", settings, active) /\ depth' = 0 /\ "ok" \in Hows
    BY <1>1, <1>3, BottomFacts DEF CallRetries, Hows
  <2>2. QED
    BY <1>1, <1>2, <2>1, BottomFacts, BottomScopes, Returning
<1>4. CASE stack[1].what # "send"
  <2>1. UNCHANGED <<stack, settings, active, outcome, wanted>> /\ exc' = FALSE
    BY <1>4 DEF CallRetries, Goes
  <2>2. SameCalls(Height)
    BY <2>1 DEF SameCalls, HInv, Typed, Height
  <2>3. ~Finishing'
    BY <1>1, <2>1, BottomFacts DEF Finishing, Invoking, Height
  <2>4. Recent'
    BY <1>1, <1>2, <2>1, <2>3, BottomFacts DEF Recent
  <2>5. Syncing'
    BY <1>1, <1>2, BottomFacts, FullKept DEF Syncing
  <2>6. ran' \in Seq(Callback) /\ synced' \in Seq(Log) /\ active' \in Log \cup {NoLog}
    BY <1>2, <2>1 DEF HInv, Typed
  <2>7. QED
    BY <1>1, <1>2, <2>1, <2>2, <2>4, <2>5, <2>6, GoingOn
<1>5. QED
  BY <1>3, <1>4

\* An MPI operation is under way in the innermost call.
LEMMA InMPIFacts ==
  ASSUME HInv, InMPI
  PROVE  stack # << >> /\ Top.kind # "handler"
BY DEF InMPI, TopIs

LEMMA HandlerRepairsStep ==
  ASSUME HInv, HandlerRepairs
  PROVE  HInv'
<1>1. stack # << >> /\ Height \in Nat
  BY InForceFacts, InMPIFacts DEF HandlerRepairs
<1>2. PICK n \in Nat : n = Height
  BY <1>1
<1>3. depth \in Nat
  BY DEF HInv, Typed
<1>4. PICK layer \in Nat : layer = IF depth = 0 THEN 0 ELSE depth + 1
  BY <1>3
<1> DEFINE handler == Frame("handler", "sync", 0)
           inner == Frame("invoke", "between", layer)
<1>5. /\ stack # << >> /\ ~Aborted /\ Typed /\ n \in Nat /\ n >= 1 /\ Top = stack[n]
      /\ stack[n].kind # "handler" /\ settings = InForce(n) /\ settings \in Modes /\ chosen \in Modes
      /\ n = Height /\ depth \in Nat /\ layer = IF depth = 0 THEN 0 ELSE depth + 1
  BY <1>2, <1>3, <1>4, InForceFacts, InMPIFacts DEF HandlerRepairs, HInv, Typed
<1>6. /\ handler \in Frames /\ handler.kind = "handler" /\ handler.next = 1 /\ handler.settings = InForce(n)
      /\ inner \in Frames /\ inner.kind = "invoke" /\ inner.what = "between" /\ inner.next = 1
      /\ inner.layer = layer /\ inner.settings = InForce(n)
  <2>1. /\ "sync" \in CallKinds \cup {"between", "running", "sync"} \cup Log /\ 0 \in Nat
        /\ "between" \in CallKinds \cup {"between", "running", "sync"} \cup Log
    OBVIOUS
  <2>2. Typed
    BY <1>5
  <2>3. handler \in Frames /\ handler.kind = "handler" /\ handler.next = 1 /\ handler.settings = settings
    BY <2>1, <2>2, FrameFacts
  <2>4. /\ inner \in Frames /\ inner.kind = "invoke" /\ inner.what = "between" /\ inner.next = 1
        /\ inner.layer = layer /\ inner.settings = settings
    BY <2>1, <2>2, FrameFacts
  <2>5. QED
    BY <1>5, <2>3, <2>4
<1> HIDE DEF handler, inner
<1>7. /\ stack' = stack \o <<handler, inner>> /\ depth' = layer + 1 /\ ran' = << >>
      /\ UNCHANGED <<cbs, order, chosen, wanted, exc, outcome>> /\ exc = FALSE
      /\ settings' = Runtime(settings) /\ active' = NoLog
      /\ synced' = IF settings.mlog = "autosync" THEN << >> ELSE order
  BY <1>4 DEF HandlerRepairs, appVars, handler, inner, HInv, Typed
<1>8. /\ stack' \in Seq(Frames) /\ stack' # << >> /\ Height' = n + 2 /\ Len(stack') = n + 2
      /\ stack'[n + 1] = handler /\ stack'[n + 2] = inner /\ Top' = inner
      /\ \A k \in 1 .. n : stack'[k] = stack[k]
  <2>1. stack \in Seq(Frames) /\ <<handler, inner>> \in Seq(Frames) /\ Len(stack) = n
    BY <1>5, <1>6 DEF Typed, Height
  <2>2. stack \o <<handler, inner>> \in Seq(Frames) /\ Len(stack \o <<handler, inner>>) = n + 2
    BY <1>5, <2>1
  <2>3. /\ (stack \o <<handler, inner>>)[n + 1] = handler /\ (stack \o <<handler, inner>>)[n + 2] = inner
        /\ \A k \in 1 .. n : (stack \o <<handler, inner>>)[k] = stack[k]
    BY <1>5, <2>1
  <2>4. QED
    BY <1>5, <1>7, <2>2, <2>3 DEF Height, Top, Last
<1>9. /\ stack[1].what # "probe" /\ settings.recovery # "ignore" /\ chosen.recovery # "ignore"
      /\ settings.mlog = chosen.mlog
  <2>1. settings.recovery # "ignore"
    BY DEF HandlerRepairs
  <2>2. stack[1].what # "probe"
    BY <1>5, <2>1, RuntimeFacts DEF InForce
  <2>3. QED
    BY <1>5, <2>1, <2>2, InForceFacts
<1>10. /\ \A k \in 1 .. n : InForce(k)' = InForce(k)
      /\ InForce(n + 1)' = InForce(n) /\ InForce(n + 2)' = Runtime(InForce(n))
  <2>1. \A k \in 1 .. n : InForce(k)' = InForce(k)
    BY <1>5, <1>7, <1>8 DEF InForce, Raw
  <2>2. Raw(n + 1)' <=> Raw(n)
    BY <1>5, <1>6, <1>8 DEF Raw
  <2>3. ~Raw(n + 2)' /\ stack'[1].what # "probe"
    BY <1>5, <1>8, <1>9 DEF Raw
  <2>4. QED
    BY <1>5, <1>7, <1>9, <2>1, <2>2, <2>3, RuntimeFacts DEF InForce
<1>11. Typed'
  <2>1. settings' \in Modes
    BY <1>5, <1>7, RuntimeFacts
  <2>2. << >> \in Seq(Callback) /\ << >> \in Seq(Log) /\ order \in Seq(Log)
    BY <1>5 DEF Typed
  <2>3. synced' \in Seq(Log)
    BY <1>7, <2>2
  <2>4. QED
    BY <1>5, <1>7, <1>8, <2>1, <2>2, <2>3 DEF Typed
<1>12. Shape'
  <2>1. \A k \in 3 .. n + 2 : stack'[k].kind = "handler" => stack'[k - 1].kind # "handler"
    <3>1. ASSUME NEW k \in 3 .. n PROVE stack'[k].kind = "handler" => stack'[k - 1].kind # "handler"
      BY <1>5, <1>8 DEF HInv, Shape
    <3>2. stack'[n].kind # "handler" /\ stack'[n + 2].kind # "handler"
      BY <1>5, <1>6, <1>8
    <3>3. QED
      BY <1>5, <3>1, <3>2
  <2>2. \A k \in 2 .. n + 2 : stack'[k].kind # "call"
    <3>1. ASSUME NEW k \in 2 .. n PROVE stack'[k].kind # "call"
      BY <1>5, <1>8 DEF HInv, Shape
    <3>2. stack'[n + 1].kind # "call" /\ stack'[n + 2].kind # "call"
      BY <1>6, <1>8
    <3>3. QED
      BY <1>5, <3>1, <3>2
  <2>3. QED
    BY SMTT(30), <1>5, <1>7, <1>8, <1>9, <2>1, <2>2 DEF HInv, Shape, Aborted
<1>13. Scopes'
  <2>1. stack'[1].settings = chosen'
    BY <1>5, <1>7, <1>8 DEF HInv, Scopes
  <2>2. ASSUME NEW k \in 2 .. n + 2 PROVE stack'[k].settings = InForce(k - 1)'
    <3>1. CASE k <= n
      BY <1>5, <1>8, <1>10, <3>1 DEF HInv, Scopes
    <3>2. CASE k > n
      BY <1>5, <1>6, <1>8, <1>10, <3>2
    <3>3. QED
      BY <1>5, <3>1, <3>2
  <2>3. QED
    BY <1>5, <1>7, <1>8, <1>10, <2>1, <2>2 DEF Scopes
<1>14. Layers'
  <2>1. \A k \in 1 .. n : Invoking(k)' <=> Invoking(k)
    BY <1>8 DEF Invoking
  <2>2. ~Invoking(n + 1)' /\ Invoking(n + 2)'
    BY <1>6, <1>8 DEF Invoking
  <2>3. depth = 0 <=> \A k \in 1 .. n : ~Invoking(k)
    BY <1>5 DEF HInv, Layers
  <2>4. ASSUME NEW k \in 1 .. n + 2, Invoking(k)'
        PROVE  /\ stack'[k].layer = 0 <=> \A j \in 1 .. k - 1 : ~Invoking(j)'
               /\ stack'[k].layer + 1 <= depth' /\ (k < n + 2 => stack'[k].layer + 1 < depth')
    <3>1. CASE k <= n
      <4>1. stack'[k].layer = stack[k].layer /\ Invoking(k) /\ stack[k].layer \in Nat
        BY <1>5, <1>8, <2>1, <2>4, <3>1, InForceFacts DEF Frames, FrameFields
      <4>2. stack[k].layer = 0 <=> \A j \in 1 .. k - 1 : ~Invoking(j)
        BY <1>5, <3>1, <4>1 DEF HInv, Layers
      <4>3. \A j \in 1 .. k - 1 : Invoking(j)' <=> Invoking(j)
        BY <1>5, <2>1, <3>1
      <4>4. stack[k].layer + 1 <= depth
        BY <1>5, <3>1, <4>1 DEF HInv, Layers
      <4>5. depth' = depth + 2
        BY <1>5, <1>7, <4>1, <4>4
      <4>6. QED
        BY <1>5, <4>1, <4>2, <4>3, <4>4, <4>5
    <3>2. CASE k = n + 2
      <4>1. stack'[k].layer = layer /\ depth' = layer + 1
        BY <1>6, <1>7, <1>8, <3>2
      <4>2. layer = 0 <=> \A j \in 1 .. n : ~Invoking(j)
        BY <1>5, <2>3
      <4>3. layer = 0 <=> \A j \in 1 .. n + 1 : ~Invoking(j)'
        BY <1>5, <2>1, <2>2, <4>2
      <4>4. QED
        BY <1>5, <3>2, <4>1, <4>3
    <3>3. QED
      BY <1>5, <2>2, <2>4, <3>1, <3>2
  <2>5. depth' # 0
    BY <1>5, <1>7
  <2>6. QED
    BY <1>5, <1>8, <2>2, <2>4, <2>5 DEF Layers
<1>15. Recent'
  <2>1. Finishing'
    BY <1>6, <1>7, <1>8 DEF Finishing, Invoking, MostRecent
  <2>2. SubSeq(cbs, 1, 0) = << >> /\ Len(cbs) \in Nat
    BY <1>5 DEF Typed
  <2>3. QED
    BY <1>6, <1>7, <1>8, <2>1, <2>2 DEF Recent
<1>16. Syncing'
  <2>1. CASE settings.mlog = "autosync"
    <3>1. Partial(n + 1)'
      <4>1. \A i \in DOMAIN order' : ~(i < stack'[n + 1].next)
        BY <1>5, <1>6, <1>7, <1>8 DEF Typed
      <4>2. n + 1 \in 2 .. Height' /\ stack'[n + 1].kind = "handler" /\ ~exc'
        BY <1>5, <1>6, <1>7, <1>8
      <4>3. chosen'.recovery # "ignore" /\ chosen'.mlog = "autosync"
        BY <1>7, <1>9, <2>1
      <4>4. QED
        BY <4>1, <4>2, <4>3 DEF Partial
    <3>2. QED
      BY <1>5, <1>6, <1>8, <3>1 DEF Syncing
  <2>2. CASE settings.mlog # "autosync"
    BY <1>7, <2>2 DEF Syncing, Full
  <2>3. QED
    BY <2>1, <2>2
<1>17. QED
  BY <1>7, <1>11, <1>12, <1>13, <1>14, <1>15, <1>16 DEF HInv, UndisturbedIfThrown, Undisturbed

\* The error code reaches the application, or RankLog::wait, which goes on.
LEMMA ErrorReturnedStep ==
  ASSUME HInv, stack # << >>, Raw(Height), Full, chosen.recovery # "ignore" => ran = cbs,
         NEW log \in Log \cup {NoLog}, NEW how \in {"error", "unhandled"}, ErrorReturned(log, how),
         UNCHANGED <<cbs, order, chosen, ran, synced, depth>>,
         how = "error" => chosen.resume # "throw"
  PROVE  HInv'
<1>1. Height \in Nat /\ Height >= 1 /\ Height \in 1 .. Height /\ settings = InForce(Height) /\ Top = stack[Height]
  BY InForceFacts
<1>2. settings = chosen /\ Height <= 2 /\ depth = 0 /\ \A j \in 1 .. Height : ~Invoking(j)
  BY <1>1, RawFacts
<1>3. CASE stack[1].what # "wait"
  <2>1. Back(how, settings, log) /\ how \in Hows /\ depth' = 0
    BY <1>2, <1>3 DEF ErrorReturned, Hows
  <2>2. QED
    BY <1>2, <2>1, Returning
<1>4. CASE stack[1].what = "wait"
  <2>1. /\ stack' = <<stack[1]>> /\ settings' = settings /\ active' = log /\ exc' = FALSE
        /\ UNCHANGED <<outcome, wanted>>
    BY <1>4 DEF ErrorReturned, Goes
  <2>2. SameCalls(1)
    BY <1>1, <2>1, InForceFacts DEF SameCalls
  <2>3. ran' \in Seq(Callback) /\ synced' \in Seq(Log) /\ ~Aborted
    BY InForceFacts DEF HInv, Typed
  <2>4. Full'
    BY FullKept
  <2>5. CASE Height = 1
    <3>1. Height' = 1 /\ ~Invoking(1)'
      BY <1>1, <1>2, <2>1, <2>5 DEF Height, Invoking
    <3>2. Recent'
      BY <3>1 DEF Recent, Finishing
    <3>3. QED
      BY <2>1, <2>2, <2>3, <2>4, <2>5, <3>2, GoingOn DEF Syncing
  <2>6. CASE Height = 2
    <3>1. Raw(1) /\ InForce(1) = chosen /\ Top.kind # "invoke"
      BY <1>1, <1>2, <2>6, InForceFacts DEF Raw, Invoking
    <3>2. Height - 1 = 1 /\ Height > 1
      BY <2>6
    <3>3. SameCalls(Height - 1)
      BY <2>2, <3>2, Zenon
    <3>4. settings' = InForce(Height - 1) /\ exc' \in BOOLEAN
      BY <1>2, <2>1, <3>1, <3>2, Zenon
    <3>5. UNCHANGED <<cbs, order, chosen, ran, wanted, outcome>>
      BY <2>1
    <3>6. QED
      BY <2>1, <2>3, <2>4, <3>1, <3>4, <3>5, <3>2, <3>3, Popping
  <2>7. QED
    BY <1>1, <1>2, <2>5, <2>6
<1>5. QED
  BY <1>3, <1>4

\* resume_application jumps or returns only while the application's settings are in force.
LEMMA ResumeStep ==
  ASSUME HInv, stack # << >>, Full, chosen.recovery # "ignore" => ran = cbs,
         NEW frames, NEW log \in Log \cup {NoLog}, NEW inside \in Log \cup {NoLog},
         Resume(frames, log, inside), settings.resume # "throw",
         UNCHANGED <<cbs, order, chosen, ran, synced, depth>>
  PROVE  HInv'
<1>1. Height \in 1 .. Height /\ settings = InForce(Height)
  BY InForceFacts
<1>2. Raw(Height)
  BY <1>1, InForceFacts
<1>3. settings = chosen /\ depth = 0 /\ chosen.resume \in {"jump", "return", "throw"}
  BY <1>1, <1>2, RawFacts DEF HInv, Typed, Modes
<1>4. CASE settings.resume = "jump"
  BY <1>3, <1>4, Jumping DEF Resume
<1>5. CASE settings.resume = "return"
  BY <1>2, <1>3, <1>5, ErrorReturnedStep DEF Resume
<1>6. QED
  BY <1>3, <1>4, <1>5

LEMMA HandlerIgnoresStep ==
  ASSUME HInv, HandlerIgnores
  PROVE  HInv'
<1>1. /\ stack # << >> /\ Height \in Nat /\ Height >= 1 /\ ~Aborted /\ settings = InForce(Height)
      /\ chosen.recovery = "ignore" \/ Height = 1
      /\ active \in Log \cup {NoLog} /\ NoLog \in Log \cup {NoLog}
  BY InMPIFacts, InForceFacts DEF HandlerIgnores, HInv, Typed
<1>2. Full /\ (chosen.recovery # "ignore" => ran = cbs)
  <2>1. CASE chosen.recovery = "ignore"
    BY <1>1, <2>1 DEF HInv, Syncing, Partial
  <2>2. CASE Height = 1
    BY <1>1, <2>2, BottomFacts
  <2>3. QED
    BY <1>1, <2>1, <2>2
<1>3. UNCHANGED <<cbs, order, chosen, ran, synced, depth>> /\ Resume(stack, active, NoLog)
  BY DEF HandlerIgnores, appVars
<1>4. CASE settings.resume # "throw"
  BY <1>1, <1>2, <1>3, <1>4, ResumeStep
<1>5. CASE settings.resume = "throw"
  <2>1. UNCHANGED <<stack, settings, active, outcome, wanted>> /\ exc' = TRUE
    BY <1>3, <1>5 DEF Resume, Goes
  <2>2. SameCalls(Height)
    BY <2>1 DEF SameCalls, HInv, Typed, Height
  <2>3. Recent'
    <3>1. CASE chosen.recovery = "ignore"
      BY <1>3, <3>1 DEF Recent
    <3>2. CASE Height = 1
      <4>1. ~Finishing'
        BY <1>1, <2>1, <3>2, BottomFacts DEF Finishing, Invoking, Height
      <4>2. QED
        BY <1>2, <1>3, <4>1 DEF Recent
    <3>3. QED
      BY <1>1, <3>1, <3>2
  <2>4. Syncing'
    BY <1>2, <1>3, FullKept DEF Syncing
  <2>5. ran' \in Seq(Callback) /\ synced' \in Seq(Log) /\ active' \in Log \cup {NoLog}
    BY <1>3, <2>1 DEF HInv, Typed
  <2>6. QED
    BY <1>1, <1>3, <2>1, <2>2, <2>3, <2>4, <2>5, GoingOn
<1>6. QED
  BY <1>4, <1>5

LEMMA HandlerUnhandledStep ==
  ASSUME HInv, HandlerUnhandled
  PROVE  HInv'
<1>1. /\ stack # << >> /\ Height \in Nat /\ Height >= 1 /\ Height \in 1 .. Height /\ settings = InForce(Height)
      /\ Top = stack[Height] /\ Top.kind # "handler" /\ active \in Log \cup {NoLog}
  BY InMPIFacts, InForceFacts DEF HandlerUnhandled, HInv, Typed
<1>2. UNCHANGED <<cbs, order, chosen, ran, synced, depth>>
  BY DEF HandlerUnhandled, appVars
<1>3. CASE settings.unhandled = "abort"
  <2>1. /\ outcome' = [outcome EXCEPT !.how = "aborted"] /\ stack' = << >>
        /\ UNCHANGED <<exc, settings, active, wanted>>
    BY <1>3 DEF HandlerUnhandled
  <2>2. outcome' \in [how : Hows, logged : BOOLEAN, resume : {"jump", "return", "throw"}] /\ outcome'.how = "aborted"
    BY <2>1 DEF HInv, Typed, Hows
  <2>3. << >> \in Seq(Frames)
    OBVIOUS
  <2>4. Typed'
    BY <1>2, <2>1, <2>2, <2>3 DEF HInv, Typed
  <2>5. Aborted'
    BY <2>2 DEF Aborted
  <2>6. Shape' /\ Scopes' /\ Layers'
    BY <2>1, <2>5 DEF Shape, Scopes, Layers
  <2>7. Recent' /\ Syncing'
    BY <2>5 DEF Recent, Syncing
  <2>8. UndisturbedIfThrown'
    BY <2>2 DEF UndisturbedIfThrown, Undisturbed
  <2>9. QED
    BY <2>4, <2>6, <2>7, <2>8 DEF HInv
<1>4. CASE settings.unhandled # "abort"
  <2>1. Raw(Height)
    BY <1>1, <1>4, InForceFacts
  <2>2. Height = 1
    BY <1>1, <2>1 DEF Raw
  <2>3. Full /\ (chosen.recovery # "ignore" => ran = cbs)
    BY <1>1, <2>2, BottomFacts
  <2>4. ErrorReturned(active, "unhandled")
    BY <1>4 DEF HandlerUnhandled
  <2>5. QED
    BY <1>1, <1>2, <2>1, <2>3, <2>4, ErrorReturnedStep
<1>5. QED
  BY <1>3, <1>4

LEMMA TopHandler ==
  ASSUME HInv, TopIs("handler")
  PROVE  /\ stack # << >> /\ Height \in Nat /\ Height > 1 /\ Top = stack[Height] /\ ~Finishing /\ ~Aborted
         /\ Top.mlog \in Log \cup {NoLog} /\ Top.kind = "handler"
         /\ settings = InForce(Height - 1)
         /\ chosen.recovery # "ignore" => ran = cbs
<1>1. /\ stack # << >> /\ Height \in Nat /\ Height >= 1 /\ Top = stack[Height] /\ ~Aborted
      /\ Top \in Frames /\ Top.kind = "handler"
  BY InForceFacts DEF TopIs
<1>2. Height # 1 /\ ~Finishing
  BY <1>1 DEF HInv, Shape, Finishing, Invoking
<1>3. settings = InForce(Height - 1)
  <2>1. Raw(Height) <=> Raw(Height - 1)
    BY <1>1, <1>2 DEF Raw, HInv, Shape
  <2>2. QED
    BY <1>1, <2>1, InForceFacts DEF InForce
<1>4. QED
  BY <1>1, <1>2, <1>3, Settled DEF Frames, FrameFields

LEMMA HandlerThrowsStep ==
  ASSUME HInv, HandlerThrows
  PROVE  HInv'
<1>1. /\ stack' = Front(stack) /\ settings' = settings /\ active' = Top.mlog /\ exc' = TRUE /\ exc
      /\ UNCHANGED <<cbs, order, chosen, ran, wanted, outcome, synced, depth>>
  BY DEF HandlerThrows, Goes, appVars
<1>2. TopIs("handler")
  BY DEF HandlerThrows
<1>3. Full'
  BY <1>1, <1>2, TopHandler, Settled, FullKept
<1>4. SameCalls(Height - 1) /\ depth' = IF Top.kind = "invoke" /\ Top.layer = 0 THEN 0 ELSE depth
  BY <1>1, <1>2, TopHandler, FrontSame
<1>5. settings' = InForce(Height - 1) /\ active' \in Log \cup {NoLog} /\ exc' \in BOOLEAN /\ synced' \in Seq(Log)
  BY <1>1, <1>2, TopHandler DEF HInv, Typed
<1>6. QED
  BY <1>1, <1>2, <1>3, <1>4, <1>5, TopHandler, Popping

\* The handler leaves only when every log is synchronised.
LEMMA HandlerResumesStep ==
  ASSUME HInv, HandlerResumes
  PROVE  HInv'
<1>1. /\ TopIs("handler") /\ ~exc /\ ~Syncs /\ Resume(Front(stack), Top.mlog, active)
      /\ UNCHANGED <<cbs, order, chosen, ran, synced, depth>> /\ active \in Log \cup {NoLog}
  BY DEF HandlerResumes, appVars, HInv, Typed
<1>2. Full
  <2>1. CASE Partial(Height)
    <3>1. settings.mlog = "autosync"
      BY <1>1, <2>1, TopHandler, InForceFacts DEF Partial
    <3>2. ~(Top.next <= Len(order)) /\ Top.next \in Nat /\ order \in Seq(Log)
      BY <1>1, <3>1, TopHandler, InForceFacts DEF Syncs, Frames, FrameFields, HInv, Typed
    <3>3. \A i \in DOMAIN order : i < stack[Height].next
      BY <1>1, <3>2, TopHandler
    <3>4. QED
      BY <2>1, <3>3 DEF Partial, Full, ToSet
  <2>2. QED
    BY <1>1, <2>1, TopHandler DEF HInv, Syncing
<1>3. CASE settings.resume # "throw"
  BY <1>1, <1>2, <1>3, TopHandler, ResumeStep
<1>4. CASE settings.resume = "throw"
  <2>1. stack' = Front(stack) /\ settings' = settings /\ active' = Top.mlog /\ exc' = TRUE /\ UNCHANGED <<outcome, wanted>>
    BY <1>1, <1>4 DEF Resume, Goes
  <2>2. Full'
    BY <1>1, <1>2, FullKept
  <2>3. SameCalls(Height - 1) /\ depth' = IF Top.kind = "invoke" /\ Top.layer = 0 THEN 0 ELSE depth
    BY <1>1, <2>1, TopHandler, FrontSame
  <2>4. settings' = InForce(Height - 1) /\ active' \in Log \cup {NoLog} /\ exc' \in BOOLEAN /\ synced' \in Seq(Log)
    BY <1>1, <2>1, TopHandler DEF HInv, Typed
  <2>5. UNCHANGED <<cbs, order, chosen, ran, wanted, outcome>>
    BY <1>1, <2>1
  <2>6. QED
    BY <1>1, <2>2, <2>3, <2>4, <2>5, TopHandler, Popping
<1>5. QED
  BY <1>3, <1>4

LEMMA BeginSyncStep ==
  ASSUME HInv, BeginSync
  PROVE  HInv'
<1>1. TopIs("handler") /\ ~exc /\ Syncs
  BY DEF BeginSync
<1>2. PICK n \in Nat : n = Height
  BY <1>1, TopHandler
<1>3. PICK log \in Log : log = order[Top.next] /\ Top.next \in DOMAIN order
  BY SMTT(30), <1>1, TopHandler, InForceFacts DEF Syncs, HInv, Typed, Frames, FrameFields
<1> DEFINE sync == Frame("sync", log, 0)
<1>4. /\ sync \in Frames /\ sync.kind = "sync" /\ sync.what = log /\ sync.settings = InForce(n)
  <2>1. Typed /\ log \in CallKinds \cup {"between", "running", "sync"} \cup Log /\ 0 \in Nat
    BY DEF HInv
  <2>2. /\ sync \in Frames /\ sync.kind = "sync" /\ sync.what = log /\ sync.settings = settings
    BY <2>1, FrameFacts
  <2>3. QED
    BY <1>1, <1>2, <2>2, TopHandler, InForceFacts
<1> HIDE DEF sync
<1>5. /\ stack' = Append(stack, sync) /\ settings' = Runtime(settings) /\ active' = active /\ exc' = FALSE
      /\ UNCHANGED <<cbs, order, chosen, ran, wanted, outcome, synced, depth>>
  BY <1>3 DEF BeginSync, Goes, appVars, sync
<1>6. /\ n > 1 /\ stack # << >> /\ ~Aborted /\ stack[n].kind = "handler" /\ stack \in Seq(Frames)
      /\ Len(stack) = n /\ Top = stack[n] /\ settings = InForce(n) /\ settings \in Modes /\ chosen \in Modes
      /\ stack[1].what # "probe"
  BY <1>1, <1>2, TopHandler, InForceFacts DEF HInv, Typed, Shape, Height
<1>7. /\ stack' \in Seq(Frames) /\ stack' # << >> /\ Height' = n + 1 /\ Len(stack') = n + 1
      /\ stack'[n + 1] = sync /\ Top' = sync /\ \A k \in 1 .. n : stack'[k] = stack[k]
  BY <1>4, <1>5, <1>6 DEF Height, Top, Last
<1>8. /\ \A k \in 1 .. n : InForce(k)' = InForce(k)
      /\ InForce(n + 1)' = Runtime(InForce(n))
  <2>1. \A k \in 1 .. n : InForce(k)' = InForce(k)
    BY <1>5, <1>6, <1>7 DEF InForce, Raw
  <2>2. ~Raw(n + 1)' /\ stack'[1].what # "probe"
    BY <1>4, <1>6, <1>7 DEF Raw
  <2>3. QED
    BY <1>5, <1>6, <2>1, <2>2, RuntimeFacts DEF InForce
<1>9. Typed'
  <2>1. settings' \in Modes
    BY <1>5, <1>6, RuntimeFacts
  <2>2. QED
    BY <1>5, <1>7, <2>1 DEF HInv, Typed
<1>10. Shape'
  <2>1. \A k \in 2 .. n : stack'[k].kind # "call"
    BY <1>6, <1>7, <1>2 DEF HInv, Shape
  <2>2. \A k \in 3 .. n : stack'[k].kind = "handler" => stack'[k - 1].kind # "handler"
    BY <1>6, <1>7, <1>2 DEF HInv, Shape
  <2>3. stack'[n + 1].kind = "sync"
    BY <1>4, <1>7
  <2>4. QED
    BY <1>5, <1>6, <1>7, <2>1, <2>2, <2>3 DEF HInv, Shape, Aborted
<1>11. Scopes'
  <2>1. stack'[1].settings = chosen'
    BY <1>5, <1>6, <1>7 DEF HInv, Scopes
  <2>2. ASSUME NEW k \in 2 .. n + 1 PROVE stack'[k].settings = InForce(k - 1)'
    <3>1. CASE k <= n
      BY <1>2, <1>6, <1>7, <1>8, <3>1 DEF HInv, Scopes
    <3>2. CASE k = n + 1
      BY <1>4, <1>6, <1>7, <1>8, <3>2
    <3>3. QED
      BY <3>1, <3>2
  <2>3. QED
    BY <1>5, <1>6, <1>7, <1>8, <2>1, <2>2 DEF Scopes
<1>12. Layers'
  <2>1. \A k \in 1 .. n : (Invoking(k)' <=> Invoking(k)) /\ stack'[k].layer = stack[k].layer
    BY <1>7 DEF Invoking
  <2>2. ~Invoking(n + 1)' /\ ~Invoking(n)
    BY <1>4, <1>6, <1>7 DEF Invoking
  <2>3. depth' = depth /\ (depth = 0 <=> \A k \in 1 .. n : ~Invoking(k))
    BY <1>2, <1>5, <1>6 DEF HInv, Layers
  <2>4. ASSUME NEW k \in 1 .. n + 1, Invoking(k)'
        PROVE  /\ stack'[k].layer = 0 <=> \A j \in 1 .. k - 1 : ~Invoking(j)'
               /\ stack'[k].layer + 1 <= depth' /\ (k < n + 1 => stack'[k].layer + 1 < depth')
    <3>1. k \in 1 .. n /\ Invoking(k) /\ k < n /\ stack'[k].layer = stack[k].layer
      BY <2>1, <2>2, <2>4
    <3>2. stack[k].layer = 0 <=> \A j \in 1 .. k - 1 : ~Invoking(j)
      BY <1>2, <1>6, <3>1 DEF HInv, Layers
    <3>3. \A j \in 1 .. k - 1 : Invoking(j)' <=> Invoking(j)
      BY <2>1, <3>1
    <3>4. stack[k].layer + 1 <= depth /\ stack[k].layer + 1 < depth
      BY <1>2, <1>6, <3>1 DEF HInv, Layers
    <3>5. QED
      BY <2>3, <3>1, <3>2, <3>3, <3>4
  <2>5. depth' = 0 <=> \A k \in 1 .. n + 1 : ~Invoking(k)'
    BY <2>1, <2>2, <2>3
  <2>6. QED
    BY <1>7, <2>4, <2>5 DEF Layers
<1>13. Recent'
  <2>1. ~Finishing'
    BY <1>4, <1>7 DEF Finishing, Invoking
  <2>2. QED
    BY <1>1, <1>5, <2>1, TopHandler DEF Recent
<1>14. Syncing'
  <2>1. CASE Full
    BY <1>5, <2>1, FullKept DEF Syncing
  <2>2. CASE Partial(n)
    <3>1. Height' \in Nat /\ n <= Height' /\ stack'[n] = stack[n]
      BY <1>6, <1>7
    <3>2. Partial(n)'
      BY <1>5, <2>2, <3>1, PartialKept
    <3>3. stack'[n].next \in DOMAIN order' /\ Top'.what = order'[stack'[n].next] /\ Top'.kind = "sync"
      BY <1>3, <1>4, <1>5, <1>6, <1>7
    <3>4. QED
      BY <1>7, <3>2, <3>3 DEF Syncing
  <2>3. QED
    BY <1>2, <1>6, <2>1, <2>2 DEF HInv, Syncing
<1>15. QED
  BY <1>5, <1>9, <1>10, <1>11, <1>12, <1>13, <1>14 DEF HInv, UndisturbedIfThrown, Undisturbed

\* A call inside the application's own saves what is in force below it.
LEMMA TopInner ==
  ASSUME HInv, TopIs("sync") \/ TopIs("invoke")
  PROVE  /\ stack # << >> /\ Height \in Nat /\ Height > 1 /\ Top = stack[Height] /\ Top \in Frames /\ ~Aborted
         /\ Top.settings = InForce(Height - 1) /\ Height - 1 \in 1 .. Height
<1>1. /\ stack # << >> /\ Height \in Nat /\ Height >= 1 /\ Top = stack[Height] /\ Top \in Frames /\ ~Aborted
      /\ Top.kind # "call"
  BY InForceFacts DEF TopIs
<1>2. Height # 1
  BY <1>1 DEF HInv, Shape
<1>3. QED
  BY <1>1, <1>2, InForceFacts

LEMMA NextLogFacts ==
  ASSUME HInv, stack # << >>, Height > 1, stack' = NextLog
  PROVE  /\ SameCalls(Height - 1) /\ Height' = Height - 1
         /\ stack'[Height - 1].next = stack[Height - 1].next + 1
<1>1. Height \in Nat /\ Height = Len(stack) /\ stack \in Seq(Frames) /\ Height - 1 \in 1 .. Height - 1
  BY InForceFacts DEF HInv, Typed, Height
<1>2. PICK f \in Seq(Frames) : f = Front(stack)
  BY <1>1, FrontFacts
<1>3. Len(f) = Height - 1 /\ \A k \in 1 .. Height - 1 : f[k] = stack[k]
  BY <1>1, <1>2, FrontFacts
<1>4. stack[Height - 1] \in Frames
  BY <1>1, InForceFacts
<1> DEFINE x == [stack[Height - 1] EXCEPT !.next = @ + 1]
<1>5. /\ x \in Frames /\ x.kind = stack[Height - 1].kind /\ x.layer = stack[Height - 1].layer
      /\ x.settings = stack[Height - 1].settings /\ x.mlog = stack[Height - 1].mlog
      /\ x.what = stack[Height - 1].what /\ x.next = stack[Height - 1].next + 1
  BY <1>4, FrameChanged
<1>6. stack' = [f EXCEPT ![Height - 1] = x]
  BY <1>1, <1>2, <1>3 DEF NextLog
<1> HIDE DEF x
<1>7. /\ stack' \in Seq(Frames) /\ Len(stack') = Height - 1
      /\ \A k \in 1 .. Height - 1 : stack'[k] = IF k = Height - 1 THEN x ELSE stack[k]
  <2>1. /\ [f EXCEPT ![Height - 1] = x] \in Seq(Frames) /\ Len([f EXCEPT ![Height - 1] = x]) = Len(f)
        /\ \A k \in 1 .. Len(f) : [f EXCEPT ![Height - 1] = x][k] = IF k = Height - 1 THEN x ELSE f[k]
    BY <1>1, <1>3, <1>5, ReplacedElement
  <2>2. QED
    BY <1>3, <1>6, <2>1
<1>8. PICK m \in Nat : m = Height - 1 /\ m >= 1
  BY <1>1
<1>9. \A k \in 1 .. m : /\ stack'[k].kind = stack[k].kind /\ stack'[k].layer = stack[k].layer
                        /\ stack'[k].settings = stack[k].settings /\ stack'[k].mlog = stack[k].mlog
                        /\ stack'[k].what = stack[k].what
  BY <1>5, <1>7, <1>8
<1>10. stack'[m].next = stack[m].next + 1
  BY <1>5, <1>7, <1>8
<1>11. SameCalls(m)
  BY <1>7, <1>8, <1>9 DEF SameCalls
<1>12. Height' = m
  BY <1>7, <1>8 DEF Height
<1>13. QED
  BY <1>8, <1>10, <1>11, <1>12

LEMMA AppendedSet ==
  ASSUME NEW S, NEW s \in Seq(S), NEW x \in S
  PROVE  ToSet(s) \subseteq ToSet(Append(s, x)) /\ x \in ToSet(Append(s, x))
<1>1. /\ Len(s) \in Nat /\ Append(s, x) \in Seq(S) /\ Len(Append(s, x)) = Len(s) + 1
      /\ Append(s, x)[Len(s) + 1] = x /\ \A k \in 1 .. Len(s) : Append(s, x)[k] = s[k]
  OBVIOUS
<1>2. DOMAIN s = 1 .. Len(s) /\ DOMAIN Append(s, x) = 1 .. Len(s) + 1
  BY <1>1
<1>3. Len(s) + 1 \in DOMAIN Append(s, x) /\ \A k \in DOMAIN s : k \in DOMAIN Append(s, x)
  BY <1>1, <1>2
<1>4. QED
  BY <1>1, <1>2, <1>3 DEF ToSet

LEMMA EndSyncStep ==
  ASSUME HInv, EndSync
  PROVE  HInv'
<1>1. /\ TopIs("sync") /\ ~exc /\ synced' = Append(synced, Top.what)
      /\ stack' = NextLog /\ settings' = Top.settings /\ active' = active /\ exc' = FALSE
      /\ UNCHANGED <<cbs, order, chosen, ran, wanted, outcome, depth>>
  BY DEF EndSync, Goes, appVars
<1>2. /\ stack # << >> /\ Height \in Nat /\ Height > 1 /\ Top = stack[Height] /\ Top.kind = "sync" /\ ~Aborted
      /\ Top.what \in Log
  BY <1>1, TopInner DEF TopIs, Frames
<1>3. /\ SameCalls(Height - 1) /\ Height' = Height - 1
      /\ stack'[Height - 1].next = stack[Height - 1].next + 1
  BY <1>1, <1>2, NextLogFacts
<1>4. /\ synced \in Seq(Log) /\ synced' \in Seq(Log)
      /\ ToSet(synced) \subseteq ToSet(synced') /\ Top.what \in ToSet(synced')
  <2>1. synced \in Seq(Log)
    BY DEF HInv, Typed
  <2>2. synced' \in Seq(Log)
    BY <1>1, <1>2, <2>1
  <2>3. QED
    BY <1>1, <1>2, <2>1, <2>2, AppendedSet
<1>5. Full' \/ Partial(Height)'
  <2>1. CASE Full
    BY <1>1, <1>4, <2>1 DEF Full
  <2>2. CASE ~Full
    <3>1. /\ Partial(Height - 1) /\ stack[Height - 1].next \in DOMAIN order
          /\ Top.what = order[stack[Height - 1].next]
      BY <1>2, <2>2 DEF HInv, Syncing, Partial
    <3>2. PICK p \in Nat : p = Height - 1
      BY <1>2
    <3>3. /\ stack[p].next \in Nat /\ order \in Seq(Log)
      <4>1. stack[p] \in Frames
        BY <1>2, <3>2, InForceFacts
      <4>2. QED
        BY <4>1 DEF HInv, Typed, Frames, FrameFields
    <3>4. \A i \in DOMAIN order : i < stack[p].next + 1 => i < stack[p].next \/ i = stack[p].next
      BY <3>3
    <3>5. \A i \in DOMAIN order : i < stack'[p].next => order[i] \in ToSet(synced')
      BY <1>3, <1>4, <3>1, <3>2, <3>4 DEF Partial
    <3>6. p \in 2 .. Height' /\ stack'[p].kind = "handler"
      BY <1>2, <1>3, <3>1, <3>2 DEF Partial, SameCalls
    <3>7. chosen.recovery # "ignore" /\ chosen.mlog = "autosync"
      BY <3>1 DEF Partial
    <3>8. Partial(p)'
      BY <1>1, <3>5, <3>6, <3>7 DEF Partial
    <3>9. QED
      BY <1>3, <3>2, <3>8
  <2>3. QED
    BY <2>1, <2>2
<1>6. ~Finishing
  BY <1>2 DEF Finishing, Invoking
<1>7. settings' = InForce(Height - 1) /\ active' \in Log \cup {NoLog} /\ exc' \in BOOLEAN
  BY <1>1, TopInner DEF HInv, Typed
<1>8. chosen.recovery # "ignore" => ran = cbs
  BY <1>2, <1>6, Settled
<1>9. depth' = IF Top.kind = "invoke" /\ Top.layer = 0 THEN 0 ELSE depth
  BY <1>1, <1>2
<1>10. QED
  BY <1>1, <1>2, <1>3, <1>4, <1>5, <1>7, <1>8, <1>9, Popping

\* The exception of a nested failure leaves the function on top.
LEMMA InnerThrows ==
  ASSUME HInv, TopIs("sync") \/ TopIs("invoke"), exc, stack' = Front(stack), settings' = Top.settings,
         active' = active, exc' \in BOOLEAN, UNCHANGED <<cbs, order, chosen, ran, wanted, outcome, synced>>,
         depth' = IF Top.kind = "invoke" /\ Top.layer = 0 THEN 0 ELSE depth
  PROVE  HInv'
<1>1. Full' /\ (chosen.recovery # "ignore" => ran = cbs)
  BY TopInner, Settled, FullKept
<1>2. SameCalls(Height - 1) /\ settings' = InForce(Height - 1)
  BY TopInner, FrontSame
<1>3. active' \in Log \cup {NoLog} /\ synced' \in Seq(Log)
  BY DEF HInv, Typed
<1>4. QED
  BY <1>1, <1>2, <1>3, TopInner, Popping

\* It becomes a jump only out of the application's own handler.
LEMMA InnerJumps ==
  ASSUME HInv, TopIs("sync") \/ TopIs("invoke"), exc, Top.settings.resume = "jump", Jump(Top.settings, active),
         UNCHANGED <<cbs, order, chosen, ran, synced>>,
         depth' = IF Top.kind = "invoke" /\ Top.layer = 0 THEN 0 ELSE depth
  PROVE  HInv'
<1>1. Raw(Height - 1)
  BY TopInner, InForceFacts
<1>2. Top.settings = chosen /\ \A j \in 1 .. Height - 1 : ~Invoking(j)
  BY <1>1, TopInner, RawFacts
<1>3. depth' = 0
  <2>1. CASE Top.kind = "invoke"
    BY <1>2, <2>1, TopInner DEF HInv, Layers, Invoking
  <2>2. CASE Top.kind # "invoke"
    <3>1. \A j \in 1 .. Height : ~Invoking(j)
      BY <1>2, <2>2, TopInner DEF Invoking
    <3>2. QED
      BY <2>2, <3>1, TopInner DEF HInv, Layers
  <2>3. QED
    BY <2>1, <2>2
<1>4. Full /\ (chosen.recovery # "ignore" => ran = cbs)
  BY TopInner, Settled
<1>5. active \in Log \cup {NoLog}
  BY DEF HInv, Typed
<1>6. QED
  BY <1>2, <1>3, <1>4, <1>5, TopInner, Jumping

LEMMA SyncThrowsStep ==
  ASSUME HInv, SyncThrows
  PROVE  HInv'
<1>1. /\ TopIs("sync") /\ exc /\ ApiCatches(Goes(NextLog, Top.settings, active, FALSE))
      /\ UNCHANGED <<cbs, order, chosen, ran, synced, depth>> /\ Top.kind = "sync"
  BY DEF SyncThrows, appVars, TopIs
<1>2. Top.settings.resume \in {"jump", "throw", "return"}
  BY <1>1, TopInner DEF Frames, FrameFields, Modes
<1>3. CASE Top.settings.resume = "jump"
  BY <1>1, <1>3, InnerJumps DEF ApiCatches
<1>4. CASE Top.settings.resume = "throw"
  <2>1. /\ stack' = Front(stack) /\ settings' = Top.settings /\ active' = active /\ exc' = TRUE
        /\ UNCHANGED <<outcome, wanted>>
    BY <1>1, <1>4 DEF ApiCatches, Goes
  <2>2. QED
    BY <1>1, <2>1, InnerThrows
<1>5. CASE Top.settings.resume = "return"
  <2>1. /\ stack' = NextLog /\ settings' = Top.settings /\ active' = active /\ exc' = FALSE
        /\ UNCHANGED <<outcome, wanted>>
    BY <1>1, <1>5 DEF ApiCatches, Goes
  <2>2. SameCalls(Height - 1) /\ settings' = InForce(Height - 1)
    BY <1>1, <2>1, TopInner, NextLogFacts
  <2>3. Full' /\ (chosen.recovery # "ignore" => ran = cbs)
    BY <1>1, TopInner, Settled, FullKept
  <2>4. active' \in Log \cup {NoLog} /\ synced' \in Seq(Log) /\ exc' \in BOOLEAN
    BY <1>1, <2>1 DEF HInv, Typed
  <2>5. UNCHANGED <<cbs, order, chosen, ran, wanted, outcome>> /\ depth' = IF Top.kind = "invoke" /\ Top.layer = 0 THEN 0 ELSE depth
    BY <1>1, <2>1
  <2>6. QED
    BY <1>1, <2>2, <2>3, <2>4, <2>5, TopInner, Popping
<1>6. QED
  BY <1>2, <1>3, <1>4, <1>5

\* The innermost call itself changes its position.
LEMMA TopChanged ==
  ASSUME HInv, stack # << >>, Height > 1, NEW x \in Frames,
         x.kind = Top.kind, x.layer = Top.layer, x.settings = Top.settings, x.mlog = Top.mlog,
         stack' = [stack EXCEPT ![Height] = x]
  PROVE  /\ SameCalls(Height) /\ Height' = Height /\ Top' = x
         /\ \A k \in 1 .. Height - 1 : stack'[k] = stack[k]
<1>1. stack \in Seq(Frames) /\ Height \in Nat /\ Height = Len(stack) /\ Height \in 1 .. Len(stack) /\ Top = stack[Height]
  BY InForceFacts DEF HInv, Typed, Height
<1>2. /\ stack' \in Seq(Frames) /\ Len(stack') = Height
      /\ \A k \in 1 .. Height : stack'[k] = IF k = Height THEN x ELSE stack[k]
  BY <1>1, ReplacedElement
<1>3. Height' = Height /\ Top' = x /\ \A k \in 1 .. Height - 1 : stack'[k] = stack[k]
  <2>1. Height' = Height
    BY <1>2 DEF Height
  <2>2. Top' = stack'[Height]
    BY <1>2 DEF Top, Last
  <2>3. stack'[Height] = x /\ \A k \in 1 .. Height - 1 : stack'[k] = stack[k]
    BY <1>1, <1>2
  <2>4. QED
    BY <2>1, <2>2, <2>3
<1>4. stack'[1].what = stack[1].what
  BY <1>1, <1>3
<1>5. \A k \in 1 .. Height : /\ stack'[k].kind = stack[k].kind /\ stack'[k].layer = stack[k].layer
                           /\ stack'[k].settings = stack[k].settings /\ stack'[k].mlog = stack[k].mlog
  BY <1>1, <1>2
<1>6. QED
  BY <1>2, <1>3, <1>4, <1>5 DEF SameCalls

\* Callbacks come before the logs: they leave the handler's place as it is.
LEMMA SyncingKept ==
  ASSUME HInv, TopIs("invoke"), Top'.kind = "invoke", Height' = Height,
         \A k \in 1 .. Height - 1 : stack'[k] = stack[k], exc' = FALSE, UNCHANGED <<order, chosen, synced>>
  PROVE  Syncing'
<1>1. Top.kind = "invoke"
  BY DEF TopIs
<1>2. CASE Full
  BY <1>2, FullKept DEF Syncing
<1>3. CASE ~Full
  <2>1. Partial(Height - 1)
    BY <1>1, <1>3, TopInner DEF HInv, Syncing, Partial
  <2>2. PICK p \in Nat : p = Height - 1
    BY TopInner
  <2>3. Height' \in Nat /\ p <= Height' /\ stack'[p] = stack[p] /\ Height' - 1 = p
    BY <2>2, TopInner
  <2>4. Partial(p)'
    BY <2>1, <2>2, <2>3, PartialKept
  <2>5. QED
    BY <2>3, <2>4 DEF Syncing
<1>4. QED
  BY <1>2, <1>3

LEMMA BeginCallbackStep ==
  ASSUME HInv, BeginCallback
  PROVE  HInv'
<1>1. /\ TopIs("invoke") /\ exc = FALSE /\ Top.what = "between" /\ Top.next <= Len(cbs) /\ MostRecent
      /\ ran' = Append(ran, cbs[Top.next]) /\ Top.kind = "invoke"
      /\ UNCHANGED <<cbs, order, chosen, wanted, settings, depth, active, exc, outcome, synced>>
  BY DEF BeginCallback, appVars, TopIs, HInv, Typed
<1>2. /\ stack # << >> /\ Height \in Nat /\ Height > 1 /\ Top = stack[Height] /\ Top \in Frames /\ ~Aborted
      /\ Top.next \in Nat \ {0} /\ cbs \in Seq(Callback) /\ ran \in Seq(Callback) /\ synced \in Seq(Log)
      /\ active \in Log \cup {NoLog}
  BY <1>1, TopInner DEF HInv, Typed, Frames, FrameFields
<1>3. PICK x : x = [Top EXCEPT !.what = "running"]
  OBVIOUS
<1>4. /\ x \in Frames /\ x.kind = Top.kind /\ x.layer = Top.layer /\ x.settings = Top.settings
      /\ x.mlog = Top.mlog /\ x.what = "running" /\ x.next = Top.next
  BY <1>1, <1>2, <1>3, FrameChanged
<1>5. stack' = [stack EXCEPT ![Height] = x]
  BY <1>2, <1>3 DEF BeginCallback, Height
<1>6. /\ SameCalls(Height) /\ Height' = Height /\ Top' = x
      /\ \A k \in 1 .. Height - 1 : stack'[k] = stack[k]
  BY <1>2, <1>4, <1>5, TopChanged
<1>7. cbs[Top.next] \in Callback /\ ran' \in Seq(Callback)
  BY <1>1, <1>2
<1>8. Syncing'
  BY <1>1, <1>4, <1>6, SyncingKept
<1>9. Recent'
  <2>1. SUFFICES ASSUME chosen.recovery # "ignore" PROVE Recent'
    BY <1>1 DEF Recent
  <2>2. Finishing
    BY <1>1, <1>2 DEF Finishing, Invoking
  <2>3. ran = SubSeq(cbs, 1, Top.next - 1)
    BY <1>1, <1>2, <2>1, <2>2 DEF HInv, Recent
  <2>4. ran' = SubSeq(cbs, 1, Top.next)
    <3>1. Top.next \in 1 .. Len(cbs) /\ 1 \in 1 .. Len(cbs)
      BY <1>1, <1>2
    <3>2. SubSeq(cbs, 1, Top.next) = SubSeq(cbs, 1, Top.next - 1) \o <<cbs[Top.next]>>
      BY <1>2, <3>1, SubSeqRecursiveSecond
    <3>3. Append(ran, cbs[Top.next]) = ran \o <<cbs[Top.next]>>
      BY <1>2, <1>7, AppendIsConcat
    <3>4. QED
      BY <1>1, <2>3, <3>2, <3>3
  <2>5. Finishing'
    BY <1>1, <1>2, <1>4, <1>6 DEF Finishing, Invoking, MostRecent, SameCalls, Top, Last, Height
  <2>6. QED
    BY <1>1, <1>4, <1>6, <2>4, <2>5 DEF Recent
<1>10. QED
  BY <1>1, <1>2, <1>6, <1>7, <1>8, <1>9, GoingOn

LEMMA EndCallbackStep ==
  ASSUME HInv, EndCallback
  PROVE  HInv'
<1>1. /\ TopIs("invoke") /\ exc = FALSE /\ Top.what = "running" /\ Top.kind = "invoke"
      /\ UNCHANGED <<cbs, order, chosen, wanted, settings, depth, active, exc, outcome, synced, ran>>
  BY DEF EndCallback, appVars, TopIs, HInv, Typed
<1>2. /\ stack # << >> /\ Height \in Nat /\ Height > 1 /\ Top = stack[Height] /\ Top \in Frames /\ ~Aborted
      /\ Top.next \in Nat \ {0} /\ cbs \in Seq(Callback) /\ ran \in Seq(Callback) /\ synced \in Seq(Log)
      /\ active \in Log \cup {NoLog} /\ stack \in Seq(Frames)
  BY <1>1, TopInner DEF HInv, Typed, Frames, FrameFields
<1>3. PICK y : y = [Top EXCEPT !.what = "between"]
  OBVIOUS
<1>4. PICK x : x = [y EXCEPT !.next = @ + 1]
  OBVIOUS
<1>5. /\ y \in Frames /\ y.kind = Top.kind /\ y.layer = Top.layer /\ y.settings = Top.settings
      /\ y.mlog = Top.mlog /\ y.what = "between" /\ y.next = Top.next
  BY <1>1, <1>2, <1>3, FrameChanged
<1>6. /\ x \in Frames /\ x.kind = Top.kind /\ x.layer = Top.layer /\ x.settings = Top.settings
      /\ x.mlog = Top.mlog /\ x.what = "between" /\ x.next = Top.next + 1
  BY ZenonT(60), <1>4, <1>5, FrameChanged
<1>7. stack' = [stack EXCEPT ![Height] = x]
  <2>1. stack' = [[stack EXCEPT ![Height] = y] EXCEPT ![Height].next = @ + 1]
    BY <1>2, <1>3 DEF EndCallback, Height
  <2>2. [stack EXCEPT ![Height] = y][Height] = y
    BY <1>2 DEF Height
  <2>3. stack' = [[stack EXCEPT ![Height] = y] EXCEPT ![Height] = x]
    BY <1>4, <2>1, <2>2
  <2>4. QED
    BY <2>3
<1>8. /\ SameCalls(Height) /\ Height' = Height /\ Top' = x
      /\ \A k \in 1 .. Height - 1 : stack'[k] = stack[k]
  BY <1>2, <1>6, <1>7, TopChanged
<1>9. Syncing'
  BY <1>1, <1>6, <1>8, SyncingKept
<1>10. Finishing' <=> Finishing
  BY <1>1, <1>2, <1>6, <1>8 DEF Finishing, Invoking, MostRecent, SameCalls, Top, Last, Height
<1>11. Recent'
  <2>1. CASE Finishing /\ chosen.recovery # "ignore"
    <3>1. ran = SubSeq(cbs, 1, Top.next) /\ Top.next <= Len(cbs)
      BY <1>1, <1>2, <2>1 DEF HInv, Recent
    <3>2. x.next <= Len(cbs) + 1 /\ x.next - 1 = Top.next
      BY <1>2, <1>6, <3>1
    <3>3. QED
      BY <1>1, <1>6, <1>8, <1>10, <2>1, <3>1, <3>2 DEF Recent
  <2>2. CASE ~(Finishing /\ chosen.recovery # "ignore")
    BY <1>1, <1>2, <1>10, <2>2 DEF HInv, Recent
  <2>3. QED
    BY <2>1, <2>2
<1>12. QED
  BY <1>1, <1>2, <1>8, <1>9, <1>11, GoingOn

LEMMA CatchInCallbackStep ==
  ASSUME HInv, CatchInCallback
  PROVE  HInv'
<1>1. /\ TopIs("invoke") /\ exc /\ exc' = FALSE /\ UNCHANGED stack
      /\ UNCHANGED <<cbs, order, chosen, wanted, settings, depth, active, outcome, synced, ran>>
  BY DEF CatchInCallback, appVars
<1>2. Full' /\ (chosen.recovery # "ignore" => ran = cbs)
  BY <1>1, TopInner, Settled, FullKept
<1>3. SameCalls(Height)
  BY <1>1 DEF SameCalls, HInv, Typed, Height
<1>4. Recent'
  <2>1. chosen.recovery # "ignore" => ~Finishing
    BY <1>1, TopInner DEF HInv, Recent
  <2>2. Finishing' <=> Finishing
    BY <1>1 DEF Finishing, Invoking, MostRecent, Top, Height
  <2>3. QED
    BY <1>1, <1>2, <2>1, <2>2 DEF Recent
<1>5. ran' \in Seq(Callback) /\ synced' \in Seq(Log) /\ active' \in Log \cup {NoLog}
  BY <1>1 DEF HInv, Typed
<1>6. QED
  BY <1>1, <1>2, <1>3, <1>4, <1>5, TopInner, GoingOn DEF Syncing

\* callback_invoke_all returns, to Fenix_Callback_invoke_all or to the handler.
LEMMA InvokeReturnsStep ==
  ASSUME HInv, TopIs("invoke"), LeaveDepth, InvokeReturns, UNCHANGED <<cbs, order, chosen, ran, synced>>,
         chosen.recovery # "ignore" => ran = cbs
  PROVE  HInv'
<1>1. Top.kind = "invoke" /\ Invoking(Height) /\ Height = Len(stack)
  BY TopInner DEF TopIs, Invoking, Height
<1>2. depth' = IF Top.kind = "invoke" /\ Top.layer = 0 THEN 0 ELSE depth
  BY <1>1 DEF LeaveDepth
<1>3. Full \/ Partial(Height - 1)
  BY <1>1, TopInner DEF HInv, Syncing, Partial
<1>4. CASE Height = 2
  <2>1. ~Invoking(1)
    BY TopInner DEF HInv, Shape, Invoking
  <2>2. depth' = 0
    BY <1>1, <1>2, <1>4, <2>1, TopInner DEF HInv, Layers
  <2>3. Full
    BY <1>3, <1>4 DEF Partial
  <2>4. Back("ok", Top.settings, active) /\ "ok" \in Hows /\ active \in Log \cup {NoLog}
    BY <1>1, <1>4 DEF InvokeReturns, Hows, HInv, Typed
  <2>5. stack[1].what \in {"plain", "send", "wait"} => Top.settings = chosen
    BY <1>4, TopInner, InForceFacts DEF Raw
  <2>6. QED
    BY <2>2, <2>3, <2>4, <2>5, TopInner, Returning
<1>5. CASE Height # 2
  <2>1. /\ stack' = Front(stack) /\ settings' = Top.settings /\ active' = active /\ exc' = FALSE
        /\ UNCHANGED <<outcome, wanted>>
    BY <1>1, <1>5 DEF InvokeReturns, Goes
  <2>2. /\ SameCalls(Height - 1) /\ Height' = Height - 1 /\ settings' = InForce(Height - 1)
        /\ \A k \in 1 .. Height - 1 : stack'[k] = stack[k]
    BY <2>1, TopInner, FrontSame
  <2>3. Full' \/ Partial(Height)'
    <3>1. CASE Full
      BY <3>1, FullKept
    <3>2. CASE Partial(Height - 1)
      <4>1. PICK p \in Nat : p = Height - 1
        BY TopInner
      <4>2. Height' = p /\ stack'[p] = stack[p]
        BY <2>2, <4>1, TopInner
      <4>3. Partial(p)'
        <5>1. Partial(p) /\ Height' \in Nat /\ p <= Height'
          BY <3>2, <4>1, <4>2
        <5>2. QED
          BY <2>1, <4>2, <5>1, PartialKept
      <4>4. QED
        BY <4>2, <4>3
    <3>3. QED
      BY <1>3, <3>1, <3>2
  <2>4. active' \in Log \cup {NoLog} /\ synced' \in Seq(Log) /\ exc' \in BOOLEAN
    BY <2>1 DEF HInv, Typed
  <2>5. UNCHANGED <<cbs, order, chosen, ran, wanted, outcome>>
    BY <2>1
  <2>6. QED
    BY <1>2, <2>2, <2>3, <2>4, <2>5, TopInner, Popping
<1>6. QED
  BY <1>4, <1>5

LEMMA EndInvokeStep ==
  ASSUME HInv, EndInvoke
  PROVE  HInv'
<1>1. /\ TopIs("invoke") /\ Top.what = "between" /\ (Top.next > Len(cbs) \/ ~MostRecent)
      /\ LeaveDepth /\ InvokeReturns /\ UNCHANGED <<cbs, order, chosen, ran, synced>>
  BY DEF EndInvoke, appVars
<1>2. chosen.recovery # "ignore" => ran = cbs
  <2>1. CASE Finishing /\ chosen.recovery # "ignore"
    <3>1. /\ Top.next > Len(cbs) /\ Top.next <= Len(cbs) + 1 /\ Top.next \in Nat /\ cbs \in Seq(Callback)
          /\ ran = SubSeq(cbs, 1, Top.next - 1)
      BY <1>1, <2>1, TopInner DEF HInv, Recent, Finishing, Typed, Frames, FrameFields
    <3>2. Top.next - 1 = Len(cbs) /\ SubSeq(cbs, 1, Len(cbs)) = cbs
      BY <3>1, SubSeqFull
    <3>3. QED
      BY <3>1, <3>2
  <2>2. QED
    BY <1>1, <2>1, TopInner, Settled
<1>3. QED
  BY <1>1, <1>2, InvokeReturnsStep

LEMMA SquashStep ==
  ASSUME HInv, Squash
  PROVE  HInv'
<1>1. /\ TopIs("invoke") /\ exc /\ LeaveDepth /\ InvokeReturns
      /\ UNCHANGED <<cbs, order, chosen, ran, synced>>
  BY DEF Squash, Uncaught, appVars
<1>2. chosen.recovery # "ignore" => ran = cbs
  BY <1>1, TopInner, Settled
<1>3. QED
  BY <1>1, <1>2, InvokeReturnsStep

LEMMA RethrowStep ==
  ASSUME HInv, Rethrow
  PROVE  HInv'
<1>1. /\ TopIs("invoke") /\ exc /\ LeaveDepth /\ ApiCatches(InvokeReturns) /\ Top.kind = "invoke"
      /\ UNCHANGED <<cbs, order, chosen, ran, synced>>
  BY DEF Rethrow, Uncaught, appVars, TopIs
<1>2. Top.settings.resume \in {"jump", "throw", "return"}
  BY <1>1, TopInner DEF Frames, FrameFields, Modes
<1>3. depth' = IF Top.kind = "invoke" /\ Top.layer = 0 THEN 0 ELSE depth
  BY <1>1 DEF LeaveDepth
<1>4. CASE Top.settings.resume = "jump"
  BY <1>1, <1>3, <1>4, InnerJumps DEF ApiCatches
<1>5. CASE Top.settings.resume = "throw"
  <2>1. /\ stack' = Front(stack) /\ settings' = Top.settings /\ active' = active /\ exc' = TRUE
        /\ UNCHANGED <<outcome, wanted>>
    BY <1>1, <1>5 DEF ApiCatches, Goes
  <2>2. QED
    BY <1>1, <1>3, <2>1, InnerThrows
<1>6. CASE Top.settings.resume = "return"
  <2>1. InvokeReturns
    BY <1>1, <1>6 DEF ApiCatches
  <2>2. chosen.recovery # "ignore" => ran = cbs
    BY <1>1, TopInner, Settled
  <2>3. QED
    BY <1>1, <2>1, <2>2, InvokeReturnsStep
<1>7. QED
  BY <1>2, <1>4, <1>5, <1>6

-----------------------------------------------------------------------------
(* The active log *)

(***************************************************************************)
(* The log that is active in the k-th call under way: none in what checks   *)
(* for failures, and none below a handler; otherwise that of the            *)
(* application.                                                             *)
(***************************************************************************)
LogInForce(k) ==
  IF stack[1].what \in {"detect", "probe"} \/ (\E j \in 2 .. k : stack[j].kind = "handler")
  THEN NoLog ELSE wanted

\* Every handler under way activates what was active before it; only
\* Fenix_Callback_invoke_all calls anything else inside the application's call.
LogsKept ==
  /\ (stack = << >> /\ ~Aborted) => active = wanted
  /\ stack # << >> =>
       /\ stack[1].mlog = wanted /\ active = LogInForce(Height)
       /\ \A k \in 2 .. Height : stack[k].kind = "handler" => stack[k].mlog = LogInForce(k - 1)
       /\ Height >= 2 => stack[2].kind = "handler" \/ stack[1].what = "invoke"

LEMMA LogsBack ==
  ASSUME HInv, LogsKept, stack # << >>, NEW how, NEW scoped, NEW log, Back(how, scoped, log),
         log = LogInForce(1)
  PROVE  LogsKept'
<1>1. stack' = << >> /\ wanted' = wanted /\ stack[1].mlog = wanted
  BY DEF Back, LogsKept
<1>2. active' = wanted
  BY <1>1 DEF Back, LogInForce
<1>3. QED
  BY <1>1, <1>2 DEF LogsKept

LEMMA LogsJump ==
  ASSUME NEW scoped, NEW log, Jump(scoped, log), log = NoLog
  PROVE  LogsKept'
BY DEF Jump, LogsKept

\* The calls that go on find the log active that was active in them.
LEMMA LogsGoOn ==
  ASSUME HInv, LogsKept, stack # << >>, NEW m \in {Height, Height - 1}, m >= 1, Len(stack') = m,
         \A k \in 1 .. m : stack'[k].kind = stack[k].kind /\ stack'[k].mlog = stack[k].mlog,
         stack'[1].what = stack[1].what, wanted' = wanted, active' = LogInForce(m)
  PROVE  LogsKept'
<1>1. Height \in Nat /\ m \in Nat /\ m <= Height /\ Height' = m /\ stack' # << >>
  BY InForceFacts DEF Height
<1>2. \A k \in 1 .. m : LogInForce(k)' = LogInForce(k)
  BY <1>1 DEF LogInForce
<1>3. stack'[1].mlog = wanted' /\ active' = LogInForce(m)'
  BY <1>1, <1>2 DEF LogsKept
<1>4. ASSUME NEW k \in 2 .. m, stack'[k].kind = "handler" PROVE stack'[k].mlog = LogInForce(k - 1)'
  <2>1. k \in 2 .. Height /\ k \in 1 .. m /\ k - 1 \in 1 .. m
    BY <1>1
  <2>2. QED
    BY <1>2, <1>4, <2>1 DEF LogsKept
<1>5. m >= 2 => stack'[2].kind = "handler" \/ stack'[1].what = "invoke"
  BY <1>1 DEF LogsKept
<1>6. QED
  BY <1>1, <1>3, <1>4, <1>5 DEF LogsKept

LEMMA LogsSame ==
  ASSUME HInv, LogsKept, stack # << >>, NEW m \in {Height, Height - 1}, m >= 1, SameCalls(m),
         wanted' = wanted, active' = LogInForce(m)
  PROVE  LogsKept'
<1>1. /\ Len(stack') = m /\ stack'[1].what = stack[1].what
      /\ \A k \in 1 .. m : stack'[k].kind = stack[k].kind /\ stack'[k].mlog = stack[k].mlog
  BY DEF SameCalls
<1>2. QED
  BY <1>1, LogsGoOn

\* What is active inside the call on top, and in the one below.
LEMMA LogsTop ==
  ASSUME HInv, LogsKept, stack # << >>
  PROVE  /\ active = LogInForce(Height) /\ stack[1].mlog = wanted
         /\ Height > 1 /\ Top.kind = "handler" => active = NoLog /\ Top.mlog = LogInForce(Height - 1)
         /\ Height > 1 /\ Top.kind # "handler" => active = LogInForce(Height - 1)
<1>1. Height \in Nat /\ Height >= 1 /\ Top = stack[Height]
  BY InForceFacts
<1>2. active = LogInForce(Height) /\ stack[1].mlog = wanted
  BY DEF LogsKept
<1>3. ASSUME Height > 1, Top.kind = "handler" PROVE active = NoLog /\ Top.mlog = LogInForce(Height - 1)
  <2>1. Height \in 2 .. Height /\ stack[Height].kind = "handler"
    BY <1>1, <1>3
  <2>2. QED
    BY <1>1, <1>2, <2>1 DEF LogsKept, LogInForce
<1>4. ASSUME Height > 1, Top.kind # "handler" PROVE active = LogInForce(Height - 1)
  <2>1. \A j \in 2 .. Height : stack[j].kind = "handler" => j \in 2 .. Height - 1
    BY <1>1, <1>4
  <2>2. \A j \in 2 .. Height - 1 : j \in 2 .. Height
    BY <1>1
  <2>3. QED
    BY <1>2, <2>1, <2>2 DEF LogInForce
<1>5. QED
  BY <1>2, <1>3, <1>4

\* Only the application's own handler, or what it calls, jumps.
LEMMA LogsRaw ==
  ASSUME HInv, LogsKept, stack # << >>, Height > 1, Raw(Height - 1)
  PROVE  active = NoLog
<1>1. Height \in Nat
  BY InForceFacts
<1>2. stack[1].what # "invoke" /\ 2 \in 2 .. Height
  BY <1>1 DEF Raw
<1>3. stack[2].kind = "handler"
  BY <1>1, <1>2 DEF LogsKept
<1>4. QED
  BY <1>2, <1>3 DEF LogsKept, LogInForce

LEMMA LogsBottom ==
  ASSUME HInv, LogsKept, TopIs("call")
  PROVE  stack # << >> /\ Height = 1 /\ active = LogInForce(1)
BY TopCall, LogsTop

LEMMA LogsConfigure ==
  ASSUME HInv, LogsKept, Configure
  PROVE  LogsKept'
<1>1. ASSUME NEW name \in DOMAIN settings, NEW option \in {m[name] : m \in Modes}, SetOption(name, option)
      PROVE  LogsKept'
  BY <1>1, AppFacts DEF SetOption, LogsKept
<1>2. ASSUME NEW c \in Callback, Register(c) PROVE LogsKept'
  BY <1>2, AppFacts DEF Register, LogsKept
<1>3. CASE PopCallback
  BY <1>3, AppFacts DEF PopCallback, LogsKept
<1>4. ASSUME NEW id \in Log, CreateLog(id) PROVE LogsKept'
  BY <1>4, AppFacts DEF CreateLog, LogsKept
<1>5. ASSUME NEW id \in Log, ActivateLog(id) PROVE LogsKept'
  BY <1>5, AppFacts DEF ActivateLog, LogsKept
<1>6. ASSUME NEW id \in Log, DeleteLog(id) PROVE LogsKept'
  BY <1>6, AppFacts DEF DeleteLog, LogsKept
<1>7. QED
  BY <1>1, <1>2, <1>3, <1>4, <1>5, <1>6 DEF Configure

LEMMA LogsCall ==
  ASSUME HInv, LogsKept, NEW what \in CallKinds, Call(what)
  PROVE  LogsKept'
<1> DEFINE call == Frame("call", what, 0)
           inner == [Frame("invoke", "between", depth) EXCEPT !.settings = Runtime(settings)]
<1>1. active = wanted /\ wanted' = wanted
  BY AppFacts DEF Call, LogsKept
<1>2. /\ call.kind = "call" /\ call.what = what /\ call.mlog = wanted
      /\ inner.kind = "invoke"
  BY <1>1 DEF Frame
<1>3. /\ what # "invoke" => stack' = <<call>>
      /\ what = "invoke" => stack' = <<call, inner>>
      /\ active' = IF what \in {"detect", "probe"} THEN NoLog ELSE active
  BY DEF Call
<1> HIDE DEF call, inner
<1>4. CASE what # "invoke"
  <2>1. stack' # << >> /\ stack'[1] = call /\ Height' = 1
    BY <1>3, <1>4 DEF Height
  <2>2. active' = LogInForce(1)'
    BY <1>1, <1>2, <1>3, <2>1 DEF LogInForce
  <2>3. QED
    BY <1>1, <1>2, <2>1, <2>2 DEF LogsKept
<1>5. CASE what = "invoke"
  <2>1. stack' # << >> /\ stack'[1] = call /\ stack'[2] = inner /\ Height' = 2
    BY <1>3, <1>5 DEF Height
  <2>2. \A j \in 2 .. 2 : stack'[j].kind = "invoke"
    BY <1>2, <2>1
  <2>3. active' = LogInForce(2)'
    BY <1>1, <1>2, <1>3, <1>5, <2>1, <2>2 DEF LogInForce
  <2>4. QED
    BY <1>1, <1>2, <1>5, <2>1, <2>2, <2>3 DEF LogsKept
<1>6. QED
  BY <1>4, <1>5

LEMMA LogsCallEnds ==
  ASSUME HInv, LogsKept, CallSucceeds \/ CallRetries \/ CallThrows
  PROVE  LogsKept'
<1>1. stack # << >> /\ Height = 1 /\ active = LogInForce(1)
  BY LogsBottom DEF CallSucceeds, CallRetries, CallThrows
<1>2. CASE CallSucceeds
  BY <1>1, <1>2, LogsBack DEF CallSucceeds
<1>3. CASE CallRetries
  <2>1. CASE stack[1].what = "send"
    BY <1>1, <1>3, <2>1, LogsBack DEF CallRetries
  <2>2. CASE stack[1].what # "send"
    BY <1>3, <2>2 DEF CallRetries, Goes, LogsKept, LogInForce, Height, Aborted
  <2>3. QED
    BY <2>1, <2>2
<1>4. CASE CallThrows
  BY <1>1, <1>4, LogsBack DEF CallThrows
<1>5. QED
  BY <1>2, <1>3, <1>4

LEMMA LogsHandlerRepairs ==
  ASSUME HInv, LogsKept, HandlerRepairs
  PROVE  LogsKept'
<1>1. PICK n \in Nat : n = Height /\ n >= 1
  BY InForceFacts, InMPIFacts DEF HandlerRepairs
<1>2. /\ stack # << >> /\ Top = stack[n] /\ stack[n].kind # "handler" /\ stack \in Seq(Frames) /\ Len(stack) = n
      /\ wanted' = wanted /\ active' = NoLog
  BY <1>1, InForceFacts, InMPIFacts DEF HandlerRepairs, HInv, Typed, Height
<1> DEFINE handler == Frame("handler", "sync", 0)
           inner == Frame("invoke", "between", IF depth = 0 THEN 0 ELSE depth + 1)
<1>3. /\ stack' = stack \o <<handler, inner>>
      /\ handler.kind = "handler" /\ handler.mlog = active /\ inner.kind = "invoke"
  BY DEF HandlerRepairs, Frame
<1> HIDE DEF handler, inner
<1>4. /\ stack' # << >> /\ Height' = n + 2 /\ stack'[n + 1] = handler /\ stack'[n + 2] = inner
      /\ \A k \in 1 .. n : stack'[k] = stack[k]
  BY <1>1, <1>2, <1>3 DEF Height
<1>5. \A k \in 1 .. n : LogInForce(k)' = LogInForce(k)
  BY <1>1, <1>2, <1>4 DEF LogInForce
<1>6. active' = LogInForce(n + 2)'
  <2>1. stack'[n + 1].kind = "handler"
    BY <1>3, <1>4, Zenon
  <2>2. n + 1 \in 2 .. n + 2
    BY <1>1
  <2>3. QED
    BY <1>2, <2>1, <2>2 DEF LogInForce
<1>7. ASSUME NEW k \in 2 .. n + 2, stack'[k].kind = "handler" PROVE stack'[k].mlog = LogInForce(k - 1)'
  <2>1. CASE k <= n
    <3>1. k \in 2 .. Height /\ k \in 1 .. n /\ k - 1 \in 1 .. n
      BY <1>1, <2>1
    <3>2. QED
      BY <1>2, <1>4, <1>5, <1>7, <3>1 DEF LogsKept
  <2>2. CASE k = n + 1
    <3>1. k - 1 = n /\ n \in 1 .. n
      BY <1>1, <2>2
    <3>2. active = LogInForce(n)
      BY <1>1, <1>2, LogsTop
    <3>3. QED
      BY <1>3, <1>4, <1>5, <2>2, <3>1, <3>2
  <2>3. CASE k = n + 2
    BY <1>3, <1>4, <1>7, <2>3
  <2>4. QED
    BY <1>1, <2>1, <2>2, <2>3
<1>8. stack'[2].kind = "handler" \/ stack'[1].what = "invoke"
  <2>1. CASE n = 1
    BY <1>3, <1>4, <2>1
  <2>2. CASE n >= 2
    BY <1>1, <1>2, <1>4, <2>2 DEF LogsKept
  <2>3. QED
    BY <1>1, <2>1, <2>2
<1>9. stack'[1].mlog = wanted'
  BY <1>1, <1>2, <1>4, LogsTop
<1>10. QED
  BY <1>1, <1>4, <1>6, <1>7, <1>8, <1>9 DEF LogsKept

LEMMA LogsErrorReturned ==
  ASSUME HInv, LogsKept, stack # << >>, NEW log, NEW how, ErrorReturned(log, how), log = LogInForce(1),
         Height \in {1, 2}
  PROVE  LogsKept'
<1>1. CASE stack[1].what # "wait"
  BY <1>1, LogsBack DEF ErrorReturned
<1>2. CASE stack[1].what = "wait"
  <2>1. stack' = <<stack[1]>> /\ active' = log /\ wanted' = wanted
    BY <1>2 DEF ErrorReturned, Goes
  <2>2. 1 \in {Height, Height - 1}
    OBVIOUS
  <2>3. /\ Len(stack') = 1 /\ stack'[1].what = stack[1].what
        /\ \A k \in 1 .. 1 : stack'[k].kind = stack[k].kind /\ stack'[k].mlog = stack[k].mlog
    BY <2>1
  <2>4. QED
    BY <2>1, <2>2, <2>3, LogsGoOn
<1>3. QED
  BY <1>1, <1>2

LEMMA LogsHandlerIgnores ==
  ASSUME HInv, LogsKept, HandlerIgnores
  PROVE  LogsKept'
<1>1. /\ stack # << >> /\ Height \in Nat /\ Height >= 1 /\ Top.kind # "handler" /\ Top = stack[Height]
      /\ Height \in 1 .. Height /\ settings = InForce(Height) /\ settings \in Modes
  BY InMPIFacts, InForceFacts DEF HandlerIgnores, HInv, Typed
<1>2. Resume(stack, active, NoLog) /\ settings.resume \in {"jump", "throw", "return"}
  BY <1>1 DEF HandlerIgnores, Modes
<1>3. CASE settings.resume = "jump"
  BY <1>2, <1>3, LogsJump DEF Resume
<1>4. CASE settings.resume = "throw"
  BY <1>2, <1>4 DEF Resume, Goes, LogsKept, LogInForce, Height, Aborted
<1>5. CASE settings.resume = "return"
  <2>1. Height = 1
    BY <1>1, <1>5, InForceFacts DEF Raw
  <2>2. active = LogInForce(1)
    BY <1>1, <2>1, LogsTop
  <2>3. ErrorReturned(active, "error")
    BY <1>2, <1>5 DEF Resume
  <2>4. QED
    BY <1>1, <2>1, <2>2, <2>3, LogsErrorReturned
<1>6. QED
  BY <1>2, <1>3, <1>4, <1>5

LEMMA LogsHandlerUnhandled ==
  ASSUME HInv, LogsKept, HandlerUnhandled
  PROVE  LogsKept'
<1>1. /\ stack # << >> /\ Height \in Nat /\ Height >= 1 /\ Top.kind # "handler" /\ Top = stack[Height]
      /\ Height \in 1 .. Height /\ settings = InForce(Height)
  BY InMPIFacts, InForceFacts DEF HandlerUnhandled
<1>2. CASE settings.unhandled = "abort"
  <2>1. outcome' = [outcome EXCEPT !.how = "aborted"] /\ stack' = << >>
    BY <1>2 DEF HandlerUnhandled
  <2>2. outcome'.how = "aborted"
    BY <2>1 DEF HInv, Typed
  <2>3. QED
    BY <2>1, <2>2 DEF LogsKept, Aborted
<1>3. CASE settings.unhandled # "abort"
  <2>1. Height = 1
    BY <1>1, <1>3, InForceFacts DEF Raw
  <2>2. active = LogInForce(1)
    BY <1>1, <2>1, LogsTop
  <2>3. ErrorReturned(active, "unhandled")
    BY <1>3 DEF HandlerUnhandled
  <2>4. QED
    BY <1>1, <2>1, <2>2, <2>3, LogsErrorReturned
<1>4. QED
  BY <1>2, <1>3

LEMMA LogsHandlerEnds ==
  ASSUME HInv, LogsKept, HandlerResumes \/ HandlerThrows
  PROVE  LogsKept'
<1>1. TopIs("handler")
  BY DEF HandlerResumes, HandlerThrows
<1>2. /\ stack # << >> /\ Height \in Nat /\ Height > 1 /\ Top = stack[Height] /\ Top.kind = "handler"
      /\ settings = InForce(Height - 1) /\ settings \in Modes
      /\ active = NoLog /\ Top.mlog = LogInForce(Height - 1)
  BY <1>1, TopHandler, LogsTop DEF HInv, Typed
<1>3. ASSUME stack' = Front(stack), active' = Top.mlog, wanted' = wanted
      PROVE  LogsKept'
  BY <1>2, <1>3, FrontSame, LogsSame
<1>4. CASE HandlerThrows
  BY <1>3, <1>4 DEF HandlerThrows, Goes
<1>5. CASE HandlerResumes
  <2>1. Resume(Front(stack), Top.mlog, active) /\ settings.resume \in {"jump", "throw", "return"}
    BY <1>2, <1>5 DEF HandlerResumes, Modes
  <2>2. CASE settings.resume = "jump"
    BY <1>2, <2>1, <2>2, LogsJump DEF Resume
  <2>3. CASE settings.resume = "throw"
    BY <1>3, <2>1, <2>3 DEF Resume, Goes
  <2>4. CASE settings.resume = "return"
    <3>1. Height = 2
      <4>1. Height - 1 \in 1 .. Height /\ Height \in 1 .. Height /\ settings = InForce(Height)
        BY <1>2, InForceFacts
      <4>2. Raw(Height)
        BY <1>2, <2>4, <4>1, InForceFacts
      <4>3. QED
        BY <1>2, <4>2 DEF Raw
    <3>2. ErrorReturned(Top.mlog, "error")
      BY <2>1, <2>4 DEF Resume
    <3>3. Height - 1 = 1
      BY <3>1
    <3>4. Top.mlog = LogInForce(1)
      BY <1>2, <3>3, Zenon
    <3>5. QED
      BY <1>2, <3>1, <3>2, <3>4, LogsErrorReturned
  <2>5. QED
    BY <2>1, <2>2, <2>3, <2>4
<1>6. QED
  BY <1>4, <1>5

LEMMA LogsBeginSync ==
  ASSUME HInv, LogsKept, BeginSync
  PROVE  LogsKept'
<1>1. PICK n \in Nat : n = Height /\ n > 1 /\ stack # << >>
  BY TopHandler DEF BeginSync
<1> DEFINE sync == Frame("sync", order[Top.next], 0)
<1>2. stack' = Append(stack, sync) /\ sync.kind = "sync"
  BY DEF BeginSync, Goes, Frame
<1> HIDE DEF sync
<1>3. /\ stack \in Seq(Frames) /\ Len(stack) = n /\ active' = active /\ wanted' = wanted
  BY <1>1 DEF BeginSync, Goes, HInv, Typed, Height
<1>4. /\ stack' # << >> /\ Height' = n + 1 /\ stack'[n + 1] = sync
      /\ \A k \in 1 .. n : stack'[k] = stack[k]
  BY <1>1, <1>2, <1>3 DEF Height
<1>5. \A k \in 1 .. n : LogInForce(k)' = LogInForce(k)
  BY <1>1, <1>3, <1>4 DEF LogInForce
<1>6. LogInForce(n + 1)' = LogInForce(n)
  <2>1. \A j \in 2 .. n + 1 : stack'[j].kind = "handler" => j \in 2 .. n /\ stack[j].kind = "handler"
    <3>1. TAKE j \in 2 .. n + 1
    <3>2. HAVE stack'[j].kind = "handler"
    <3>3. j # n + 1
      BY <1>4, <3>2, <1>2, Zenon
    <3>4. j \in 2 .. n /\ j \in 1 .. n
      BY <1>1, <3>3
    <3>5. QED
      BY <1>4, <3>2, <3>4, Zenon
  <2>2. \A j \in 2 .. n : j \in 2 .. n + 1 /\ stack'[j] = stack[j]
    BY <1>1, <1>4
  <2>3. stack'[1] = stack[1]
    BY <1>1, <1>4
  <2>4. QED
    BY <1>3, <2>1, <2>2, <2>3 DEF LogInForce
<1>7. ASSUME NEW k \in 2 .. n + 1, stack'[k].kind = "handler" PROVE stack'[k].mlog = LogInForce(k - 1)'
  <2>1. k # n + 1
    BY <1>2, <1>4, <1>7, Zenon
  <2>2. k \in 2 .. Height /\ k \in 1 .. n /\ k - 1 \in 1 .. n
    BY <1>1, <1>7, <2>1
  <2>3. QED
    BY <1>1, <1>4, <1>5, <1>7, <2>2 DEF LogsKept
<1>8. stack'[1].mlog = wanted' /\ active' = LogInForce(n + 1)'
  BY <1>1, <1>3, <1>4, <1>6, LogsTop
<1>9. stack'[2].kind = "handler" \/ stack'[1].what = "invoke"
  BY <1>1, <1>4 DEF LogsKept
<1>10. QED
  BY <1>1, <1>4, <1>7, <1>8, <1>9 DEF LogsKept

\* The function on top ends; it has not changed the active log.
LEMMA LogsInnerEnds ==
  ASSUME HInv, LogsKept, TopIs("sync") \/ TopIs("invoke"), stack' \in {Front(stack), NextLog},
         active' = active, wanted' = wanted
  PROVE  LogsKept'
<1>1. /\ stack # << >> /\ Height \in Nat /\ Height > 1 /\ Top.kind # "handler"
  BY TopInner DEF TopIs
<1>2. SameCalls(Height - 1)
  BY <1>1, FrontSame, NextLogFacts
<1>3. active = LogInForce(Height - 1)
  BY <1>1, LogsTop
<1>4. QED
  BY <1>1, <1>2, <1>3, LogsSame

LEMMA LogsInnerJumps ==
  ASSUME HInv, LogsKept, TopIs("sync") \/ TopIs("invoke"), Top.settings.resume = "jump",
         Jump(Top.settings, active)
  PROVE  LogsKept'
<1>1. stack # << >> /\ Height > 1 /\ Raw(Height - 1)
  BY TopInner, InForceFacts
<1>2. QED
  BY <1>1, LogsRaw, LogsJump

LEMMA LogsSync ==
  ASSUME HInv, LogsKept, Sync
  PROVE  LogsKept'
<1>1. CASE BeginSync
  BY <1>1, LogsBeginSync
<1>2. CASE EndSync
  BY <1>2, LogsInnerEnds DEF EndSync, Goes
<1>3. CASE SyncThrows
  <2>1. TopIs("sync") /\ ApiCatches(Goes(NextLog, Top.settings, active, FALSE))
    BY <1>3 DEF SyncThrows
  <2>2. Top.settings.resume \in {"jump", "throw", "return"}
    BY <2>1, TopInner DEF Frames, FrameFields, Modes
  <2>3. CASE Top.settings.resume = "jump"
    BY <2>1, <2>3, LogsInnerJumps DEF ApiCatches
  <2>4. CASE Top.settings.resume # "jump"
    BY <2>1, <2>2, <2>4, LogsInnerEnds DEF ApiCatches, Goes
  <2>5. QED
    BY <2>3, <2>4
<1>4. QED
  BY <1>1, <1>2, <1>3 DEF Sync

LEMMA LogsInvokeReturns ==
  ASSUME HInv, LogsKept, TopIs("invoke"), InvokeReturns
  PROVE  LogsKept'
<1>1. stack # << >> /\ Height \in Nat /\ Height > 1 /\ Top.kind # "handler" /\ Height = Len(stack)
  BY TopInner DEF TopIs, Height
<1>2. CASE Height = 2
  <2>1. Back("ok", Top.settings, active) /\ active = LogInForce(1)
    BY <1>1, <1>2, LogsTop DEF InvokeReturns
  <2>2. QED
    BY <1>1, <2>1, LogsBack
<1>3. CASE Height # 2
  BY <1>1, <1>3, LogsInnerEnds DEF InvokeReturns, Goes
<1>4. QED
  BY <1>2, <1>3

LEMMA LogsInvoke ==
  ASSUME HInv, LogsKept, Invoke
  PROVE  LogsKept'
<1>1. TopIs("invoke")
  BY DEF Invoke, BeginCallback, EndCallback, CatchInCallback, EndInvoke, Squash, Rethrow, Uncaught
<1>2. /\ stack # << >> /\ Height \in Nat /\ Height > 1 /\ Height = Len(stack) /\ stack \in Seq(Frames)
      /\ active = LogInForce(Height) /\ \A k \in 1 .. Height : stack[k] \in FrameFields
  BY <1>1, TopInner, LogsTop, InForceFacts DEF HInv, Typed, Height, Frames
<1>3. CASE BeginCallback \/ EndCallback \/ CatchInCallback
  <2>1. active' = active /\ wanted' = wanted
    BY <1>3 DEF BeginCallback, EndCallback, CatchInCallback
  <2>2. /\ Len(stack') = Height /\ stack'[1] = stack[1]
        /\ \A k \in 1 .. Height : stack'[k].kind = stack[k].kind /\ stack'[k].mlog = stack[k].mlog
    <3>1. CASE BeginCallback
      BY <1>2, <3>1 DEF BeginCallback, FrameFields
    <3>2. CASE EndCallback
      BY <1>2, <3>2 DEF EndCallback, FrameFields
    <3>3. CASE CatchInCallback
      BY <1>2, <3>3 DEF CatchInCallback
    <3>4. QED
      BY <1>3, <3>1, <3>2, <3>3
  <2>3. QED
    BY <1>2, <2>1, <2>2, LogsGoOn
<1>4. CASE EndInvoke
  BY <1>1, <1>4, LogsInvokeReturns DEF EndInvoke
<1>5. CASE Squash
  BY <1>1, <1>5, LogsInvokeReturns DEF Squash
<1>6. CASE Rethrow
  <2>1. ApiCatches(InvokeReturns) /\ Top.settings.resume \in {"jump", "throw", "return"}
    BY <1>1, <1>6, TopInner DEF Rethrow, Frames, FrameFields, Modes
  <2>2. CASE Top.settings.resume = "jump"
    BY <1>1, <2>1, <2>2, LogsInnerJumps DEF ApiCatches
  <2>3. CASE Top.settings.resume = "throw"
    BY <1>1, <2>1, <2>3, LogsInnerEnds DEF ApiCatches, Goes
  <2>4. CASE Top.settings.resume = "return"
    BY <1>1, <2>1, <2>4, LogsInvokeReturns DEF ApiCatches
  <2>5. QED
    BY <2>1, <2>2, <2>3, <2>4
<1>7. QED
  BY <1>3, <1>4, <1>5, <1>6 DEF Invoke

LEMMA LogsStep ==
  ASSUME HInv, LogsKept, [Next]_vars
  PROVE  LogsKept'
<1>1. CASE Handler
  BY <1>1, LogsHandlerRepairs, LogsHandlerIgnores, LogsHandlerUnhandled, LogsHandlerEnds DEF Handler
<1>2. CASE UNCHANGED vars
  BY <1>2 DEF vars, LogsKept, LogInForce, Height, Aborted
<1>3. QED
  BY <1>1, <1>2, LogsConfigure, LogsCall, LogsCallEnds, LogsSync, LogsInvoke DEF Next, CallKinds

-----------------------------------------------------------------------------
(* The theorems *)

LEMMA InitHInv ==
  ASSUME Init PROVE HInv
<1>1. settings \in Modes /\ settings.resume \in {"jump", "return", "throw"} /\ chosen = settings
  BY DEF Init, DefaultSettings, Modes
<1>2. << >> \in Seq(Callback) /\ << >> \in Seq(Log) /\ << >> \in Seq(Frames)
  OBVIOUS
<1>3. outcome \in [how : Hows, logged : BOOLEAN, resume : {"jump", "return", "throw"}] /\ outcome.logged = FALSE
  BY <1>1 DEF Init, Hows
<1>4. Typed
  BY <1>1, <1>2, <1>3 DEF Init, Typed
<1>5. Shape /\ Scopes /\ Layers
  BY DEF Init, Shape, Scopes, Layers
<1>6. Recent
  BY DEF Init, Recent, Finishing
<1>7. Syncing /\ UndisturbedIfThrown
  BY <1>3 DEF Init, Syncing, Full, UndisturbedIfThrown, Undisturbed
<1>8. QED
  BY <1>4, <1>5, <1>6, <1>7 DEF HInv

LEMMA StepHInv ==
  ASSUME HInv, [Next]_vars PROVE HInv'
<1>1. CASE Configure
  BY <1>1, SetOptionStep, RegisterStep, PopCallbackStep, CreateLogStep, ActivateLogStep, DeleteLogStep
     DEF Configure
<1>2. ASSUME NEW what \in CallKinds, Call(what) PROVE HInv'
  BY <1>2, PlainCallStep, InvokeCallStep
<1>3. CASE CallSucceeds \/ CallRetries \/ CallThrows
  BY <1>3, CallSucceedsStep, CallRetriesStep, CallThrowsStep
<1>4. CASE Handler
  BY <1>4, HandlerRepairsStep, HandlerIgnoresStep, HandlerUnhandledStep, HandlerResumesStep, HandlerThrowsStep
     DEF Handler
<1>5. CASE Sync
  BY <1>5, BeginSyncStep, EndSyncStep, SyncThrowsStep DEF Sync
<1>6. CASE Invoke
  BY <1>6, BeginCallbackStep, EndCallbackStep, CatchInCallbackStep, EndInvokeStep, SquashStep, RethrowStep
     DEF Invoke
<1>7. CASE UNCHANGED vars
  <2>1. UNCHANGED <<settings, cbs, depth, order, active, stack, exc, outcome, ran, synced, chosen, wanted>>
    BY <1>7 DEF vars
  <2>2. Typed' /\ Shape' /\ Scopes'
    BY <2>1 DEF HInv, Typed, Shape, Scopes, Aborted, Height, InForce, Raw
  <2>3. Layers'
    BY <2>1 DEF HInv, Layers, Height, Invoking
  <2>4. Recent'
    BY <2>1 DEF HInv, Recent, Aborted, Finishing, Top, MostRecent, Height, Invoking
  <2>5. Syncing' /\ UndisturbedIfThrown'
    BY <2>1 DEF HInv, Syncing, Aborted, Full, Partial, Top, Height, UndisturbedIfThrown, Undisturbed
  <2>6. QED
    BY <2>2, <2>3, <2>4, <2>5 DEF HInv
<1>8. QED
  BY <1>1, <1>2, <1>3, <1>4, <1>5, <1>6, <1>7 DEF Next, CallKinds

LEMMA Invariance == Spec => []HInv
BY InitHInv, StepHInv, PTL DEF Spec

LEMMA LogsInvariance == Spec => []LogsKept
<1>1. Init => LogsKept
  BY DEF Init, LogsKept
<1>2. HInv /\ LogsKept /\ [Next]_vars => LogsKept'
  BY LogsStep
<1>3. QED
  BY <1>1, <1>2, Invariance, PTL DEF Spec

(***************************************************************************)
(* Whatever a failure interrupts (a call, a callback, a synchronisation, or *)
(* the recovery from another failure) and however it is resumed, the        *)
(* destructors of ScopedOptions and ScopedMlog and the resets of            *)
(* callbacks_depth (fenix_util.hpp, fenix_callbacks.cpp) leave the          *)
(* application with its own settings, its own log and a depth of zero.      *)
(***************************************************************************)
THEOREM ScopesAlwaysUnwound == Spec => []ScopesUnwound
<1>1. HInv /\ LogsKept => ScopesUnwound
  BY AppFacts DEF ScopesUnwound, LogsKept
<1>2. QED
  BY <1>1, Invariance, LogsInvariance, PTL

(***************************************************************************)
(* When the application goes on after a recovery, each callback has run     *)
(* exactly once and in order since the last repair, although a failure in a *)
(* callback starts them all again and the interrupted round is abandoned    *)
(* (callbacks_depth in callback_invoke_all).                                *)
(***************************************************************************)
THEOREM CallbacksAlwaysRunOnce == Spec => []CallbacksRanOnce
<1>1. HInv => CallbacksRanOnce
  BY AppFacts DEF CallbacksRanOnce
<1>2. QED
  BY <1>1, Invariance, PTL

(***************************************************************************)
(* and every message log has been synchronised since that repair, also when *)
(* the recovery that was to synchronise it was itself abandoned             *)
(* (__fenix_postinit).                                                      *)
(***************************************************************************)
THEOREM LogsAlwaysSynced == Spec => []LogsSynced
<1>1. HInv => LogsSynced
  BY AppFacts DEF LogsSynced, Full
<1>2. QED
  BY <1>1, Invariance, PTL

(***************************************************************************)
(* With exceptions, inline recovery hides every failure of a logged call    *)
(* from the application (the catch clauses of the Mlog wrappers), whatever  *)
(* happened in between.                                                     *)
(***************************************************************************)
THEOREM LoggedCallsSucceed == Spec => []UndisturbedIfThrown
<1>1. HInv => UndisturbedIfThrown
  BY DEF HInv
<1>2. QED
  BY <1>1, Invariance, PTL
=============================================================================
