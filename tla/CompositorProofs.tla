-------------------------- MODULE CompositorProofs --------------------------
(***************************************************************************)
(* Proofs about two parts of the compositor, which share nothing: the      *)
(* window bookkeeping of WindowManager, for any windows, buttons and       *)
(* number of minimized windows; and, in the second half, the redraws and   *)
(* captures of Redraw, for any number of changes and failures, any frame   *)
(* and any captures.                                                       *)
(***************************************************************************)
EXTENDS WindowManager, Redraw, FiniteSetTheorems, NaturalsInduction, WellFoundedInduction,
        SequenceTheorems, TLAPS

Entries(s) == {s[i] : i \in DOMAIN s}

\* w is at most once in s.
Once(s, w) == \A i, j \in DOMAIN s : s[i] = w /\ s[j] = w => i = j

Types ==
  /\ alive \subseteq Windows /\ gone \subseteq Windows /\ alive \cap gone = {}
  /\ space \in Seq(Windows) /\ minimized \in Seq(Windows)
  /\ grab \in [window : Windows \cup {None}, by : {"nobody", "client", "user"}]

\* Only windows that exist or have existed are shown, minimized or dragged.
Known ==
  /\ Shown \cup Iconified \subseteq alive \cup gone
  /\ grab # NoGrab => grab.window \in alive \cup gone

\* The pointer handle forgets presses, but holds no button that is up.
PressedIsDown == pressed \subseteq down

\* The inductive invariant.
IInv ==
  /\ Types
  /\ Known
  /\ PressedIsDown
  /\ FocusIsShown
  /\ EveryWindowReachable
  /\ UserDragNeedsButton

\* w has at most one id: Times(w) <= 1, without counting.
Single(w) == Once(minimized, w) /\ (w \in Shown => w \notin Iconified)

-----------------------------------------------------------------------------
(* Sequences *)

\* The least element, which stands for induction on the naturals.
LEMMA NatMin ==
  ASSUME NEW T \in SUBSET Nat, T # {}
  PROVE  \E x \in T : \A y \in T : x <= y
<1>1. PICK x \in T : \A y \in T : ~(<<y, x>> \in OpToRel(<, Nat))
  BY NatLessThanWellFounded, WFMin
<1>2. \A y \in T : ~ (y < x)
  BY <1>1 DEF OpToRel
<1> QED BY <1>2

\* What Among builds, entry by entry.
IsKept(f, s, S, n) ==
  f = [k \in 0 .. n |-> IF k = 0 THEN <<>>
                        ELSE IF s[k] \in S THEN Append(f[k - 1], s[k]) ELSE f[k - 1]]

LEMMA KeptExists ==
  ASSUME NEW s, NEW S, NEW n \in Nat
  PROVE  \E f : IsKept(f, s, S, n)
<1> DEFINE T == {m \in Nat : ~ \E f : IsKept(f, s, S, m)}
<1>1. SUFFICES ASSUME T # {} PROVE FALSE
  OBVIOUS
<1>2. PICK m \in T : \A y \in T : m <= y
  BY <1>1, NatMin
<1>3. CASE m = 0
  <2>1. IsKept([k \in 0 .. 0 |-> <<>>], s, S, 0)
    BY DEF IsKept
  <2> QED BY <1>2, <1>3, <2>1
<1>4. CASE m # 0
  <2>1. m - 1 \in Nat /\ m - 1 \notin T
    BY <1>2, <1>4
  <2>2. PICK f : IsKept(f, s, S, m - 1)
    BY <2>1
  <2> DEFINE next == IF s[m] \in S THEN Append(f[m - 1], s[m]) ELSE f[m - 1]
             g == [k \in 0 .. m |-> IF k = m THEN next ELSE f[k]]
             body(k) == IF k = 0 THEN <<>>
                        ELSE IF s[k] \in S THEN Append(g[k - 1], s[k]) ELSE g[k - 1]
  <2>3. ASSUME NEW k \in 0 .. m PROVE g[k] = body(k)
    <3>1. CASE k = m
      <4>1. g[m - 1] = f[m - 1] /\ g[m] = next
        BY <1>2, <1>4
      <4> QED BY <1>4, <3>1, <4>1
    <3>2. CASE k # m
      <4>1. k \in 0 .. (m - 1) /\ g[k] = f[k] /\ (k # 0 => g[k - 1] = f[k - 1])
        BY <1>2, <1>4, <3>2
      <4>2. f[k] = IF k = 0 THEN <<>>
                   ELSE IF s[k] \in S THEN Append(f[k - 1], s[k]) ELSE f[k - 1]
        BY <2>2, <4>1 DEF IsKept
      <4> QED BY <4>1, <4>2
    <3> QED BY <3>1, <3>2
  <2>4. g = [k \in 0 .. m |-> g[k]]
    OBVIOUS
  <2>5. g = [k \in 0 .. m |-> body(k)]
    <3> HIDE DEF g
    <3>1. [k \in 0 .. m |-> g[k]] = [k \in 0 .. m |-> body(k)]
      BY <2>3
    <3> QED BY <2>4, <3>1
  <2>6. IsKept(g, s, S, m)
    BY <2>5 DEF IsKept
  <2> QED BY <1>2, <2>6
<1> QED BY <1>3, <1>4

LEMMA AmongIsKept ==
  ASSUME NEW T, NEW s \in Seq(T), NEW S
  PROVE  \E f : IsKept(f, s, S, Len(s)) /\ Among(s, S) = f[Len(s)]
<1> DEFINE kept == CHOOSE f : IsKept(f, s, S, Len(s))
<1>1. IsKept(kept, s, S, Len(s))
  BY KeptExists
<1>2. Among(s, S) = kept[Len(s)]
  BY DEF Among, IsKept
<1> QED BY <1>1, <1>2

LEMMA AppendEntries ==
  ASSUME NEW T, NEW s \in Seq(T), NEW x \in T
  PROVE  /\ Append(s, x) \in Seq(T)
         /\ Entries(Append(s, x)) = Entries(s) \cup {x}
         /\ \A w : Once(Append(s, x), w) <=> Once(s, w) /\ (w = x => w \notin Entries(s))
<1> DEFINE t == Append(s, x)
<1>1. /\ t \in Seq(T) /\ DOMAIN t = 1 .. (Len(s) + 1) /\ t[Len(s) + 1] = x
      /\ \A i \in 1 .. Len(s) : t[i] = s[i]
      /\ DOMAIN s = 1 .. Len(s) /\ Len(s) \in Nat
  BY AppendProperties, LenProperties
<1> HIDE DEF t
<1>2. \A i : i \in DOMAIN t <=> i \in DOMAIN s \/ i = Len(s) + 1
  BY <1>1
<1>3. Entries(t) = Entries(s) \cup {x}
  BY <1>1, <1>2 DEF Entries
<1>4. ASSUME NEW w PROVE Once(t, w) <=> Once(s, w) /\ (w = x => w \notin Entries(s))
  <2>1. ASSUME Once(t, w) PROVE Once(s, w) /\ (w = x => w \notin Entries(s))
    BY <1>1, <1>2, <2>1 DEF Once, Entries
  <2>2. ASSUME Once(s, w), w = x => w \notin Entries(s) PROVE Once(t, w)
    BY <1>1, <1>2, <2>2 DEF Once, Entries
  <2> QED BY <2>1, <2>2
<1> QED BY <1>1, <1>3, <1>4 DEF t

LEMMA AmongEntries ==
  ASSUME NEW T, NEW s \in Seq(T), NEW S
  PROVE  /\ Among(s, S) \in Seq(T)
         /\ Entries(Among(s, S)) = Entries(s) \cap S
         /\ \A w : Once(s, w) => Once(Among(s, S), w)
<1>1. PICK f : IsKept(f, s, S, Len(s)) /\ Among(s, S) = f[Len(s)]
  BY AmongIsKept
<1>2. DOMAIN s = 1 .. Len(s) /\ Len(s) \in Nat /\ \A i \in 1 .. Len(s) : s[i] \in T
  BY LenProperties, ElementOfSeq
<1> DEFINE First(n) == {s[i] : i \in 1 .. n} \cap S
           Right(n) == /\ f[n] \in Seq(T)
                       /\ Entries(f[n]) = First(n)
                       /\ \A w : Once(s, w) => Once(f[n], w)
           Wrong == {n \in 0 .. Len(s) : ~ Right(n)}
<1>3. Right(0)
  <2>1. f[0] = <<>>
    BY <1>1, <1>2 DEF IsKept
  <2>2. First(0) = {}
    OBVIOUS
  <2> QED BY <2>1, <2>2 DEF Entries, Once
<1>4. ASSUME NEW n \in 1 .. Len(s), Right(n - 1) PROVE Right(n)
  <2>1. n - 1 \in 0 .. Len(s) /\ n # 0 /\ s[n] \in T /\ n \in 0 .. Len(s)
    BY <1>2
  <2>2. f[n] = IF s[n] \in S THEN Append(f[n - 1], s[n]) ELSE f[n - 1]
    BY <1>1, <2>1 DEF IsKept
  <2>3. First(n) = IF s[n] \in S THEN First(n - 1) \cup {s[n]} ELSE First(n - 1)
    <3>1. \A i : i \in 1 .. n <=> i \in 1 .. (n - 1) \/ i = n
      BY <2>1
    <3> QED BY <3>1
  <2>4. CASE s[n] \notin S
    BY <1>4, <2>2, <2>3, <2>4
  <2>5. CASE s[n] \in S
    <3>1. f[n - 1] \in Seq(T)
      BY <1>4
    <3>2. /\ f[n] \in Seq(T)
          /\ Entries(f[n]) = Entries(f[n - 1]) \cup {s[n]}
          /\ \A w : Once(f[n], w)
                     <=> Once(f[n - 1], w) /\ (w = s[n] => w \notin Entries(f[n - 1]))
      BY <2>1, <2>2, <2>5, <3>1, AppendEntries
    <3>3. ASSUME NEW w, Once(s, w) PROVE Once(f[n], w)
      <4>1. w = s[n] => w \notin First(n - 1)
        BY <1>2, <2>1, <3>3 DEF Once
      <4> QED BY <1>4, <3>2, <3>3, <4>1
    <3>4. Entries(f[n]) = First(n)
      BY <1>4, <2>3, <2>5, <3>2
    <3> QED BY <3>2, <3>3, <3>4
  <2> QED BY <2>4, <2>5
<1>5. Wrong = {}
  <2>1. SUFFICES ASSUME Wrong # {} PROVE FALSE
    OBVIOUS
  <2>2. Wrong \in SUBSET Nat
    OBVIOUS
  <2>3. PICK n \in Wrong : \A m \in Wrong : n <= m
    BY <2>1, <2>2, NatMin
  <2>4. n # 0
    BY <1>3, <2>3
  <2>5. n \in 1 .. Len(s) /\ n - 1 \in 0 .. Len(s) /\ n - 1 \notin Wrong
    BY <1>2, <2>3, <2>4
  <2>6. Right(n - 1)
    BY <2>5
  <2>7. Right(n)
    BY <1>4, <2>5, <2>6
  <2> QED BY <2>3, <2>7
<1>6. Right(Len(s))
  BY <1>2, <1>5
<1>7. First(Len(s)) = Entries(s) \cap S
  BY <1>2 DEF Entries
<1> QED BY <1>1, <1>6, <1>7

LEMMA RemoveAtEntries ==
  ASSUME NEW T, NEW s \in Seq(T), NEW i \in DOMAIN s
  PROVE  /\ RemoveAt(s, i) \in Seq(T)
         /\ Entries(s) \ {s[i]} \subseteq Entries(RemoveAt(s, i))
         /\ Entries(RemoveAt(s, i)) \subseteq Entries(s)
         /\ \A w : Once(s, w) => Once(RemoveAt(s, i), w)
         /\ Once(s, s[i]) => s[i] \notin Entries(RemoveAt(s, i))
<1> DEFINE t == RemoveAt(s, i)
           from(j) == IF j < i THEN j ELSE j + 1
<1>1. DOMAIN s = 1 .. Len(s) /\ Len(s) \in Nat /\ i \in 1 .. Len(s)
  BY LenProperties
<1>2. t \in Seq(T) /\ Len(t) = Len(s) - 1 /\ \A j \in 1 .. Len(t) : t[j] = s[from(j)]
  <2> DEFINE l == SubSeq(s, 1, i - 1)
             r == SubSeq(s, i + 1, Len(s))
  <2>1. /\ l \in Seq(T) /\ Len(l) = i - 1 /\ \A j \in 1 .. (i - 1) : l[j] = s[j]
    BY <1>1, SubSeqProperties
  <2>2. /\ r \in Seq(T) /\ Len(r) = Len(s) - i
        /\ \A j \in 1 .. (Len(s) - i) : r[j] = s[i + j]
    BY <1>1, SubSeqProperties
  <2>3. t = l \o r
    BY DEF RemoveAt
  <2> HIDE DEF l, r, t
  <2>4. /\ t \in Seq(T) /\ Len(t) = Len(s) - 1
        /\ \A j \in 1 .. Len(t) : t[j] = IF j <= Len(l) THEN l[j] ELSE r[j - Len(l)]
    <3>1. /\ t \in Seq(T) /\ Len(t) = Len(l) + Len(r)
          /\ \A j \in 1 .. Len(l) + Len(r) :
                t[j] = IF j <= Len(l) THEN l[j] ELSE r[j - Len(l)]
      BY <2>1, <2>2, <2>3, ConcatProperties
    <3>2. Len(l) + Len(r) = Len(s) - 1
      BY <1>1, <2>1, <2>2
    <3> QED BY <3>1, <3>2
  <2>5. ASSUME NEW j \in 1 .. Len(t) PROVE t[j] = s[from(j)]
    <3>1. CASE j < i
      <4>1. j \in 1 .. (i - 1) /\ j <= Len(l)
        BY <1>1, <2>1, <2>4, <3>1
      <4>2. t[j] = l[j] /\ l[j] = s[j]
        BY <2>1, <2>4, <4>1
      <4> QED  BY <3>1, <4>2
    <3>2. CASE ~ (j < i)
      <4>1. j - Len(l) \in 1 .. (Len(s) - i) /\ i + (j - Len(l)) = j + 1
        BY <1>1, <2>1, <2>4, <3>2
      <4>2. r[j - Len(l)] = s[j + 1]
        BY <2>2, <4>1
      <4>3. ~ (j <= Len(l))
        BY <1>1, <2>1, <3>2
      <4> QED BY <2>4, <3>2, <4>2, <4>3
    <3> QED BY <3>1, <3>2
  <2> QED BY <2>4, <2>5
<1>3. DOMAIN t = 1 .. Len(t)
  BY <1>2, LenProperties
<1> HIDE DEF t
<1>4. /\ \A j \in 1 .. Len(t) : from(j) \in 1 .. Len(s) /\ from(j) # i
      /\ \A j, k \in 1 .. Len(t) : from(j) = from(k) => j = k
  BY <1>1, <1>2
<1>5. \A k \in 1 .. Len(s) : k # i => \E j \in 1 .. Len(t) : from(j) = k
  <2> SUFFICES ASSUME NEW k \in 1 .. Len(s), k # i
               PROVE  \E j \in 1 .. Len(t) : from(j) = k
    OBVIOUS
  <2>1. CASE k < i
    <3>1. k \in 1 .. Len(t) /\ from(k) = k
      BY <1>1, <1>2, <2>1
    <3> QED BY <3>1
  <2>2. CASE ~ (k < i)
    <3>1. k - 1 \in 1 .. Len(t) /\ from(k - 1) = k
      BY <1>1, <1>2, <2>2
    <3> QED BY <3>1
  <2> QED BY <2>1, <2>2
<1> HIDE DEF from
<1>6. Entries(s) \ {s[i]} \subseteq Entries(t)
  <2> SUFFICES ASSUME NEW k \in 1 .. Len(s), s[k] # s[i] PROVE s[k] \in Entries(t)
    BY <1>1 DEF Entries
  <2>1. PICK j \in 1 .. Len(t) : from(j) = k
    BY <1>5
  <2> QED BY <1>2, <1>3, <2>1 DEF Entries
<1>7. Entries(t) \subseteq Entries(s)
  BY <1>1, <1>2, <1>3, <1>4 DEF Entries
<1>8. \A w : Once(s, w) => Once(t, w)
  BY <1>1, <1>2, <1>3, <1>4 DEF Once
<1>9. Once(s, s[i]) => s[i] \notin Entries(t)
  BY <1>1, <1>2, <1>3, <1>4 DEF Once, Entries
<1> QED BY <1>2, <1>6, <1>7, <1>8, <1>9 DEF t

-----------------------------------------------------------------------------
(* What the handlers' shared steps do to the sets of windows *)

LEMMA WithoutEntries ==
  ASSUME NEW s \in Seq(Windows), NEW w
  PROVE  /\ Without(s, w) \in Seq(Windows)
         /\ Entries(Without(s, w)) = Entries(s) \ {w}
         /\ \A v : Once(s, v) => Once(Without(s, w), v)
<1>1. Entries(s) \subseteq Windows
  BY LenProperties, ElementOfSeq DEF Entries
<1>2. Entries(s) \cap (Windows \ {w}) = Entries(s) \ {w}
  BY <1>1
<1> QED BY <1>2, AmongEntries DEF Without

LEMMA OnTopEntries ==
  ASSUME NEW s \in Seq(Windows), NEW w \in Windows
  PROVE  OnTop(s, w) \in Seq(Windows) /\ Entries(OnTop(s, w)) = Entries(s) \cup {w}
<1> DEFINE t == Without(s, w)
<1>1. t \in Seq(Windows) /\ Entries(t) = Entries(s) \ {w}
  BY WithoutEntries
<1> HIDE DEF t
<1>2. Append(t, w) \in Seq(Windows) /\ Entries(Append(t, w)) = Entries(t) \cup {w}
  BY <1>1, AppendEntries
<1> QED BY <1>1, <1>2 DEF OnTop, t

LEMMA ShownEntries ==
  /\ Shown = Entries(space) /\ Shown' = Entries(space')
  /\ Iconified = Entries(minimized) /\ Iconified' = Entries(minimized')
BY DEF Shown, Iconified, Entries

LEMMA MappedIsShown ==
  ASSUME Types, NEW w \in Windows, space' = OnTop(space, w)
  PROVE  space' \in Seq(Windows) /\ Shown' = Shown \cup {w}
BY OnTopEntries, ShownEntries DEF Types

LEMMA MinimizeIconifies ==
  ASSUME Types, NEW w \in Windows, Minimize(w)
  PROVE  /\ space' \in Seq(Windows) /\ minimized' \in Seq(Windows)
         /\ w \in Shown /\ Shown' = Shown \ {w} /\ Iconified' = Iconified \cup {w}
         /\ focus' = None \/ focus' \in Shown'
         /\ \A v : Once(minimized, v) /\ (v = w => w \notin Iconified) => Once(minimized', v)
<1>1. w \in Shown /\ space' = Without(space, w) /\ minimized' = Append(minimized, w)
  BY DEF Minimize
<1>2. space' \in Seq(Windows) /\ Shown' = Shown \ {w}
  BY <1>1, WithoutEntries, ShownEntries DEF Types
<1>3. /\ minimized' \in Seq(Windows) /\ Iconified' = Iconified \cup {w}
      /\ \A v : Once(minimized, v) /\ (v = w => w \notin Iconified) => Once(minimized', v)
  BY <1>1, AppendEntries, ShownEntries DEF Types
<1>4. focus' = None \/ focus' \in Shown'
  <2>1. CASE space' = <<>>
    BY <2>1 DEF Minimize
  <2>2. CASE space' # <<>>
    <3>1. 1 \in DOMAIN space' /\ Head(space') = space'[1]
      BY <1>2, <2>2, LenProperties, HeadTailProperties, EmptySeq
    <3> QED BY <2>2, <3>1, ShownEntries DEF Minimize, Entries
  <2> QED BY <2>1, <2>2
<1> QED BY <1>1, <1>2, <1>3, <1>4

LEMMA UnminimizeShows ==
  ASSUME Types, NEW i \in DOMAIN minimized, Unminimize(i)
  PROVE  /\ space' \in Seq(Windows) /\ minimized' \in Seq(Windows)
         /\ focus' \in Windows /\ focus' \in Iconified /\ Shown' = Shown \cup {focus'}
         /\ Iconified \ {focus'} \subseteq Iconified' /\ Iconified' \subseteq Iconified
         /\ \A v : Once(minimized, v) => Once(minimized', v)
         /\ Once(minimized, focus') => focus' \notin Iconified'
<1> PICK w : w = minimized[i]
  OBVIOUS
<1>1. w \in Windows /\ w \in Iconified
  BY ElementOfSeq, LenProperties DEF Types, Iconified
<1>2. minimized' = RemoveAt(minimized, i) /\ space' = OnTop(space, w) /\ focus' = w
  BY DEF Unminimize, RaiseAndFocus
<1>3. space' \in Seq(Windows) /\ Shown' = Shown \cup {w}
  BY <1>1, <1>2, MappedIsShown
<1>4. /\ minimized' \in Seq(Windows)
      /\ Iconified \ {w} \subseteq Iconified' /\ Iconified' \subseteq Iconified
      /\ \A v : Once(minimized, v) => Once(minimized', v)
      /\ Once(minimized, w) => w \notin Iconified'
  BY <1>2, RemoveAtEntries, ShownEntries DEF Types
<1> QED BY <1>1, <1>2, <1>3, <1>4

-----------------------------------------------------------------------------
(* The invariant *)

LEMMA InitIInv == Init => IInv
BY DEF Init, IInv, Types, Known, PressedIsDown, FocusIsShown, EveryWindowReachable,
       UserDragNeedsButton, NoGrab, Shown, Iconified

\* The buttons and the grab.
LEMMA ButtonsStep ==
  PressedIsDown /\ UserDragNeedsButton /\ [Next]_vars
    => PressedIsDown' /\ UserDragNeedsButton'
<1> SUFFICES ASSUME PressedIsDown, UserDragNeedsButton, [Next]_vars
             PROVE  PressedIsDown' /\ UserDragNeedsButton'
  OBVIOUS
<1> USE DEF PressedIsDown, UserDragNeedsButton
<1>1. ASSUME NEW w \in Windows, ClientRequest(w)
      PROVE  PressedIsDown' /\ UserDragNeedsButton'
  BY <1>1 DEF ClientRequest, NewToplevel, ToplevelDestroyed, GrabRequest, MaximizeRequest,
       MinimizeRequest, NewDecoration, RequestClientSide, RequestServerSide
<1>2. ASSUME NEW w \in Windows, PressDecoration(w)
      PROVE  PressedIsDown' /\ UserDragNeedsButton'
  BY <1>2 DEF PressDecoration
<1>3. ASSUME NEW b \in Buttons, PressElsewhere(b) \/ Release(b) \/ MouseClick(b)
      PROVE  PressedIsDown' /\ UserDragNeedsButton'
  BY <1>3 DEF PressElsewhere, Release, MouseClick, AfterRelease, NoGrab
<1>4. CASE PressTaskbar \/ DragMotion \/ MouseMove \/ Refresh
  BY <1>4 DEF PressTaskbar, DragMotion, MouseMove, Refresh
<1>5. ASSUME NEW id \in Ids,
             WindowFocus(id) \/ WindowMove(id) \/ WindowClose(id) \/ WindowMinimize(id)
      PROVE  PressedIsDown' /\ UserDragNeedsButton'
  BY <1>5 DEF WindowFocus, WindowMove, WindowClose, WindowMinimize
<1>6. CASE UNCHANGED vars
  BY <1>6 DEF vars
<1> QED BY <1>1, <1>2, <1>3, <1>4, <1>5, <1>6 DEF Next, DeviceEvent, ToolCall

\* What the window part of the invariant, and of TwoIdsOnlyByDragging, asks of
\* a step.
WindowsInv == Types /\ Known /\ FocusIsShown /\ EveryWindowReachable

NoDouble == \A v \in Windows : Single(v) /\ ~ Single(v)' => grab.window = v /\ v \in Iconified

Good == WindowsInv' /\ NoDouble

LEMMA Kept ==
  /\ UNCHANGED space => Shown' = Shown
  /\ UNCHANGED minimized => Iconified' = Iconified /\ \A v : Once(minimized', v) <=> Once(minimized, v)
BY DEF Shown, Iconified

\* The grab stays, goes, or is put on a window that is known.
GrabFine ==
  \/ grab' = grab
  \/ grab' = NoGrab
  \/ \E w \in alive \cup gone : grab' \in [window : {w}, by : {"client", "user"}]

\* A step that raises a window of the space, or maps the one that is dragged.
LEMMA RaiseIsGood ==
  ASSUME WindowsInv, GrabFine, UNCHANGED <<alive, gone, minimized, asked>>,
         space' \in Seq(Windows), NEW w \in alive \cup gone, Shown' = Shown \cup {w},
         w \in Shown \/ grab.window = w,
         focus' \in {focus, w, None}
  PROVE  Good
<1>1. Types'
  BY DEF WindowsInv, Types, GrabFine, NoGrab
<1>2. Known'
  BY Kept DEF WindowsInv, Known, GrabFine
<1>3. FocusIsShown'
  BY NoneAssumption DEF WindowsInv, Types, FocusIsShown
<1>4. EveryWindowReachable'
  BY Kept DEF WindowsInv, EveryWindowReachable
<1>5. NoDouble
  BY Kept DEF NoDouble, Single
<1> QED BY <1>1, <1>2, <1>3, <1>4, <1>5 DEF Good, WindowsInv

LEMMA KeepIsGood ==
  ASSUME WindowsInv, GrabFine, UNCHANGED <<alive, gone, space, minimized, asked>>,
         focus' \in {focus, None}
  PROVE  Good
<1>1. Types' /\ Known'
  BY Kept DEF WindowsInv, Types, Known, GrabFine, NoGrab
<1>2. FocusIsShown' /\ EveryWindowReachable'
  BY Kept, NoneAssumption DEF WindowsInv, Types, FocusIsShown, EveryWindowReachable
<1>3. NoDouble
  BY Kept DEF NoDouble, Single
<1> QED BY <1>1, <1>2, <1>3 DEF Good, WindowsInv

LEMMA MinimizeIsGood ==
  ASSUME WindowsInv, NEW w \in Windows, Minimize(w), UNCHANGED <<alive, gone, grab, asked>>
  PROVE  Good
<1>1. /\ space' \in Seq(Windows) /\ minimized' \in Seq(Windows)
      /\ w \in Shown /\ Shown' = Shown \ {w} /\ Iconified' = Iconified \cup {w}
      /\ focus' = None \/ focus' \in Shown'
      /\ \A v : Once(minimized, v) /\ (v = w => w \notin Iconified) => Once(minimized', v)
  BY MinimizeIconifies DEF WindowsInv
<1>2. Types' /\ Known'
  BY <1>1 DEF WindowsInv, Types, Known
<1>3. FocusIsShown' /\ EveryWindowReachable'
  BY <1>1, NoneAssumption DEF WindowsInv, Types, FocusIsShown, EveryWindowReachable
<1>4. NoDouble
  BY <1>1 DEF NoDouble, Single
<1> QED BY <1>2, <1>3, <1>4 DEF Good, WindowsInv

LEMMA UnminimizeIsGood ==
  ASSUME WindowsInv, NEW i \in DOMAIN minimized, Unminimize(i),
         UNCHANGED <<alive, gone, grab, asked>>
  PROVE  Good
<1>1. /\ space' \in Seq(Windows) /\ minimized' \in Seq(Windows)
      /\ focus' \in Windows /\ focus' \in Iconified /\ Shown' = Shown \cup {focus'}
      /\ Iconified \ {focus'} \subseteq Iconified' /\ Iconified' \subseteq Iconified
      /\ \A v : Once(minimized, v) => Once(minimized', v)
      /\ Once(minimized, focus') => focus' \notin Iconified'
  BY UnminimizeShows DEF WindowsInv
<1>2. Types' /\ Known'
  BY <1>1 DEF WindowsInv, Types, Known
<1>3. FocusIsShown' /\ EveryWindowReachable'
  BY <1>1 DEF WindowsInv, FocusIsShown, EveryWindowReachable
<1>4. NoDouble
  BY <1>1 DEF NoDouble, Single
<1> QED BY <1>2, <1>3, <1>4 DEF Good, WindowsInv

LEMMA ClientsStep ==
  ASSUME WindowsInv, NEW w \in Windows, ClientRequest(w) PROVE Good
<1>k. Shown \subseteq alive \cup gone
  BY DEF WindowsInv, Known
<1>1. CASE NewToplevel(w)
  <2>1. space' \in Seq(Windows) /\ Shown' = Shown \cup {w} /\ focus' = w
    BY <1>1, MappedIsShown DEF NewToplevel, RaiseAndFocus, WindowsInv
  <2>2. w \notin Shown \cup Iconified /\ alive' = alive \cup {w} /\ w \notin gone
    BY <1>1 DEF NewToplevel, WindowsInv, Known
  <2>3. UNCHANGED <<gone, minimized, grab, asked>>
    BY <1>1 DEF NewToplevel
  <2>4. Types' /\ Known'
    BY <2>1, <2>2, <2>3, Kept DEF WindowsInv, Types, Known
  <2>5. FocusIsShown' /\ EveryWindowReachable'
    BY <2>1, <2>2, <2>3, Kept DEF WindowsInv, FocusIsShown, EveryWindowReachable
  <2>6. NoDouble
    BY <2>1, <2>2, <2>3, Kept DEF NoDouble, Single
  <2> QED BY <2>4, <2>5, <2>6 DEF Good, WindowsInv
<1>2. CASE ToplevelDestroyed(w)
  <2>1. /\ minimized' \in Seq(Windows) /\ Iconified' = Iconified \ {w}
        /\ \A v : Once(minimized, v) => Once(minimized', v)
    BY <1>2, WithoutEntries, ShownEntries DEF ToplevelDestroyed, WindowsInv, Types
  <2>2. /\ w \in alive /\ alive' = alive \ {w} /\ gone' = gone \cup {w}
        /\ UNCHANGED <<space, focus, grab, asked>>
    BY <1>2 DEF ToplevelDestroyed
  <2>3. Types' /\ Known'
    BY <2>1, <2>2, Kept DEF WindowsInv, Types, Known
  <2>4. FocusIsShown' /\ EveryWindowReachable'
    BY <2>1, <2>2, Kept DEF WindowsInv, FocusIsShown, EveryWindowReachable
  <2>5. NoDouble
    BY <2>1, <2>2, Kept DEF NoDouble, Single
  <2> QED BY <2>3, <2>4, <2>5 DEF Good, WindowsInv
<1>3. CASE GrabRequest(w)
  BY <1>3, KeepIsGood DEF GrabRequest, GrabFine
<1>4. CASE MaximizeRequest(w)
  <2>1. space' \in Seq(Windows) /\ Shown' = Shown \cup {w}
    BY <1>4, MappedIsShown DEF MaximizeRequest, WindowsInv
  <2> QED BY <1>k, <1>4, <2>1, RaiseIsGood DEF MaximizeRequest, GrabFine
<1>5. CASE MinimizeRequest(w)
  BY <1>5, MinimizeIsGood DEF MinimizeRequest
<1>6. CASE NewDecoration(w) \/ RequestClientSide(w)
  <2>1. ShiftIfShown(w) /\ UNCHANGED <<alive, gone, minimized, focus, grab, asked>>
    BY <1>6 DEF NewDecoration, RequestClientSide
  <2>2. CASE w \in Shown
    <3>1. space' \in Seq(Windows) /\ Shown' = Shown \cup {w}
      BY <2>1, <2>2, MappedIsShown DEF ShiftIfShown, WindowsInv
    <3> QED BY <1>k, <2>1, <2>2, <3>1, RaiseIsGood DEF GrabFine
  <2>3. CASE w \notin Shown
    BY <2>1, <2>3, KeepIsGood DEF ShiftIfShown, GrabFine
  <2> QED BY <2>2, <2>3
<1>7. CASE RequestServerSide(w)
  BY <1>7, KeepIsGood DEF RequestServerSide, GrabFine
<1> QED BY <1>1, <1>2, <1>3, <1>4, <1>5, <1>6, <1>7 DEF ClientRequest

\* A raise that gives the window the keyboard.
LEMMA RaiseAndFocusIsGood ==
  ASSUME WindowsInv, GrabFine, UNCHANGED <<alive, gone, minimized, asked>>,
         NEW w \in Shown, RaiseAndFocus(w)
  PROVE  Good
<1>1. w \in Windows /\ w \in alive \cup gone
  BY DEF WindowsInv, Types, Known
<1>2. space' \in Seq(Windows) /\ Shown' = Shown \cup {w} /\ focus' = w
  BY <1>1, MappedIsShown DEF RaiseAndFocus, WindowsInv
<1> QED BY <1>1, <1>2, RaiseIsGood

LEMMA DragIsGood ==
  ASSUME WindowsInv, Drag, UNCHANGED <<alive, gone, minimized, focus, grab, asked>>
  PROVE  Good
<1>1. grab.window \in alive \cup gone /\ grab.window \in Windows
  BY DEF WindowsInv, Types, Known, Drag
<1>2. space' \in Seq(Windows) /\ Shown' = Shown \cup {grab.window}
  BY <1>1, MappedIsShown DEF Drag, WindowsInv
<1> QED BY <1>1, <1>2, RaiseIsGood DEF GrabFine

LEMMA PositionOfIsPosition ==
  ASSUME minimized \in Seq(Windows), NEW w \in Iconified
  PROVE  PositionOf(w) \in DOMAIN minimized /\ minimized[PositionOf(w)] = w
<1> DEFINE T == {i \in DOMAIN minimized : minimized[i] = w}
<1>1. T \in SUBSET Nat /\ T # {}
  BY LenProperties DEF Iconified
<1>2. \E i \in T : \A j \in T : i <= j
  BY <1>1, NatMin
<1>3. \E i \in DOMAIN minimized :
        minimized[i] = w /\ \A j \in DOMAIN minimized : minimized[j] = w => i <= j
  BY <1>2
<1> QED BY <1>3 DEF PositionOf

LEMMA DevicesStep ==
  ASSUME WindowsInv, DeviceEvent PROVE Good
<1>1. CASE PressTaskbar
  <2>1. UNCHANGED <<alive, gone, grab, asked>>
    BY <1>1 DEF PressTaskbar
  <2>2. CASE UNCHANGED <<space, minimized, focus>>
    BY <2>1, <2>2, KeepIsGood DEF GrabFine
  <2>3. ASSUME NEW w \in alive \cap Iconified, Unminimize(PositionOf(w)) PROVE Good
    BY <2>1, <2>3, PositionOfIsPosition, UnminimizeIsGood DEF WindowsInv, Types
  <2>4. ASSUME NEW w \in (alive \cap Shown) \ (Iconified \cup {focus}),
               RaiseAndFocus(w), UNCHANGED minimized
        PROVE  Good
    BY <2>1, <2>4, RaiseAndFocusIsGood DEF GrabFine
  <2> QED BY <1>1, <2>2, <2>3, <2>4 DEF PressTaskbar
<1>2. CASE DragMotion
  BY <1>2, DragIsGood DEF DragMotion
<1>3. ASSUME NEW w \in Windows, PressDecoration(w) PROVE Good
  <2>1. w \in Shown /\ w \in alive \cup gone
    BY <1>3 DEF PressDecoration, WindowsInv, Known
  <2>2. GrabFine
    BY <1>3, <2>1 DEF PressDecoration, GrabFine
  <2> QED BY <1>3, <2>1, <2>2, RaiseAndFocusIsGood DEF PressDecoration
<1>4. ASSUME NEW b \in Buttons, PressElsewhere(b) PROVE Good
  <2>1. GrabFine /\ UNCHANGED <<alive, gone, minimized, asked>>
    BY <1>4 DEF PressElsewhere, GrabFine
  <2>2. ASSUME NEW w \in Shown, RaiseAndFocus(w) PROVE Good
    BY <2>1, <2>2, RaiseAndFocusIsGood
  <2>3. CASE focus' = None /\ UNCHANGED space
    BY <2>1, <2>3, KeepIsGood
  <2> QED BY <1>4, <2>2, <2>3 DEF PressElsewhere
<1>5. ASSUME NEW b \in Buttons, Release(b) PROVE Good
  BY <1>5, KeepIsGood DEF Release, AfterRelease, GrabFine
<1> QED BY <1>1, <1>2, <1>3, <1>4, <1>5 DEF DeviceEvent

LEMMA ToolsStep ==
  ASSUME WindowsInv, ToolCall PROVE Good
<1>1. ASSUME NEW id \in Ids,
             WindowFocus(id) \/ WindowMove(id) \/ WindowClose(id) \/ WindowMinimize(id)
      PROVE  Good
  <2>1. /\ id <= Len(space) => id \in DOMAIN space /\ space[id] \in Shown
        /\ id > Len(space) => id - Len(space) \in DOMAIN minimized
    <3>1. /\ Len(space) \in Nat /\ Len(minimized) \in Nat /\ DOMAIN space = 1 .. Len(space)
          /\ DOMAIN minimized = 1 .. Len(minimized)
      BY LenProperties DEF WindowsInv, Types
    <3>2. id \in Nat /\ id >= 1 /\ id <= Len(space) + Len(minimized)
      BY <3>1 DEF Ids
    <3> QED BY <3>1, <3>2 DEF Shown
  <2>2. ASSUME id <= Len(space)
        PROVE  space[id] \in Shown /\ space[id] \in Windows /\ space[id] \in alive \cup gone
    BY <2>1, <2>2 DEF WindowsInv, Types, Known
  <2>3. CASE WindowFocus(id)
    <3>1. UNCHANGED <<alive, gone, grab, asked>>
      BY <2>3 DEF WindowFocus
    <3>2. CASE id <= Len(space) /\ RaiseAndFocus(space[id]) /\ UNCHANGED minimized
      BY <2>2, <3>1, <3>2, RaiseAndFocusIsGood DEF GrabFine
    <3>3. CASE id > Len(space) /\ Unminimize(id - Len(space))
      BY <2>1, <3>1, <3>3, UnminimizeIsGood
    <3> QED BY <2>3, <3>2, <3>3 DEF WindowFocus
  <2>4. CASE WindowMove(id)
    <3> PICK w : w = space[id]
      OBVIOUS
    <3>1. w \in Windows /\ w \in Shown /\ w \in alive \cup gone
      BY <2>2, <2>4 DEF WindowMove
    <3>2. space' = OnTop(space, w) /\ UNCHANGED <<alive, gone, minimized, focus, grab, asked>>
      BY <2>4 DEF WindowMove
    <3>3. space' \in Seq(Windows) /\ Shown' = Shown \cup {w}
      BY <3>1, <3>2, MappedIsShown DEF WindowsInv
    <3> QED BY <3>1, <3>2, <3>3, RaiseIsGood DEF GrabFine
  <2>5. CASE WindowClose(id)
    <3> PICK i \in DOMAIN minimized : i = id - Len(space)
      BY <2>1, <2>5 DEF WindowClose
    <3> PICK w : w = minimized[i]
      OBVIOUS
    <3>1. /\ minimized' = RemoveAt(minimized, i) /\ asked' = asked \cup {w}
          /\ UNCHANGED <<alive, gone, space, focus, grab>>
      BY <2>5 DEF WindowClose
    <3>2. /\ minimized' \in Seq(Windows)
          /\ Iconified \ {w} \subseteq Iconified' /\ Iconified' \subseteq Iconified
          /\ \A v : Once(minimized, v) => Once(minimized', v)
      BY <3>1, RemoveAtEntries, ShownEntries DEF WindowsInv, Types
    <3>3. Types' /\ Known'
      BY <3>1, <3>2, Kept DEF WindowsInv, Types, Known
    <3>4. FocusIsShown' /\ EveryWindowReachable'
      BY <3>1, <3>2, Kept DEF WindowsInv, FocusIsShown, EveryWindowReachable
    <3>5. NoDouble
      BY <3>1, <3>2, Kept DEF NoDouble, Single
    <3> QED BY <3>3, <3>4, <3>5 DEF Good, WindowsInv
  <2>6. CASE WindowMinimize(id)
    <3>1. UNCHANGED <<alive, gone, grab, asked>>
      BY <2>6 DEF WindowMinimize
    <3>2. CASE id <= Len(space) /\ Minimize(space[id])
      BY <2>2, <3>1, <3>2, MinimizeIsGood
    <3>3. CASE id > Len(space) /\ Unminimize(id - Len(space))
      BY <2>1, <3>1, <3>3, UnminimizeIsGood
    <3> QED BY <2>6, <3>2, <3>3 DEF WindowMinimize
  <2> QED BY <1>1, <2>3, <2>4, <2>5, <2>6
<1>2. CASE MouseMove
  BY <1>2, DragIsGood DEF MouseMove
<1>3. ASSUME NEW b \in Buttons, MouseClick(b) PROVE Good
  <2>1. GrabFine /\ UNCHANGED <<alive, gone, minimized, asked>>
    BY <1>3 DEF MouseClick, AfterRelease, GrabFine
  <2>2. ASSUME NEW w \in Shown, RaiseAndFocus(w) PROVE Good
    BY <2>1, <2>2, RaiseAndFocusIsGood
  <2>3. CASE UNCHANGED <<space, focus>>
    BY <2>1, <2>3, KeepIsGood
  <2> QED BY <1>3, <2>2, <2>3 DEF MouseClick
<1> QED BY <1>1, <1>2, <1>3 DEF ToolCall

LEMMA RefreshStep ==
  ASSUME WindowsInv, Refresh PROVE Good
<1>1. space' \in Seq(Windows) /\ Entries(space') = Entries(space) \cap (Windows \ gone)
  BY AmongEntries DEF Refresh, WindowsInv, Types
<1>2. Shown' = Shown \ gone
  BY <1>1, ShownEntries DEF WindowsInv, Types, Known
<1>3. UNCHANGED <<alive, gone, minimized, focus, grab, asked>>
  BY DEF Refresh
<1>4. Types' /\ Known'
  BY <1>1, <1>2, <1>3, Kept DEF WindowsInv, Types, Known
<1>5. FocusIsShown' /\ EveryWindowReachable'
  BY <1>2, <1>3, Kept DEF WindowsInv, Types, FocusIsShown, EveryWindowReachable
<1>6. NoDouble
  BY <1>2, <1>3, Kept DEF NoDouble, Single
<1> QED BY <1>4, <1>5, <1>6 DEF Good, WindowsInv

LEMMA WindowsStep == WindowsInv /\ [Next]_vars => Good
<1> SUFFICES ASSUME WindowsInv, [Next]_vars PROVE Good
  OBVIOUS
<1>1. CASE UNCHANGED vars
  BY <1>1, KeepIsGood DEF vars, GrabFine
<1> QED BY <1>1, ClientsStep, DevicesStep, ToolsStep, RefreshStep DEF Next

LEMMA NextIInv == IInv /\ [Next]_vars => IInv'
BY ButtonsStep, WindowsStep DEF IInv, WindowsInv, Good

-----------------------------------------------------------------------------
(* The theorems *)

LEMMA AtMostOneId ==
  ASSUME NEW m \in Seq(Windows), NEW inSpace, NEW w
  PROVE  LET times == Cardinality({i \in DOMAIN m : m[i] = w}) + IF w \in inSpace THEN 1 ELSE 0
         IN  /\ times <= 1 <=> Once(m, w) /\ (w \in inSpace => w \notin Entries(m))
             /\ times > 1 <=> ~ (times <= 1)
<1> DEFINE at == {i \in DOMAIN m : m[i] = w}
<1>1. IsFiniteSet(at)
  BY LenProperties, FS_Interval, FS_Subset
<1>2. Cardinality(at) \in Nat
  BY <1>1, FS_CardinalityType
<1>3. /\ Cardinality(at) = 0 <=> at = {}
      /\ Cardinality(at) = 1 <=> \E i : at = {i}
  BY <1>1, FS_EmptySet, FS_Singleton
<1>4. Once(m, w) <=> at = {} \/ \E i : at = {i}
  BY DEF Once
<1>5. w \notin Entries(m) <=> at = {}
  BY DEF Entries
<1> HIDE DEF at
<1>6. /\ Cardinality(at) <= 1 <=> Once(m, w)
      /\ Cardinality(at) = 0 <=> w \notin Entries(m)
      /\ w \notin Entries(m) => Once(m, w)
  BY <1>2, <1>3, <1>4, <1>5
<1>7. CASE w \in inSpace
  BY <1>2, <1>6, <1>7 DEF at
<1>8. CASE w \notin inSpace
  BY <1>2, <1>6, <1>8 DEF at
<1> QED BY <1>7, <1>8

\* In every run, windows that exist are tracked, the pointer handle's buttons
\* are down, and the properties below hold.
THEOREM Invariance == Spec => []IInv
BY InitIInv, NextIInv, PTL DEF Spec

\* Minimizing, restoring, raising and the refresh never leave the keyboard with
\* an existing window that is not in the space.
THEOREM KeyboardGoesToTheShown == Spec => []FocusIsShown
<1>1. IInv => FocusIsShown
  BY DEF IInv
<1> QED BY <1>1, Invariance, PTL

\* No interleaving of clients, devices and tools loses an existing window,
\* except one that was sent a close while it was minimized.
THEOREM NoWindowIsLost == Spec => []EveryWindowReachable
<1>1. IInv => EveryWindowReachable
  BY DEF IInv
<1> QED BY <1>1, Invariance, PTL

\* A drag the user began is over once all buttons are up, because what the
\* pointer handle holds for pressed is always down.
THEOREM DragEndsWithButtons == Spec => []UserDragNeedsButton
<1>1. IInv => UserDragNeedsButton
  BY DEF IInv
<1> QED BY <1>1, Invariance, PTL

\* Only the grab's motion handler, which maps the window it drags without
\* asking whether it is minimized, gives a window a second id.
THEOREM OnlyDragsDouble == Spec => TwoIdsOnlyByDragging
<1>1. ASSUME IInv, IInv', [Next]_vars
      PROVE  [\A w \in Windows :
                Times(w) <= 1 /\ Times(w)' > 1 => grab.window = w /\ w \in Iconified]_vars
  <2>1. NoDouble
    BY <1>1, WindowsStep DEF IInv, WindowsInv, Good
  <2>2. minimized \in Seq(Windows) /\ minimized' \in Seq(Windows)
    BY <1>1 DEF IInv, Types
  <2>3. ASSUME NEW w \in Windows, Times(w) <= 1, Times(w)' > 1
        PROVE  grab.window = w /\ w \in Iconified
    <3>1. Single(w)
      BY <2>2, <2>3, AtMostOneId, ShownEntries DEF Times, Single
    <3>2. ~ Single(w)'
      BY <2>2, <2>3, AtMostOneId, ShownEntries DEF Times, Single
    <3> QED BY <2>1, <3>1, <3>2 DEF NoDouble
  <2> QED BY <2>3
<1> QED BY <1>1, Invariance, PTL DEF Spec, TwoIdsOnlyByDragging

-----------------------------------------------------------------------------
(* Redraw: no change of the scene is forgotten, in either mode; a capture is *)
(* of the scene as it is; and it shows the region and the scale asked for.   *)

\* commit_frame waits for the screen, so that no flip is under way and no
\* vblank arrives.
NothingInFlight ==
  legacy => /\ kms.flip = 0 /\ kms.queued = 0 /\ ~ vblank
            /\ redraw \in {"Idle", "Queued"}

Flights ==
  /\ kms \in [pending : Nat, queued : Nat, flip : Nat] /\ scene \in Nat \ {0}
  /\ redraw \in {"Idle", "Queued", "WaitingForVBlank"}

\* The last of the frames given to the kernel or kept for it.
Newest == IF kms.queued # 0 THEN kms.queued ELSE IF kms.flip # 0 THEN kms.flip ELSE screen

\* A frame is kept only behind a pending one whose end is waited for, and what
\* counts as drawn is the last of them, so that a render that finds nothing to
\* draw leaves nothing unseen.
Pipeline ==
  /\ kms.queued # 0 => kms.pending # 0 /\ (redraw = "WaitingForVBlank" \/ excused)
  /\ drawn = Newest \/ excused

AskedFor == redraw = "Queued" \/ (redraw = "WaitingForVBlank" /\ needed)

Remembered == running /\ drawn # scene => AskedFor \/ excused

CallbackOwed == waiting \cap shown # {} => redraw # "Idle" \/ excused

RedrawIInv == NothingInFlight /\ Flights /\ Pipeline /\ Remembered /\ CallbackOwed

LEMMA InitRedrawIInv == RedrawInit => RedrawIInv
BY DEF RedrawInit, RedrawIInv, NothingInFlight, Flights, Pipeline, Newest, Remembered, CallbackOwed

\* Whatever a render does, what counts as drawn afterwards is the scene and the
\* last of the frames, unless it failed, and a frame that it leaves to the
\* kernel is waited for.
LEMMA RenderKeeps ==
  ASSUME RedrawIInv, NEW wanted, RenderFrame(wanted), UNCHANGED <<legacy, sceneVars, vblank>>
  PROVE  RedrawIInv'
<1> USE DEF RedrawIInv, Flights, sceneVars
<1>1. CASE RenderEmpty(wanted)
  <2>1. /\ drawn = scene /\ redraw' = "Idle" /\ waiting' \cap shown = {}
        /\ excused' = (excused \/ kms.queued # 0) /\ UNCHANGED <<drawn, screen, kms>>
    BY <1>1 DEF RenderEmpty, SendFrameCallbacks
  <2>2. NothingInFlight' /\ Remembered' /\ CallbackOwed' /\ Flights'
    BY <2>1 DEF NothingInFlight, Remembered, CallbackOwed
  <2>3. Pipeline'
    BY <2>1 DEF Pipeline, Newest
  <2> QED  BY <2>2, <2>3
<1>2. CASE CommitFrame(wanted)
  <2>1. /\ legacy /\ redraw' = "Idle" /\ drawn' = scene /\ screen' = scene
        /\ waiting' \cap shown = {} /\ kms' = kms
    BY <1>2 DEF CommitFrame, SendFrameCallbacks
  <2>2. NothingInFlight' /\ Remembered' /\ CallbackOwed' /\ Flights'
    BY <2>1 DEF NothingInFlight, Remembered, CallbackOwed
  <2>3. Pipeline'
    BY <2>1 DEF Pipeline, Newest, NothingInFlight
  <2> QED  BY <2>2, <2>3
<1>3. CASE QueueFrame(wanted)
  <2>1. /\ ~ legacy /\ redraw' = "WaitingForVBlank" /\ drawn' = scene /\ screen' = screen
        /\ \/ /\ kms.pending = 0
              /\ kms' = [kms EXCEPT !.pending = scene, !.flip = scene]
           \/ kms.pending # 0 /\ kms' = [kms EXCEPT !.queued = scene]
    BY <1>3 DEF QueueFrame
  <2>2. Flights'
    BY <2>1
  <2>3. NothingInFlight' /\ Remembered' /\ CallbackOwed'
    BY <2>1 DEF NothingInFlight, Remembered, CallbackOwed
  <2>4. Pipeline'
    BY <2>1 DEF Pipeline, Newest
  <2> QED  BY <2>2, <2>3, <2>4
<1>4. CASE QueueFrameBusy(wanted) \/ RenderFails(wanted)
  <2>1. redraw' = "Idle" /\ excused' /\ kms' = kms
    BY <1>4 DEF QueueFrameBusy, RenderFails, LoseFrame
  <2> QED  BY <2>1 DEF NothingInFlight, Pipeline, Remembered, CallbackOwed
<1> QED  BY <1>1, <1>2, <1>3, <1>4 DEF RenderFrame

\* The end of a wait hands the frame that was kept to the kernel, and queues the
\* redraw that was asked for meanwhile.
LEMMA EndOfWaitKeeps ==
  ASSUME RedrawIInv, EndOfWait, redraw = "WaitingForVBlank",
         UNCHANGED <<legacy, running, sceneVars, drawn, screen>>
  PROVE  RedrawIInv'
<1> USE DEF RedrawIInv, Flights, sceneVars
<1>1. /\ ~ legacy /\ waiting' \cap shown = {} /\ redraw' = (IF needed THEN "Queued" ELSE "Idle")
      /\ FrameSubmitted
  BY DEF NothingInFlight, EndOfWait, SendFrameCallbacks
<1>2. /\ kms' \in [pending : Nat, queued : Nat, flip : Nat] /\ kms'.queued = 0
      /\ excused' = excused \/ excused'
  <2>1. CASE kms.queued = 0 /\ kms' = [kms EXCEPT !.pending = 0] /\ UNCHANGED excused
    BY <2>1
  <2>2. CASE /\ kms' = [kms EXCEPT !.pending = kms.queued, !.flip = kms.queued, !.queued = 0]
             /\ UNCHANGED excused
    BY <2>2
  <2>3. CASE kms' = [kms EXCEPT !.pending = 0, !.queued = 0] /\ excused'
    BY <2>3
  <2> QED  BY <1>1, <2>1, <2>2, <2>3 DEF FrameSubmitted
<1>3. Newest' = Newest \/ excused'
  BY <1>1 DEF FrameSubmitted, Newest
<1>4. Pipeline'
  BY <1>2, <1>3 DEF Pipeline
<1>5. NothingInFlight' /\ Remembered' /\ CallbackOwed'
  BY <1>1, <1>2 DEF NothingInFlight, Remembered, AskedFor, CallbackOwed
<1> QED  BY <1>1, <1>2, <1>4, <1>5

LEMMA StepRedrawIInv == RedrawIInv /\ [RedrawNext]_redrawVars => RedrawIInv'
<1> SUFFICES ASSUME RedrawIInv, [RedrawNext]_redrawVars PROVE RedrawIInv'
  OBVIOUS
<1> USE DEF RedrawIInv, Flights, sceneVars
<1>u. ASSUME UNCHANGED <<legacy, vblank, running, stateVars, drawn, screen, kms, sceneVars,
                         excused, waiting>>
      PROVE  RedrawIInv'
  BY <1>u DEF NothingInFlight, Pipeline, Newest, Remembered, AskedFor, CallbackOwed, stateVars
<1>1. CASE FirstFrame
  BY <1>1, RenderKeeps DEF FirstFrame
<1>2. ASSUME /\ \/ Change \/ \E c \in Clients : Commit(c) \/ Hide(c) \/ Show(c)
      PROVE  RedrawIInv'
  <2>1. /\ QueueRedraw(redraw, needed) /\ scene' \in {scene, scene + 1}
        /\ UNCHANGED <<legacy, running, drawn, screen, kms, vblank, excused>>
    BY <1>2 DEF Change, Commit, Hide, Show, ChangeScene, Handler, drawVars
  <2>2. /\ redraw' \in {"Queued", "WaitingForVBlank"} /\ AskedFor'
        /\ (redraw = "WaitingForVBlank" <=> redraw' = "WaitingForVBlank")
        /\ (legacy => redraw' = "Queued")
    BY <2>1 DEF QueueRedraw, AskedFor, NothingInFlight
  <2> QED
    BY <2>1, <2>2 DEF NothingInFlight, Pipeline, Newest, Remembered, CallbackOwed
<1>3. CASE ChangeQuietly
  <2>1. /\ excused' /\ scene' = scene + 1
        /\ UNCHANGED <<legacy, redraw, kms, vblank>>
    BY <1>3 DEF ChangeQuietly, ChangeScene, stateVars, drawVars
  <2> QED
    BY <2>1 DEF NothingInFlight, Pipeline, Remembered, CallbackOwed
<1>4. CASE VBlank
  <2>1. CASE redraw = "WaitingForVBlank"
    BY <1>4, <2>1, EndOfWaitKeeps DEF VBlank
  <2>2. CASE redraw # "WaitingForVBlank"
    <3>1. /\ ~ legacy /\ redraw' = "Idle" /\ excused' = (excused \/ redraw = "Queued")
          /\ UNCHANGED <<legacy, running, kms, waiting, sceneVars, drawn, screen>>
      BY <1>4, <2>2 DEF VBlank, NothingInFlight
    <3> QED
      BY <2>2, <3>1 DEF NothingInFlight, Pipeline, Newest, Remembered, AskedFor, CallbackOwed
  <2> QED  BY <2>1, <2>2
<1>5. CASE Watchdog
  <2>1. CASE redraw = "WaitingForVBlank" /\ late
    BY <1>5, <2>1, EndOfWaitKeeps DEF Watchdog
  <2>2. CASE ~ (redraw = "WaitingForVBlank" /\ late)
    BY <1>5, <2>2, <1>u DEF Watchdog
  <2> QED  BY <2>1, <2>2
<1>6. ASSUME NEW request \in Requests, CaptureScreen(request) PROVE RedrawIInv'
  BY <1>6, RenderKeeps DEF CaptureScreen
<1>7. CASE AfterDispatch
  <2>1. CASE redraw = "Queued" /\ cool
    BY <1>7, <2>1, RenderKeeps DEF AfterDispatch
  <2>2. CASE ~ (redraw = "Queued" /\ cool)
    BY <1>7, <2>2, <1>u DEF AfterDispatch, drawVars
  <2> QED
    BY <2>1, <2>2
<1>8. CASE FlipDone
  <2>1. /\ kms.flip # 0 /\ screen' = kms.flip /\ kms' = [kms EXCEPT !.flip = 0]
        /\ UNCHANGED <<legacy, running, redraw, needed, drawn, waiting, sceneVars, excused>>
    BY <1>8 DEF FlipDone, stateVars
  <2>2. ~ legacy /\ Flights' /\ Newest' = Newest /\ kms'.queued = kms.queued
        /\ kms'.pending = kms.pending
    BY <2>1 DEF NothingInFlight, Newest
  <2> QED
    BY <2>1, <2>2 DEF NothingInFlight, Pipeline, Remembered, AskedFor, CallbackOwed
<1>9. CASE TimerExpires \/ CoolDown \/ GetLate
  BY <1>9, <1>u DEF TimerExpires, CoolDown, GetLate, drawVars
<1>10. CASE UNCHANGED redrawVars
  BY <1>10, <1>u DEF redrawVars, loopVars, drawVars
<1> QED
  BY <1>1, <1>2, <1>3, <1>4, <1>5, <1>6, <1>7, <1>8, <1>9, <1>10 DEF RedrawNext

\* What is not on the screen is queued to be drawn, remembered for the end of
\* the wait or in flight, and a client that waits for a callback waits for a
\* render or a vblank while its window is in the space, in both modes and
\* whatever captures and the watchdog do, unless a redraw failed, was never
\* asked for or was forgotten at an unexpected vblank (render_frame,
\* queue_redraw, send_frame_callbacks, the handlers of vblank and watchdog).
THEOREM NoChangeIsForgotten == RedrawSpec => []NothingForgotten
<1>1. RedrawIInv => NothingForgotten
  BY DEF RedrawIInv, NothingForgotten, Pipeline, Newest, Remembered, AskedFor, CallbackOwed
<1> QED
  BY InitRedrawIInv, StepRedrawIInv, <1>1, PTL DEF RedrawSpec

LegacyForgetsNothing == legacy /\ running /\ screen # scene => redraw = "Queued" \/ excused

\* With SMITHAY_USE_LEGACY, as start-compositor runs it, all that is not on the
\* screen is queued to be drawn, with the same exceptions.
THEOREM LegacyNeverForgets == RedrawSpec => []LegacyForgetsNothing
<1>1. RedrawIInv => LegacyForgetsNothing
  BY DEF RedrawIInv, LegacyForgetsNothing, NothingInFlight, Pipeline, Newest, Remembered, AskedFor
<1> QED
  BY InitRedrawIInv, StepRedrawIInv, <1>1, PTL DEF RedrawSpec

-----------------------------------------------------------------------------
(* Captures are fresh *)

\* No snapshot is of a later scene, and no answer of a later snapshot.
AnswersFollow ==
  /\ {scene, snapshot, capture.version, failures} \subseteq Nat
  /\ capture.version <= snapshot /\ snapshot <= scene

LEMMA InitAnswersFollow == RedrawInit => AnswersFollow
<1> SUFFICES ASSUME RedrawInit PROVE AnswersFollow
  OBVIOUS
<1>1. capture.version = 0
  BY DEF RedrawInit, NoCapture
<1>2. scene = 1 /\ snapshot = 0 /\ failures = 0
  BY DEF RedrawInit
<1> QED  BY <1>1, <1>2 DEF AnswersFollow

\* A render makes a snapshot of the scene or leaves the one before, and if it
\* was to make one and did not, it has failed.
LEMMA RenderSnapshot ==
  ASSUME failures \in Nat, NEW wanted, RenderFrame(wanted)
  PROVE  /\ failures' \in Nat
         /\ snapshot' = snapshot \/ snapshot' = scene
         /\ wanted => snapshot' = scene \/ failures' > failures
BY DEF RenderFrame, RenderEmpty, CommitFrame, QueueFrame, QueueFrameBusy, RenderFails,
       TakeSnapshot, Fails, Works

\* An answer with a picture is the snapshot, and its request was accepted.
LEMMA AnswerIs ==
  ASSUME NEW v, NEW request
  PROVE  /\ Answer(v, request).version \in {0, v}
         /\ Answer(v, request).status = "ok" =>
              /\ Answer(v, request).version = v
              /\ CaptureOptionsAccepted(FrameWidth, FrameHeight, request.region, request.scale)
         /\ Answer(v, request).status = "bad options" =>
              ~ CaptureOptionsAccepted(FrameWidth, FrameHeight, request.region, request.scale)
BY DEF Answer, NoCapture

LEMMA NextAnswersFollow == AnswersFollow /\ [RedrawNext]_redrawVars => AnswersFollow'
<1> SUFFICES ASSUME AnswersFollow, [RedrawNext]_redrawVars PROVE AnswersFollow'
  OBVIOUS
<1> USE DEF AnswersFollow, sceneVars
<1>1. CASE \/ Change \/ ChangeQuietly
           \/ \E c \in Clients : Commit(c) \/ Hide(c) \/ Show(c)
  BY <1>1 DEF Commit, Hide, Show, Change, ChangeQuietly, ChangeScene, drawVars
<1>2. ASSUME NEW wanted, RenderFrame(wanted), UNCHANGED <<scene, capture>> PROVE AnswersFollow'
  BY <1>2, RenderSnapshot
<1>3. ASSUME NEW request \in Requests, CaptureScreen(request) PROVE AnswersFollow'
  <2>1. /\ snapshot' \in {snapshot, scene} /\ failures' \in Nat /\ scene' = scene
        /\ capture'.version \in {0, snapshot'}
    BY <1>3, RenderSnapshot, AnswerIs DEF CaptureScreen
  <2> QED  BY <2>1
<1>4. CASE FirstFrame
  BY <1>2, <1>4 DEF FirstFrame
<1>5. CASE AfterDispatch
  BY <1>2, <1>5 DEF AfterDispatch, drawVars
<1>6. CASE VBlank \/ Watchdog \/ FlipDone \/ TimerExpires \/ CoolDown \/ GetLate
  BY <1>6 DEF VBlank, Watchdog, FlipDone, TimerExpires, CoolDown, GetLate, drawVars
<1>7. CASE UNCHANGED redrawVars
  BY <1>7 DEF redrawVars, drawVars
<1> QED  BY <1>1, <1>3, <1>4, <1>5, <1>6, <1>7 DEF RedrawNext

\* A capture is of the scene as it is, and never of an older one than the
\* capture before, unless something failed in that very call.
THEOREM CapturesAreFresh == RedrawSpec => CaptureIsFresh
<1>1. ASSUME AnswersFollow, NEW request \in Requests, CaptureScreen(request),
             capture'.status = "ok"
      PROVE  /\ capture'.version >= capture.version
             /\ capture'.version = scene \/ failures' > failures
  <2>1. /\ snapshot' = snapshot \/ snapshot' = scene
        /\ snapshot' = scene \/ failures' > failures
    BY <1>1, RenderSnapshot DEF CaptureScreen, AnswersFollow
  <2>2. capture'.version = snapshot'
    BY <1>1, AnswerIs DEF CaptureScreen
  <2> QED  BY <1>1, <2>1, <2>2 DEF AnswersFollow
<1>2. AnswersFollow /\ [RedrawNext]_redrawVars =>
        [\A request \in Requests :
           capture'.status = "ok" /\ CaptureScreen(request) =>
             /\ capture'.version >= capture.version
             /\ capture'.version = scene \/ failures' > failures]_redrawVars
  BY <1>1
<1> QED  BY <1>2, InitAnswersFollow, NextAnswersFollow, PTL DEF RedrawSpec, CaptureIsFresh

-----------------------------------------------------------------------------
(* Captures show what was asked for *)

LEMMA DivBounds ==
  ASSUME NEW a \in Int, NEW b \in Int, b > 0
  PROVE  /\ a \div b \in Int
         /\ (a \div b) * b <= a /\ a < (a \div b + 1) * b
<1> DEFINE q == a \div b
<1>1. q \in Int
  OBVIOUS
<1>2. b * q <= a
  OBVIOUS
<1>3. a < b * q + b
  OBVIOUS
<1> HIDE DEF q
<1>4. q * b = b * q /\ (q + 1) * b = b * q + b
  BY <1>1
<1> QED  BY <1>1, <1>2, <1>3, <1>4 DEF q

\* A factor may be cancelled.
LEMMA Cancel ==
  ASSUME NEW a \in Int, NEW b \in Int, NEW c \in Nat, c > 0, a * c < b * c
  PROVE  a < b
<1> SUFFICES ASSUME b <= a PROVE FALSE
  OBVIOUS
<1> DEFINE d == a - b
<1>1. d \in Nat /\ a = b + d
  OBVIOUS
<1> HIDE DEF d
<1>2. d * c \in Nat
  BY <1>1
<1>3. a * c = b * c + d * c
  BY <1>1
<1> QED  BY <1>2, <1>3

\* Nearest-neighbour scaling of n pixels to m: each pixel of the result is from
\* the pixel under its own upper left corner.
LEMMA NearestBelow ==
  ASSUME NEW n \in Nat, n > 0, NEW m \in Nat, m > 0, NEW x \in 0 .. m - 1
  PROVE  LET q == (x * n) \div m
         IN  /\ q \in 0 .. n - 1
             /\ q * m <= x * n /\ x * n < (q + 1) * m
<1> DEFINE q == (x * n) \div m
<1>1. x * n \in Int /\ x * n >= 0
  OBVIOUS
<1>2. q \in Int /\ q * m <= x * n /\ x * n < (q + 1) * m
  BY <1>1, DivBounds
<1>3. x * n < m * n
  <2>1. x + 1 <= m
    OBVIOUS
  <2>2. PICK d \in Nat : m = x + 1 + d
    BY <2>1
  <2>3. d * n \in Nat
    OBVIOUS
  <2>4. m * n = x * n + n + d * n
    BY <2>2
  <2> QED  BY <1>1, <2>3, <2>4
<1>4. q * m < n * m
  BY <1>1, <1>2, <1>3
<1> HIDE DEF q
<1>5. q < n
  BY <1>2, <1>4, Cancel
<1>6. 0 * m < (q + 1) * m
  BY <1>1, <1>2
<1>7. 0 < q + 1
  BY <1>2, <1>6, Cancel
<1> QED  BY <1>2, <1>5, <1>7 DEF q

\* Where no sum overflows, RegionAccepted says what the region must be.
LEMMA RegionIsInside ==
  ASSUME NEW r \in [x : Int, y : Int, width : Nat, height : Nat]
  PROVE  RegionAccepted(FrameWidth, FrameHeight, r) <=> Legal(r)
<1> USE DEF Overflows, Add32
<1>1. U32Max \in Nat /\ FrameWidth \in Nat /\ FrameHeight \in Nat
      /\ FrameWidth <= U32Max /\ FrameHeight <= U32Max
  BY ScreenshotAssumption, RedrawAssumption
<1>2. ASSUME NEW a \in Nat, NEW b \in Nat, ~ Overflows(a, b) PROVE Add32(a, b) = a + b
  BY <1>1, <1>2
<1>3. r.x \in Int /\ r.y \in Int /\ r.width \in Nat /\ r.height \in Nat
  OBVIOUS
<1>4. ASSUME r.x >= 0, r.y >= 0
      PROVE  /\ r.x + r.width <= FrameWidth => ~ Overflows(r.x, r.width)
             /\ r.y + r.height <= FrameHeight => ~ Overflows(r.y, r.height)
             /\ ~ Overflows(r.x, r.width) => Add32(r.x, r.width) = r.x + r.width
             /\ ~ Overflows(r.y, r.height) => Add32(r.y, r.height) = r.y + r.height
  <2>1. r.x \in Nat /\ r.y \in Nat
    BY <1>3, <1>4
  <2>2. /\ ~ Overflows(r.x, r.width) => Add32(r.x, r.width) = r.x + r.width
        /\ ~ Overflows(r.y, r.height) => Add32(r.y, r.height) = r.y + r.height
    BY <1>2, <1>3, <2>1
  <2> QED  BY <1>1, <1>3, <2>2
<1> HIDE DEF Overflows, Add32
<1> QED  BY <1>3, <1>4 DEF RegionAccepted, Legal

\* At its full size a region stays as it is.
LEMMA FullSize ==
  ASSUME NEW w \in Nat, NEW s \in [num : Int, den : Nat], s.num = s.den, s.den # 0
  PROVE  Scaled(w, s) = w
<1> DEFINE n == s.den
           m == 2 * n
           a == 2 * w * n + n
           q == a \div m
<1>1. n \in Nat /\ n > 0 /\ Scaled(w, s) = q
  BY DEF Scaled
<1> HIDE DEF n
<1>2. m \in Int /\ m > 0 /\ a = w * m + n /\ a \in Int
  BY <1>1
<1>3. a < (w + 1) * m /\ w * m <= a
  BY <1>1, <1>2
<1> HIDE DEF a, m
<1>4. q \in Int /\ q * m <= a /\ a < (q + 1) * m
  BY <1>2, DivBounds
<1> HIDE DEF q
<1>5. q * m < (w + 1) * m /\ w * m < (q + 1) * m
  BY <1>2, <1>3, <1>4
<1>6. q < w + 1 /\ w < q + 1
  BY <1>2, <1>4, <1>5, Cancel
<1> QED  BY <1>1, <1>4, <1>6

LEMMA SmallerFits ==
  ASSUME NEW a \in Nat, NEW b \in Nat, NEW c \in Nat, NEW d \in Nat, a <= c, b <= d
  PROVE  a * b <= c * d
<1>1. PICK e \in Nat : c = a + e
  OBVIOUS
<1>2. PICK f \in Nat : d = b + f
  OBVIOUS
<1>3. a * b \in Nat /\ a * f \in Nat /\ e * d \in Nat
  OBVIOUS
<1>4. c * d = a * d + e * d
  BY <1>1
<1>5. a * d = a * b + a * f
  BY <1>2
<1> QED  BY <1>3, <1>4, <1>5

\* Each pixel of a scaled region lies in the region, and is the one under its
\* own upper left corner.
LEMMA PixelIsNearest ==
  ASSUME NEW origin \in Int, NEW n \in Nat, n > 0, NEW m \in Nat, m > 0, NEW x \in 0 .. m - 1
  PROVE  LET q == origin + (x * n) \div m
         IN  /\ q \in origin .. origin + n - 1
             /\ (q - origin) * m <= x * n /\ x * n < (q - origin + 1) * m
<1> DEFINE q == (x * n) \div m
<1>1. q \in 0 .. n - 1 /\ q * m <= x * n /\ x * n < (q + 1) * m
  BY NearestBelow
<1> HIDE DEF q
<1>2. origin + q \in origin .. origin + n - 1 /\ origin + q - origin = q
  BY <1>1
<1> QED  BY <1>1, <1>2 DEF q

\* A capture's pixels are those of the region asked for, each nearest to its
\* place, and a legal request at full size is not refused, if a frame of the
\* output's mode may be captured at all (apply_capture_options).
THEOREM CapturesShowRegion ==
  ASSUME FitsLimit(FrameWidth, FrameHeight)
  PROVE  RedrawSpec => CaptureShowsRegion
<1> DEFINE
      Regions == [x : Int, y : Int, width : Nat, height : Nat]
      Scales  == [num : Int, den : Nat]
<1>1. ASSUME NEW r \in Regions, NEW s \in Scales, Legal(r), s.num = s.den, s.den # 0
      PROVE  CaptureOptionsAccepted(FrameWidth, FrameHeight, r, s)
  <2>1. Scaled(r.width, s) = r.width /\ Scaled(r.height, s) = r.height
    BY <1>1, FullSize
  <2>2. /\ r.width \in 1 .. U32Max /\ r.height \in 1 .. U32Max
        /\ r.width <= FrameWidth /\ r.height <= FrameHeight
    BY <1>1, ScreenshotAssumption, RedrawAssumption DEF Legal
  <2>3. FitsLimit(r.width, r.height)
    <3>1. /\ {r.width, r.height, FrameWidth, FrameHeight} \subseteq Nat
          /\ FrameWidth * FrameHeight \in Nat /\ r.width * r.height \in Nat
          /\ MaxPixels \in Nat
      BY ScreenshotAssumption, RedrawAssumption
    <3>2. r.width * r.height <= FrameWidth * FrameHeight
      BY <2>2, <3>1, SmallerFits
    <3> QED  BY <3>1, <3>2 DEF FitsLimit
  <2>4. RegionAccepted(FrameWidth, FrameHeight, r)
    BY <1>1, RegionIsInside
  <2>5. ScaleAccepted(s)
    BY <1>1 DEF ScaleAccepted
  <2> QED
    BY <2>1, <2>2, <2>3, <2>4, <2>5 DEF CaptureOptionsAccepted, DimensionAccepted
<1>2. ASSUME NEW r \in Regions, NEW s \in Scales,
             CaptureOptionsAccepted(FrameWidth, FrameHeight, r, s)
      PROVE  /\ Legal(r)
             /\ Scaled(r.width, s) \in Nat /\ Scaled(r.width, s) > 0
             /\ Scaled(r.height, s) \in Nat /\ Scaled(r.height, s) > 0
  BY <1>2, RegionIsInside, ScreenshotAssumption DEF CaptureOptionsAccepted, DimensionAccepted
<1>3. ASSUME NEW r \in Regions, NEW width \in Nat, width > 0, NEW height \in Nat, height > 0,
             Legal(r), NEW p \in (0..(width - 1)) \X (0..(height - 1))
      PROVE  Nearest(r, width, height, p, SourcePixel(r, width, height, p[1], p[2]))
  <2> DEFINE qx == r.x + (p[1] * r.width) \div width
             qy == r.y + (p[2] * r.height) \div height
  <2>1. /\ r.x \in Int /\ r.y \in Int /\ r.width \in Nat /\ r.height \in Nat
        /\ p[1] \in 0 .. width - 1 /\ p[2] \in 0 .. height - 1
    OBVIOUS
  <2>2. r.width > 0 /\ r.height > 0
    BY <1>3 DEF Legal
  <2>3. /\ qx \in r.x..(r.x + r.width - 1)
        /\ (qx - r.x) * width <= p[1] * r.width
        /\ p[1] * r.width < (qx - r.x + 1) * width
    BY <1>3, <2>1, <2>2, PixelIsNearest
  <2>4. /\ qy \in r.y..(r.y + r.height - 1)
        /\ (qy - r.y) * height <= p[2] * r.height
        /\ p[2] * r.height < (qy - r.y + 1) * height
    BY <1>3, <2>1, <2>2, PixelIsNearest
  <2>5. SourcePixel(r, width, height, p[1], p[2]) = <<qx, qy>>
    BY DEF SourcePixel
  <2> HIDE DEF qx, qy
  <2> QED  BY <2>3, <2>4, <2>5 DEF Nearest
<1>4. ASSUME NEW request \in Requests, CaptureScreen(request)
      PROVE  Shows(request, capture')
  <2> DEFINE r == request.region
             s == request.scale
             width  == Scaled(r.width, s)
             height == Scaled(r.height, s)
  <2>1. r \in Regions /\ s \in Scales
    BY RequestsAssumption
  <2>2. capture' = Answer(snapshot', request)
    BY <1>4 DEF CaptureScreen
  <2> HIDE DEF Regions, Scales
  <2>3. capture'.status = "bad options" => ~ (Legal(r) /\ s.num = s.den /\ s.den # 0)
    BY <1>1, <2>1, <2>2, AnswerIs
  <2>4. ASSUME capture'.status = "ok"
        PROVE  Legal(r) /\ PictureIsNearest[request]
    <3>1. CaptureOptionsAccepted(FrameWidth, FrameHeight, r, s)
      BY <2>2, <2>4, AnswerIs
    <3>2. Legal(r) /\ width \in Nat /\ width > 0 /\ height \in Nat /\ height > 0
      BY <1>2, <2>1, <3>1
    <3>3. \A p \in (0..(width - 1)) \X (0..(height - 1)) :
            ScaledPixels(r, s)[p] = SourcePixel(r, width, height, p[1], p[2])
      BY DEF ScaledPixels
    <3>4. PictureIsNearest[request] =
            \A p \in (0..(width - 1)) \X (0..(height - 1)) :
              Nearest(r, width, height, p, ScaledPixels(r, s)[p])
      BY DEF PictureIsNearest
    <3> HIDE DEF r, s, width, height
    <3> QED  BY <1>3, <2>1, <3>2, <3>3, <3>4
  <2> QED  BY <2>3, <2>4 DEF Shows
<1>5. [RedrawNext]_redrawVars =>
        [\A request \in Requests :
           CaptureScreen(request) => Shows(request, capture')]_redrawVars
  BY <1>4
<1> QED  BY <1>5, PTL DEF RedrawSpec, CaptureShowsRegion
=============================================================================
