---------------------------- MODULE ShellProofs ----------------------------
(***************************************************************************)
(* Proofs about Shell, for every size of the line, every set of letters    *)
(* and every number of keys: readline hands on the line that the keys      *)
(* leave and stays inside its buffer, the arguments that                   *)
(* peachos_parse_command makes of it are its words, in their order, printf *)
(* puts out what its format stands for, and the screen shows the line.     *)
(***************************************************************************)
EXTENDS Shell, SequenceTheorems, WellFoundedInduction, TLAPS

(* The reference. *)

\* A set of natural numbers has a least element.
LEMMA LeastElement ==
  ASSUME NEW S \in SUBSET Nat, S # {}
  PROVE  \E x \in S : \A y \in S : x <= y
<1> DEFINE R == OpToRel(<, Nat)
<1>1. IsWellFoundedOn(R, Nat)
  BY NatLessThanWellFounded
<1>2. \A x, y \in Nat : <<y, x>> \in R <=> y < x
  BY DEF OpToRel
<1> HIDE DEF R
<1>3. PICK x \in S : \A y \in S : ~ (<<y, x>> \in R)
  BY <1>1, WFMin
<1>4. \A y \in S : ~ (y < x) /\ x \in Nat /\ y \in Nat
  BY <1>2, <1>3, Zenon
<1>5. \A y \in S : x <= y
  BY <1>4
<1> QED  BY <1>5

\* What each prefix of the keys leaves.
Lines(ks, text) ==
  text = [n \in 0 .. Len(ks) |-> IF n = 0 THEN <<>> ELSE EditLine(text[n - 1], ks[n])]

\* There are such lines, for any keys.
LEMMA LinesExist ==
  ASSUME NEW T, NEW ks \in Seq(T)
  PROVE  \E text : Lines(ks, text) /\ Edited(ks) = text[Len(ks)]
<1> DEFINE total == Len(ks)
           Step(g, n) == IF n = 0 THEN <<>> ELSE EditLine(g[n - 1], ks[n])
           bad == {k \in Nat : ~ \E g : g = [n \in 0 .. k |-> Step(g, n)]}
<1>1. Edited(ks) = (CHOOSE g : g = [n \in 0 .. total |-> Step(g, n)])[total]
  BY DEF Edited
<1>2. \A g, h, n : n # 0 /\ g[n - 1] = h[n - 1] => Step(g, n) = Step(h, n)
  OBVIOUS
<1>3. \A g : Step(g, 0) = <<>>
  OBVIOUS
<1>4. total \in Nat
  BY LenProperties
<1>5. \A g : g = [n \in 0 .. total |-> Step(g, n)] => Lines(ks, g)
  BY DEF Lines
<1> HIDE DEF Step, total
<1>6. bad = {}
  <2> SUFFICES ASSUME bad # {} PROVE FALSE
    OBVIOUS
  <2>1. PICK k \in bad : \A y \in bad : k <= y
    BY LeastElement
  <2>2. k \in Nat /\ ~ \E g : g = [n \in 0 .. k |-> Step(g, n)]
    BY <2>1
  <2>3. k # 0
    <3> SUFFICES ASSUME k = 0 PROVE FALSE
      OBVIOUS
    <3> DEFINE g == [n \in 0 .. 0 |-> <<>>]
    <3>1. g = [n \in 0 .. 0 |-> Step(g, n)]
      BY <1>3
    <3> QED  BY <2>2, <3>1
  <2>4. k - 1 \in Nat /\ k - 1 \notin bad
    <3>1. k - 1 \in Nat /\ ~ (k <= k - 1)
      BY <2>2, <2>3
    <3> QED  BY <2>1, <3>1
  <2>5. PICK g : g = [n \in 0 .. k - 1 |-> Step(g, n)]
    BY <2>4
  <2> DEFINE h == [n \in 0 .. k |-> IF n = k THEN Step(g, k) ELSE g[n]]
  <2>6. \A n \in 0 .. k - 1 : h[n] = g[n]
    BY <2>2, <2>3
  <2>7. \A n \in 0 .. k : Step(h, n) = Step(g, n)
    BY <1>2, <1>3, <2>2, <2>6
  <2>8. h = [n \in 0 .. k |-> Step(h, n)]
    <3>1. \A n \in 0 .. k : h[n] = Step(g, n)
      BY <2>2, <2>5
    <3> QED  BY <2>7, <3>1
  <2> QED  BY <2>2, <2>8
<1>7. \E g : g = [n \in 0 .. total |-> Step(g, n)]
  BY <1>4, <1>6
<1>8. \E g : g = [n \in 0 .. total |-> Step(g, n)] /\ Edited(ks) = g[total]
  BY <1>1, <1>7
<1> QED  BY <1>5, <1>8 DEF total

\* No keys leave an empty line.
LEMMA EditedNothing == Edited(<<>>) = <<>>
<1>1. <<>> \in Seq({}) /\ Len(<<>>) = 0
  BY EmptySeq
<1>2. PICK text : Lines(<<>>, text) /\ Edited(<<>>) = text[0]
  BY <1>1, LinesExist
<1> QED  BY <1>1, <1>2 DEF Lines

\* One key more edits the line once more.
LEMMA EditedMore ==
  ASSUME NEW T, NEW ks \in Seq(T), NEW k \in T
  PROVE  Edited(Append(ks, k)) = EditLine(Edited(ks), k)
<1>1. PICK more \in Seq(T), l \in Nat :
        /\ more = Append(ks, k) /\ l = Len(ks) /\ Len(more) = l + 1
        /\ \A n \in 1 .. l : more[n] = ks[n]
        /\ more[l + 1] = k
  <2>1. Len(ks) \in Nat
    BY LenProperties
  <2>2. /\ Append(ks, k) \in Seq(T) /\ Len(Append(ks, k)) = Len(ks) + 1
        /\ \A n \in 1 .. Len(ks) : Append(ks, k)[n] = ks[n]
        /\ Append(ks, k)[Len(ks) + 1] = k
    BY AppendProperties
  <2> QED  BY <2>1, <2>2
<1>2. PICK text : Lines(ks, text) /\ Edited(ks) = text[l]
  BY <1>1, LinesExist
<1>3. PICK longer : Lines(more, longer) /\ Edited(more) = longer[l + 1]
  BY <1>1, LinesExist
<1>4. \A n \in 0 .. l : text[n] = IF n = 0 THEN <<>> ELSE EditLine(text[n - 1], ks[n])
  BY <1>1, <1>2 DEF Lines
<1>5. \A n \in 0 .. l + 1 : longer[n] = IF n = 0 THEN <<>> ELSE EditLine(longer[n - 1], more[n])
  BY <1>1, <1>3 DEF Lines
<1> DEFINE wrong == {n \in 0 .. l : longer[n] # text[n]}
<1>6. wrong = {}
  <2> SUFFICES ASSUME wrong # {} PROVE FALSE
    OBVIOUS
  <2>1. wrong \in SUBSET Nat
    OBVIOUS
  <2>2. PICK n \in wrong : \A y \in wrong : n <= y
    BY <2>1, LeastElement
  <2>3. n \in 0 .. l /\ n \in 0 .. l + 1 /\ longer[n] # text[n]
    BY <1>1, <2>2
  <2>4. n # 0
    BY <1>4, <1>5, <2>3
  <2>5. n - 1 \in 0 .. l /\ n - 1 \notin wrong /\ n \in 1 .. l
    BY <1>1, <2>2, <2>3, <2>4
  <2>6. longer[n - 1] = text[n - 1] /\ more[n] = ks[n]
    BY <1>1, <2>5
  <2> QED  BY <1>4, <1>5, <2>3, <2>4, <2>6
<1>7. longer[l] = text[l]
  BY <1>1, <1>6
<1>8. longer[l + 1] = EditLine(longer[l], more[l + 1])
  BY <1>1, <1>5
<1> QED  BY <1>1, <1>2, <1>3, <1>7, <1>8

-----------------------------------------------------------------------------
(* The line. *)

\* What the user types into a line.
Typed == Letter \cup {Blank, Backspace}

\* The first n characters of the buffer are a text.
Holds(buffer, n, text) ==
  text \in Seq(Typed) /\ Len(text) = n /\ \A k \in 1 .. n : buffer[k - 1] = text[k]

\* A text with its NUL.
Ends(buffer, text) ==
  \E n \in 0 .. LineSize - 1 : Holds(buffer, n, text) /\ buffer[n] = NUL

\* Where the line is handed on and parsed.
Handed == {"entered", "first", "next", "system"}

\* The inductive invariant: while readline waits for a key, its index stays in
\* front of the last place of the buffer, which then holds what the keys leave;
\* when a key is to be echoed, what the keys before it leave; and when the line
\* is handed on, the text has its NUL.
LineInv ==
  /\ i \in 0 .. LineSize - 1 /\ out \in [0 .. LineSize - 1 -> Character]
  /\ key \in Key /\ keys \in Seq(Typed)
  /\ pc = "reading" => i < LineSize - 1 /\ Holds(out, i, Edited(keys))
  /\ pc = "echo" => /\ i < LineSize - 1 /\ key \in Typed
                    /\ \E before \in Seq(Typed) : /\ keys = Append(before, key)
                                               /\ Holds(out, i, Edited(before))
  /\ pc \in Handed => Ends(out, Edited(keys))

\* What the bytes are that the keys, the line and its end are made of.
LEMMA Characters ==
  /\ LineSize \in Nat \ {0} /\ NUL \in Character /\ NUL \notin Typed
  /\ Typed \subseteq Character /\ Typed \subseteq Key
BY ShellAssumption DEF Character, Key, Typed, NUL, Blank, Backspace

\* A text that ends with a NUL is what the buffer contains.
LEMMA ContentsAre ==
  ASSUME NEW buffer, NEW n \in 0 .. LineSize - 1, NEW text, DOMAIN buffer = 0 .. LineSize - 1,
         Holds(buffer, n, text), buffer[n] = NUL
  PROVE  Contents(buffer) = text
<1>1. /\ text \in Seq(Typed) /\ Len(text) = n /\ n \in Nat
      /\ \A k \in 1 .. n : buffer[k - 1] = text[k] /\ text[k] \in Typed
  BY ElementOfSeq, Characters DEF Holds
<1> DEFINE ends == {k \in DOMAIN buffer : k >= 0 /\ buffer[k] \in {NUL}}
<1>2. n \in ends
  BY Characters
<1>3. \A k \in ends : n <= k
  <2> SUFFICES ASSUME NEW k \in ends, k < n PROVE FALSE
    BY Characters
  <2>1. k + 1 \in 1 .. n /\ (k + 1) - 1 = k
    BY Characters
  <2>2. buffer[k] \in Typed
    BY <1>1, <2>1
  <2> QED  BY <2>2, Characters
<1>4. Min(ends) = n
  <2>1. \A k \in ends : k \in Int
    BY Characters
  <2> HIDE DEF ends
  <2>2. \A x \in ends : (\A y \in ends : x <= y) => x = n
    BY <1>2, <1>3, <2>1
  <2> QED  BY <1>2, <1>3, <2>2 DEF Min
<1>5. FirstFrom(buffer, 0, {NUL}) = n
  BY <1>4 DEF FirstFrom
<1>6. Contents(buffer) = [k \in 1 .. n |-> buffer[k - 1]]
  <2>1. \A k \in 1 .. n : 0 + k - 1 = k - 1
    OBVIOUS
  <2>2. n - 0 = n
    OBVIOUS
  <2> QED  BY <1>5, <2>1, <2>2 DEF Contents, Between
<1>7. text = [k \in 1 .. n |-> text[k]]
  BY <1>1, LenProperties
<1> QED  BY <1>1, <1>6, <1>7

\* One key more in the buffer.
LEMMA EditHolds ==
  ASSUME NEW buffer \in [0 .. LineSize - 1 -> Character], NEW n \in Nat, n < LineSize - 1,
         NEW text, Holds(buffer, n, text), NEW k \in Typed
  PROVE  LET edited == Edit(buffer, n, k)
         IN  /\ edited.out \in [0 .. LineSize - 1 -> Character] /\ edited.i \in 0 .. LineSize - 1
             /\ Holds(edited.out, edited.i, EditLine(text, k))
<1>1. /\ text \in Seq(Typed) /\ Len(text) = n
      /\ \A l \in 1 .. n : buffer[l - 1] = text[l]
  BY DEF Holds
<1>2. PICK edited : edited = Edit(buffer, n, k)
  OBVIOUS
<1>3. text # <<>> <=> n >= 1
  BY <1>1, EmptySeq
<1>4. CASE k = Backspace /\ n >= 1
  <2>1. edited.out = [buffer EXCEPT ![n - 1] = NUL] /\ edited.i = n - 1
    BY <1>2, <1>4 DEF Edit
  <2>2. EditLine(text, k) = SubSeq(text, 1, n - 1)
    BY <1>1, <1>3, <1>4 DEF EditLine, Front
  <2>3. /\ SubSeq(text, 1, n - 1) \in Seq(Typed) /\ Len(SubSeq(text, 1, n - 1)) = n - 1
        /\ \A l \in 1 .. n - 1 : SubSeq(text, 1, n - 1)[l] = text[l]
    BY <1>1, <1>4
  <2>4. edited.out \in [0 .. LineSize - 1 -> Character] /\ edited.i \in 0 .. LineSize - 1
    BY <1>4, <2>1, Characters
  <2>5. \A l \in 1 .. n - 1 : edited.out[l - 1] = text[l]
    <3> TAKE l \in 1 .. n - 1
    <3>1. l \in 1 .. n /\ l - 1 \in 0 .. LineSize - 1 /\ l - 1 # n - 1
      BY Characters
    <3>2. edited.out[l - 1] = buffer[l - 1]
      BY <2>1, <3>1
    <3> QED  BY <1>1, <3>1, <3>2
  <2> QED  BY <1>2, <2>1, <2>2, <2>3, <2>4, <2>5 DEF Holds
<1>5. CASE ~ (k = Backspace /\ n >= 1)
  <2>1. edited.out = [buffer EXCEPT ![n] = k] /\ edited.i = n + 1
    BY <1>2, <1>5 DEF Edit
  <2>2. EditLine(text, k) = Append(text, k)
    BY <1>3, <1>5 DEF EditLine
  <2>3. /\ Append(text, k) \in Seq(Typed) /\ Len(Append(text, k)) = n + 1
        /\ \A l \in 1 .. n : Append(text, k)[l] = text[l]
        /\ Append(text, k)[n + 1] = k
    BY <1>1, AppendProperties
  <2>4. edited.out \in [0 .. LineSize - 1 -> Character] /\ edited.i \in 0 .. LineSize - 1
    BY <2>1, Characters
  <2>5. \A l \in 1 .. n + 1 : edited.out[l - 1] = Append(text, k)[l]
    <3> TAKE l \in 1 .. n + 1
    <3>1. CASE l = n + 1
      <4>1. l - 1 = n /\ n \in 0 .. LineSize - 1
        BY <3>1, Characters
      <4> QED  BY <2>1, <2>3, <3>1, <4>1
    <3>2. CASE l # n + 1
      <4>1. l \in 1 .. n /\ l - 1 \in 0 .. LineSize - 1 /\ l - 1 # n
        BY <3>2, Characters
      <4>2. edited.out[l - 1] = buffer[l - 1]
        BY <2>1, <4>1
      <4> QED  BY <1>1, <2>3, <4>1, <4>2
    <3> QED  BY <3>1, <3>2
  <2> QED  BY <1>2, <2>1, <2>2, <2>3, <2>4, <2>5 DEF Holds
<1> QED  BY <1>4, <1>5

\* An empty buffer.
LEMMA NothingHeld ==
  ASSUME NEW buffer
  PROVE  Holds(buffer, 0, Edited(<<>>))
<1>1. <<>> \in Seq(Typed) /\ Len(<<>>) = 0
  BY EmptySeq
<1>2. Holds(buffer, 0, <<>>)
  BY <1>1 DEF Holds
<1> QED  BY <1>2, EditedNothing

-----------------------------------------------------------------------------
(* The steps. *)

\* No line is being read in the beginning.
LEMMA LineStart == Init => LineInv
<1> SUFFICES ASSUME Init PROVE LineInv
  OBVIOUS
<1>1. /\ i = 0 /\ out = [k \in 0 .. LineSize - 1 |-> NUL] /\ key = Enter /\ keys = <<>>
      /\ pc = "prompt"
  BY DEF Init
<1>2. keys \in Seq(Typed)
  BY <1>1, EmptySeq
<1> QED  BY <1>1, <1>2, Characters DEF LineInv, Key

\* A new line is empty.
LEMMA PromptStep == LineInv /\ Prompt => LineInv'
<1> SUFFICES ASSUME LineInv, Prompt PROVE LineInv'
  OBVIOUS
<1>1. /\ i' = 0 /\ out' = [k \in 0 .. LineSize - 1 |-> NUL] /\ key' = key /\ keys' = <<>>
      /\ pc' = IF Full(0) THEN "entered" ELSE "reading"
  BY DEF Prompt
<1>2. keys' \in Seq(Typed) /\ out' \in [0 .. LineSize - 1 -> Character] /\ key' \in Key
      /\ i' \in 0 .. LineSize - 1
  BY <1>1, EmptySeq, Characters DEF LineInv
<1>3. Holds(out', 0, Edited(keys'))
  BY <1>1, NothingHeld
<1>4. Ends(out', Edited(keys'))
  <2>1. 0 \in 0 .. LineSize - 1 /\ out'[0] = NUL
    BY <1>1, Characters
  <2> QED  BY <1>3, <2>1 DEF Ends
<1>5. pc' = "reading" => 0 < LineSize - 1
  BY <1>1, Characters DEF Full
<1> QED  BY <1>1, <1>2, <1>3, <1>4, <1>5 DEF LineInv, Handed

\* A key is handled as EditLine says, or ends the line.
LEMMA GetKeyStep == LineInv /\ GetKey => LineInv'
<1> SUFFICES ASSUME LineInv, GetKey PROVE LineInv'
  OBVIOUS
<1>1. /\ i \in 0 .. LineSize - 1 /\ out \in [0 .. LineSize - 1 -> Character]
      /\ keys \in Seq(Typed) /\ i < LineSize - 1 /\ Holds(out, i, Edited(keys)) /\ i' = i
  BY DEF LineInv, GetKey
<1>2. PICK k \in Key :
        /\ key' = k
        /\ IF k = Enter
           THEN out' = [out EXCEPT ![i] = NUL] /\ pc' = "entered" /\ keys' = keys
           ELSE out' = out /\ pc' = "echo" /\ keys' = Append(keys, k)
  BY DEF GetKey
<1>3. CASE k = Enter
  <2>1. /\ out' = [out EXCEPT ![i] = NUL] /\ pc' = "entered" /\ keys' = keys
        /\ out' \in [0 .. LineSize - 1 -> Character]
    BY <1>1, <1>2, <1>3, Characters
  <2>2. Holds(out', i, Edited(keys)) /\ out'[i] = NUL
    <3>1. \A l \in 1 .. i : out'[l - 1] = out[l - 1]
      <4> TAKE l \in 1 .. i
      <4>1. l - 1 \in 0 .. LineSize - 1 /\ l - 1 # i
        BY <1>1, Characters
      <4> QED  BY <1>1, <2>1, <4>1
    <3> QED  BY <1>1, <2>1, <3>1 DEF Holds
  <2>3. Ends(out', Edited(keys'))
    BY <1>1, <2>1, <2>2 DEF Ends
  <2> QED  BY <1>1, <1>2, <2>1, <2>3 DEF LineInv
<1>4. CASE k # Enter
  <2>1. k \in Typed
    BY <1>4 DEF Key, Typed
  <2>2. /\ out' = out /\ pc' = "echo" /\ keys' = Append(keys, k) /\ key' = k
    BY <1>2, <1>4
  <2>3. keys' \in Seq(Typed)
    BY <1>1, <2>1, <2>2, AppendProperties
  <2> QED  BY <1>1, <1>2, <2>1, <2>2, <2>3 DEF LineInv, Handed
<1> QED  BY <1>3, <1>4

\* A letter is put behind the line if it still fits.
LEMMA EchoStep == LineInv /\ Echo => LineInv'
<1> SUFFICES ASSUME LineInv, Echo PROVE LineInv'
  OBVIOUS
<1>1. /\ i \in 0 .. LineSize - 1 /\ out \in [0 .. LineSize - 1 -> Character]
      /\ i \in Nat /\ i < LineSize - 1 /\ key \in Typed /\ key \in Key /\ keys \in Seq(Typed)
  BY Characters DEF LineInv, Echo
<1>2. PICK before \in Seq(Typed) : keys = Append(before, key) /\ Holds(out, i, Edited(before))
  BY DEF LineInv, Echo
<1>3. PICK edited : edited = Edit(out, i, key)
  OBVIOUS
<1>4. Edited(keys) = EditLine(Edited(before), key)
  BY <1>1, <1>2, EditedMore
<1>5. /\ edited.out \in [0 .. LineSize - 1 -> Character] /\ edited.i \in 0 .. LineSize - 1
      /\ Holds(edited.out, edited.i, Edited(keys))
  BY <1>1, <1>2, <1>3, <1>4, EditHolds
<1>6. /\ i' = edited.i /\ key' = key /\ keys' = keys
      /\ out' = IF Full(edited.i) THEN [edited.out EXCEPT ![edited.i] = NUL] ELSE edited.out
      /\ pc' = IF Full(edited.i) THEN "entered" ELSE "reading"
  BY <1>3 DEF Echo
<1>7. CASE Full(edited.i)
  <2>1. /\ out' = [edited.out EXCEPT ![edited.i] = NUL] /\ pc' = "entered"
        /\ out' \in [0 .. LineSize - 1 -> Character]
    BY <1>5, <1>6, <1>7, Characters
  <2>2. Holds(out', edited.i, Edited(keys)) /\ out'[edited.i] = NUL
    <3>1. PICK n \in 0 .. LineSize - 1 : n = edited.i
      BY <1>5
    <3>2. \A l \in 1 .. n : out'[l - 1] = edited.out[l - 1]
      <4> TAKE l \in 1 .. n
      <4>1. l - 1 \in 0 .. LineSize - 1 /\ l - 1 # n
        BY <3>1, Characters
      <4> QED  BY <1>5, <2>1, <3>1, <4>1
    <3> QED  BY <1>5, <2>1, <3>1, <3>2 DEF Holds
  <2>3. Ends(out', Edited(keys'))
    BY <1>5, <1>6, <2>2 DEF Ends
  <2> QED  BY <1>1, <1>5, <1>6, <2>1, <2>3 DEF LineInv
<1>8. CASE ~ Full(edited.i)
  <2>1. out' = edited.out /\ pc' = "reading"
    BY <1>6, <1>8
  <2>2. edited.i < LineSize - 1
    BY <1>5, <1>8, Characters DEF Full
  <2> QED  BY <1>1, <1>5, <1>6, <2>1, <2>2 DEF LineInv, Handed
<1> QED  BY <1>7, <1>8

\* The other steps leave the line alone.
LEMMA OtherSteps ==
  LineInv /\ (EndOfLine \/ SystemRun \/ NextArgument \/ System \/ OtherPrints \/ UNCHANGED vars)
    => LineInv'
<1> SUFFICES ASSUME LineInv,
                    EndOfLine \/ SystemRun \/ NextArgument \/ System \/ OtherPrints
                      \/ UNCHANGED vars
             PROVE  LineInv'
  OBVIOUS
<1>1. UNCHANGED <<i, out, key, keys>>
  BY DEF EndOfLine, SystemRun, NextArgument, System, OtherPrints, vars, line
<1>2. /\ pc' = pc \/ pc' \notin {"reading", "echo"}
      /\ pc' \in Handed => pc \in Handed
  BY DEF Handed, EndOfLine, SystemRun, NextArgument, System, OtherPrints, vars
<1> QED  BY <1>1, <1>2 DEF LineInv

\* Every step keeps the invariant of the line.
LEMMA LineStays == LineInv /\ [Next]_vars => LineInv'
BY PromptStep, GetKeyStep, EchoStep, OtherSteps DEF Next

\* It holds always.
LEMMA LineInvariant == Spec => []LineInv
BY LineStart, LineStays, PTL DEF Spec

\* Whatever is typed and taken back, also at the edges of the buffer and while
\* another program prints, the line that readline hands on is the one that the
\* keys leave.
THEOREM LineCorrect == Spec => []LineIsEdited
<1>1. LineInv => LineIsEdited
  <2> SUFFICES ASSUME LineInv, pc = "entered" PROVE Contents(out) = Edited(keys)
    BY DEF LineIsEdited
  <2>1. out \in [0 .. LineSize - 1 -> Character] /\ Ends(out, Edited(keys))
    BY DEF LineInv, Handed
  <2> QED  BY <2>1, ContentsAre DEF Ends
<1> QED  BY <1>1, LineInvariant, PTL

-----------------------------------------------------------------------------
(* The arguments: the words of a line, from left to right. *)

\* The words of each part of a line from its start.
Parsed(text, words) ==
  words = [n \in 0 .. Len(text) |-> IF n = 0 THEN <<>> ELSE MoreWords(words[n - 1], text, n)]

\* There are such words, for any line.
LEMMA WordsExist ==
  ASSUME NEW T, NEW text \in Seq(T)
  PROVE  \E words : Parsed(text, words) /\ Words(text) = words[Len(text)]
<1> DEFINE total == Len(text)
           Step(g, n) == IF n = 0 THEN <<>> ELSE MoreWords(g[n - 1], text, n)
           bad == {k \in Nat : ~ \E g : g = [n \in 0 .. k |-> Step(g, n)]}
<1>1. Words(text) = (CHOOSE g : g = [n \in 0 .. total |-> Step(g, n)])[total]
  BY DEF Words
<1>2. \A g, h, n : n # 0 /\ g[n - 1] = h[n - 1] => Step(g, n) = Step(h, n)
  OBVIOUS
<1>3. \A g : Step(g, 0) = <<>>
  OBVIOUS
<1>4. total \in Nat
  BY LenProperties
<1>5. \A g : g = [n \in 0 .. total |-> Step(g, n)] => Parsed(text, g)
  BY DEF Parsed
<1> HIDE DEF Step, total
<1>6. bad = {}
  <2> SUFFICES ASSUME bad # {} PROVE FALSE
    OBVIOUS
  <2>1. PICK k \in bad : \A y \in bad : k <= y
    BY LeastElement
  <2>2. k \in Nat /\ ~ \E g : g = [n \in 0 .. k |-> Step(g, n)]
    BY <2>1
  <2>3. k # 0
    <3> SUFFICES ASSUME k = 0 PROVE FALSE
      OBVIOUS
    <3> DEFINE g == [n \in 0 .. 0 |-> <<>>]
    <3>1. g = [n \in 0 .. 0 |-> Step(g, n)]
      BY <1>3
    <3> QED  BY <2>2, <3>1
  <2>4. k - 1 \in Nat /\ k - 1 \notin bad
    <3>1. k - 1 \in Nat /\ ~ (k <= k - 1)
      BY <2>2, <2>3
    <3> QED  BY <2>1, <3>1
  <2>5. PICK g : g = [n \in 0 .. k - 1 |-> Step(g, n)]
    BY <2>4
  <2> DEFINE h == [n \in 0 .. k |-> IF n = k THEN Step(g, k) ELSE g[n]]
  <2>6. \A n \in 0 .. k - 1 : h[n] = g[n]
    BY <2>2, <2>3
  <2>7. \A n \in 0 .. k : Step(h, n) = Step(g, n)
    BY <1>2, <1>3, <2>2, <2>6
  <2>8. h = [n \in 0 .. k |-> Step(h, n)]
    <3>1. \A n \in 0 .. k : h[n] = Step(g, n)
      BY <2>2, <2>5
    <3> QED  BY <2>7, <3>1
  <2> QED  BY <2>2, <2>8
<1>7. \E g : g = [n \in 0 .. total |-> Step(g, n)]
  BY <1>4, <1>6
<1>8. \E g : g = [n \in 0 .. total |-> Step(g, n)] /\ Words(text) = g[total]
  BY <1>1, <1>7
<1> QED  BY <1>5, <1>8 DEF total

\* The words after one character more.
LEMMA WordsStep ==
  ASSUME NEW T, NEW text \in Seq(T), NEW words, Parsed(text, words)
  PROVE  /\ words[0] = <<>>
         /\ \A n \in 1 .. Len(text) : words[n] = MoreWords(words[n - 1], text, n)
<1>1. Len(text) \in Nat
  BY LenProperties
<1>2. \A n \in 0 .. Len(text) :
        words[n] = IF n = 0 THEN <<>> ELSE MoreWords(words[n - 1], text, n)
  BY DEF Parsed
<1> QED  BY <1>1, <1>2

\* The words are texts, and where a word has begun there is one.
LEMMA WordsType ==
  ASSUME NEW T, NEW text \in Seq(T), NEW words, Parsed(text, words)
  PROVE  \A n \in 0 .. Len(text) :
           /\ words[n] \in Seq(Seq(T))
           /\ n > 0 /\ text[n] # Delimiter => words[n] # <<>>
<1> DEFINE wrong == {n \in 0 .. Len(text) :
                       ~ (/\ words[n] \in Seq(Seq(T))
                          /\ n > 0 /\ text[n] # Delimiter => words[n] # <<>>)}
<1>1. Len(text) \in Nat
  BY LenProperties
<1> SUFFICES ASSUME wrong # {} PROVE FALSE
  OBVIOUS
<1>2. wrong \in SUBSET Nat
  BY <1>1
<1>3. PICK n \in wrong : \A y \in wrong : n <= y
  BY <1>2, LeastElement
<1>4. n \in 0 .. Len(text) /\ n \in Nat
  BY <1>1, <1>3
<1>5. n # 0
  <2>1. words[0] \in Seq(Seq(T))
    BY WordsStep, EmptySeq
  <2> QED  BY <1>3, <2>1
<1>6. n \in 1 .. Len(text) /\ n - 1 \in 0 .. Len(text) /\ n - 1 \notin wrong
  BY <1>1, <1>3, <1>4, <1>5
<1>7. PICK before \in Seq(Seq(T)) :
        /\ before = words[n - 1]
        /\ n - 1 > 0 /\ text[n - 1] # Delimiter => before # <<>>
  BY <1>6
<1>8. words[n] = MoreWords(before, text, n) /\ text[n] \in T
  BY <1>6, <1>7, WordsStep, ElementOfSeq
<1>9. CASE text[n] = Delimiter
  BY <1>3, <1>7, <1>8, <1>9 DEF MoreWords
<1>10. CASE text[n] # Delimiter /\ n > 1 /\ text[n - 1] # Delimiter
  <2>1. before # <<>> /\ Len(before) \in 1 .. Len(before)
    BY <1>6, <1>7, <1>10, EmptySeq, LenProperties
  <2>2. words[n] = [before EXCEPT ![Len(before)] = Append(@, text[n])]
    BY <1>8, <1>10 DEF MoreWords
  <2>3. before[Len(before)] \in Seq(T)
    BY <1>7, <2>1, ElementOfSeq
  <2>4. Append(before[Len(before)], text[n]) \in Seq(T)
    BY <1>8, <2>3, AppendProperties
  <2>5. words[n] \in Seq(Seq(T)) /\ Len(words[n]) = Len(before)
    BY <1>7, <2>1, <2>2, <2>4, ExceptSeq
  <2> QED  BY <1>3, <2>1, <2>5, EmptySeq
<1>11. CASE text[n] # Delimiter /\ ~ (n > 1 /\ text[n - 1] # Delimiter)
  <2>1. words[n] = Append(before, <<text[n]>>)
    BY <1>8, <1>11 DEF MoreWords
  <2>2. <<text[n]>> \in Seq(T)
    BY <1>8
  <2>3. /\ words[n] \in Seq(Seq(T)) /\ Len(words[n]) = Len(before) + 1
        /\ Len(before) \in Nat
    BY <1>7, <2>1, <2>2, AppendProperties, LenProperties
  <2>4. words[n] # <<>>
    BY <2>3, EmptySeq
  <2> QED  BY <1>3, <2>3, <2>4
<1> QED  BY <1>9, <1>10, <1>11

\* Delimiters add no word.
LEMMA WordsSkip ==
  ASSUME NEW T, NEW text \in Seq(T), NEW words, Parsed(text, words),
         NEW a \in 0 .. Len(text), NEW b \in a .. Len(text),
         \A k \in a + 1 .. b : text[k] = Delimiter
  PROVE  words[b] = words[a]
<1> DEFINE wrong == {n \in a .. b : words[n] # words[a]}
<1>1. Len(text) \in Nat /\ a \in Nat /\ b \in Nat
  BY LenProperties
<1> SUFFICES ASSUME wrong # {} PROVE FALSE
  BY <1>1
<1>2. wrong \in SUBSET Nat
  BY <1>1
<1>3. PICK n \in wrong : \A y \in wrong : n <= y
  BY <1>2, LeastElement
<1>4. n \in a + 1 .. b /\ n \in 1 .. Len(text) /\ n - 1 \in a .. b /\ n - 1 \notin wrong
  BY <1>1, <1>3
<1>5. words[n] = MoreWords(words[n - 1], text, n) /\ text[n] = Delimiter
  BY <1>4, WordsStep
<1>6. words[n] = words[n - 1]
  BY <1>5 DEF MoreWords
<1> QED  BY <1>3, <1>4, <1>6

\* A place where no word is under way.
Border(text, q) == q = 0 \/ text[q] = Delimiter

\* A sequence with another last element.
WithLast(s, v) == [s EXCEPT ![Len(s)] = v]

\* It differs from the sequence in its last element only.
LEMMA WithLastIs ==
  ASSUME NEW S, NEW s \in Seq(S), NEW u \in S, NEW v \in S
  PROVE  WithLast(Append(s, u), v) = Append(s, v)
<1> DEFINE l == Len(s)
           new == Append(s, u)
           e == [new EXCEPT ![l + 1] = v]
<1>1. l \in Nat
  BY LenProperties
<1>2. /\ new \in Seq(S) /\ Len(new) = l + 1
      /\ \A k \in 1 .. l : new[k] = s[k]
  BY AppendProperties
<1>3. /\ Append(s, v) \in Seq(S) /\ Len(Append(s, v)) = l + 1
      /\ \A k \in 1 .. l : Append(s, v)[k] = s[k]
      /\ Append(s, v)[l + 1] = v
  BY AppendProperties
<1>4. l + 1 \in 1 .. Len(new)
  BY <1>1, <1>2
<1>5. WithLast(new, v) = e
  BY <1>2 DEF WithLast
<1> HIDE DEF new
<1>6. /\ e \in Seq(S) /\ Len(e) = Len(new)
      /\ \A k \in 1 .. Len(new) : e[k] = IF k = l + 1 THEN v ELSE new[k]
  BY <1>2, <1>4, ExceptSeq
<1> HIDE DEF e, l
<1>7. \A k \in 1 .. l + 1 : e[k] = Append(s, v)[k]
  BY <1>1, <1>2, <1>3, <1>6
<1>8. e = Append(s, v)
  BY <1>2, <1>3, <1>6, <1>7, SeqEqual
<1> QED  BY <1>5, <1>8 DEF new

\* A part of one element.
LEMMA OneOf ==
  ASSUME NEW S, NEW s \in Seq(S), NEW n \in 1 .. Len(s)
  PROVE  SubSeq(s, n, n) = <<s[n]>>
<1>1. n \in Int /\ s[n] \in S /\ \A k \in n .. n : s[k] \in S
  BY LenProperties, ElementOfSeq
<1>2. /\ SubSeq(s, n, n) \in Seq(S)
      /\ Len(SubSeq(s, n, n)) = 1
      /\ SubSeq(s, n, n)[1] = s[n]
  <2>1. /\ SubSeq(s, n, n) \in Seq(S)
        /\ Len(SubSeq(s, n, n)) = IF n <= n THEN n - n + 1 ELSE 0
        /\ \A k \in 1 .. n - n + 1 : SubSeq(s, n, n)[k] = s[n + k - 1]
    BY <1>1, SubSeqProperties
  <2>2. 1 \in 1 .. n - n + 1 /\ n + 1 - 1 = n /\ n - n + 1 = 1 /\ n <= n
    BY <1>1
  <2> QED  BY <2>1, <2>2
<1>3. <<s[n]>> \in Seq(S) /\ Len(<<s[n]>>) = 1 /\ <<s[n]>>[1] = s[n]
  BY <1>1
<1>4. \A k \in 1 .. 1 : SubSeq(s, n, n)[k] = <<s[n]>>[k]
  BY <1>2, <1>3
<1> QED  BY <1>2, <1>3, <1>4, SeqEqual

\* The characters up to the next delimiter are one word more.
LEMMA WordsMore ==
  ASSUME NEW T, NEW text \in Seq(T), NEW words, Parsed(text, words),
         NEW a \in 0 .. Len(text), Border(text, a), NEW b \in a + 1 .. Len(text),
         \A k \in a + 1 .. b : text[k] # Delimiter
  PROVE  words[b] = Append(words[a], SubSeq(text, a + 1, b))
<1> DEFINE wrong == {n \in a + 1 .. b : words[n] # Append(words[a], SubSeq(text, a + 1, n))}
<1>1. Len(text) \in Nat /\ a \in Nat /\ b \in Nat
  BY LenProperties
<1> SUFFICES ASSUME wrong # {} PROVE FALSE
  BY <1>1
<1>2. wrong \in SUBSET Nat
  BY <1>1
<1>3. PICK n \in wrong : \A y \in wrong : n <= y
  BY <1>2, LeastElement
<1>4. n \in a + 1 .. b /\ n \in 1 .. Len(text) /\ n \in Nat
  BY <1>1, <1>3
<1>5. words[n] = MoreWords(words[n - 1], text, n) /\ text[n] # Delimiter /\ text[n] \in T
  BY <1>4, WordsStep, ElementOfSeq
<1>6. words[a] \in Seq(Seq(T)) /\ Len(words[a]) \in Nat
  BY WordsType, LenProperties
<1>7. CASE n = a + 1
  <2>1. words[n] = Append(words[a], <<text[n]>>)
    <3>1. PICK e, v, w : e = text[n] /\ v = text[n - 1] /\ w = words[n - 1]
      OBVIOUS
    <3>2. n - 1 = a /\ ~ (n > 1 /\ v # Delimiter)
      BY <1>1, <1>7, <3>1 DEF Border
    <3>3. e # Delimiter
      BY <1>5, <3>1
    <3>4. words[n] = CASE e = Delimiter -> w
                       [] e # Delimiter /\ n > 1 /\ v # Delimiter ->
                            [w EXCEPT ![Len(w)] = Append(w[Len(w)], e)]
                       [] OTHER -> Append(w, <<e>>)
      BY <1>5, <3>1 DEF MoreWords
    <3>5. words[n] = Append(w, <<e>>)
      BY <3>2, <3>3, <3>4
    <3> QED  BY <3>1, <3>2, <3>5
  <2>2. SubSeq(text, a + 1, n) = <<text[n]>>
    BY <1>4, <1>7, OneOf
  <2> QED  BY <1>3, <2>1, <2>2
<1>8. CASE n # a + 1
  <2>1. n - 1 \in a + 1 .. b /\ n - 1 \notin wrong /\ n > 1 /\ n - 1 \in 1 .. Len(text)
    BY <1>1, <1>3, <1>4, <1>8
  <2>2. words[n - 1] = Append(words[a], SubSeq(text, a + 1, n - 1)) /\ text[n - 1] # Delimiter
    BY <2>1
  <2>3. SubSeq(text, a + 1, n - 1) \in Seq(T)
    BY <1>1, <2>1
  <2>4. SubSeq(text, a + 1, n) = Append(SubSeq(text, a + 1, n - 1), text[n])
    BY <1>1, <1>4, <2>1
  <2>5. words[n] = [words[n - 1] EXCEPT ![Len(words[n - 1])] = Append(@, text[n])]
    BY <1>5, <2>1, <2>2 DEF MoreWords
  <2>6. words[n] = Append(words[a], Append(SubSeq(text, a + 1, n - 1), text[n]))
    <3>1. PICK S, s, w, v, before :
            /\ s = words[a] /\ before = words[n - 1] /\ before = Append(s, w)
            /\ w = SubSeq(text, a + 1, n - 1) /\ v = Append(w, text[n])
            /\ s \in Seq(S) /\ w \in S /\ v \in S
      <4>1. Append(SubSeq(text, a + 1, n - 1), text[n]) \in Seq(T)
        BY <1>5, <2>3, AppendProperties
      <4> QED  BY <1>6, <2>2, <2>3, <4>1
    <3>2. before[Len(before)] = w
      BY <3>1, AppendProperties, LenProperties
    <3>3. words[n] = WithLast(before, v)
      BY <2>5, <3>1, <3>2 DEF WithLast
    <3>4. s \in Seq(S) /\ w \in S /\ v \in S
      BY <3>1
    <3>5. WithLast(Append(s, w), v) = Append(s, v)
      BY <3>4, WithLastIs
    <3> QED  BY <3>1, <3>3, <3>5
  <2> QED  BY <1>3, <2>4, <2>6
<1> QED  BY <1>7, <1>8

\* The words up to a border stay the first words of the line.
LEMMA WordsPrefix ==
  ASSUME NEW T, NEW text \in Seq(T), NEW words, Parsed(text, words),
         NEW a \in 0 .. Len(text), Border(text, a)
  PROVE  \A n \in a .. Len(text) :
           /\ Len(words[a]) <= Len(words[n])
           /\ \A k \in 1 .. Len(words[a]) : words[n][k] = words[a][k]
           /\ n > a /\ text[n] # Delimiter => Len(words[a]) < Len(words[n])
<1> DEFINE Good(n) == /\ Len(words[a]) <= Len(words[n])
                      /\ \A k \in 1 .. Len(words[a]) : words[n][k] = words[a][k]
                      /\ n > a /\ text[n] # Delimiter => Len(words[a]) < Len(words[n])
           wrong == {n \in a .. Len(text) : ~ Good(n)}
<1>1. Len(text) \in Nat /\ a \in Nat
  BY LenProperties
<1> SUFFICES ASSUME wrong # {} PROVE FALSE
  OBVIOUS
<1>2. wrong \in SUBSET Nat
  BY <1>1
<1>3. PICK n \in wrong : \A y \in wrong : n <= y
  BY <1>2, LeastElement
<1>4. words[a] \in Seq(Seq(T)) /\ Len(words[a]) \in Nat /\ Good(a)
  BY <1>1, WordsType, LenProperties
<1>5. n \in a + 1 .. Len(text) /\ n - 1 \in a .. Len(text) /\ n \in 1 .. Len(text) /\ n \in Nat
      /\ n - 1 \in 0 .. Len(text)
  BY <1>1, <1>3, <1>4
<1>6. Good(n - 1)
  BY <1>1, <1>3, <1>5
<1>7. PICK before \in Seq(Seq(T)), l \in Nat : before = words[n - 1] /\ l = Len(before)
  BY <1>5, WordsType, LenProperties
<1>8. words[n] = MoreWords(before, text, n) /\ text[n] \in T
  BY <1>5, <1>7, WordsStep, ElementOfSeq
<1>9. CASE text[n] = Delimiter
  <2>1. words[n] = words[n - 1]
    BY <1>7, <1>8, <1>9 DEF MoreWords
  <2> QED  BY <1>3, <1>6, <1>9, <2>1
<1>10. CASE text[n] # Delimiter /\ n > 1 /\ text[n - 1] # Delimiter
  <2>1. n - 1 > a
    BY <1>1, <1>5, <1>10 DEF Border
  <2>2. Len(words[a]) < l
    BY <1>6, <1>7, <1>10, <2>1
  <2>3. words[n] = [before EXCEPT ![l] = Append(@, text[n])]
    BY <1>7, <1>8, <1>10 DEF MoreWords
  <2>4. before[l] \in Seq(T)
    BY <1>4, <1>7, <2>2, ElementOfSeq
  <2>5. /\ Len(words[n]) = l
        /\ \A k \in 1 .. l : k # l => words[n][k] = before[k]
    BY <1>7, <2>3
  <2>6. \A k \in 1 .. Len(words[a]) : words[n][k] = words[a][k]
    <3> TAKE k \in 1 .. Len(words[a])
    <3>1. before[k] = words[a][k]
      BY <1>6, <1>7
    <3>2. k \in 1 .. l /\ k # l
      BY <1>4, <1>7, <2>2
    <3> QED  BY <2>5, <3>1, <3>2
  <2> QED  BY <1>3, <2>2, <2>5, <2>6, <1>4, <1>7
<1>11. CASE text[n] # Delimiter /\ ~ (n > 1 /\ text[n - 1] # Delimiter)
  <2>1. words[n] = Append(before, <<text[n]>>) /\ <<text[n]>> \in Seq(T)
    BY <1>8, <1>11 DEF MoreWords
  <2>2. /\ Len(words[n]) = l + 1
        /\ \A k \in 1 .. l : words[n][k] = before[k]
    BY <1>7, <2>1, AppendProperties
  <2>3. Len(words[a]) <= l /\ \A k \in 1 .. Len(words[a]) : before[k] = words[a][k]
    BY <1>6, <1>7
  <2>4. \A k \in 1 .. Len(words[a]) : words[n][k] = words[a][k]
    BY <1>4, <1>7, <2>2, <2>3
  <2> QED  BY <1>3, <1>4, <1>7, <2>2, <2>3, <2>4
<1> QED  BY <1>9, <1>10, <1>11

-----------------------------------------------------------------------------
(* strtok. *)

\* The least element of a set of numbers.
LEMMA MinIs ==
  ASSUME NEW S \in SUBSET Int, NEW n \in S, \A k \in S : n <= k
  PROVE  Min(S) = n
<1>1. \A x \in S : (\A y \in S : x <= y) => x = n
  OBVIOUS
<1> QED  BY <1>1 DEF Min

\* From q on an array holds the rest of a text, with its NUL.
Rest(mem, text, q) ==
  /\ \A k \in q + 1 .. Len(text) : mem[k - 1] = text[k]
  /\ mem[Len(text)] = NUL

\* The places b and e are the ends of the next word from q on.
NextWord(text, q, b, e) ==
  /\ b \in q .. Len(text) /\ e \in b + 1 .. Len(text)
  /\ \A k \in q + 1 .. b : text[k] = Delimiter
  /\ \A k \in b + 1 .. e : text[k] # Delimiter
  /\ e = Len(text) \/ text[e + 1] = Delimiter

\* strtok goes on at q.
GoesOn(at, given, q) == IF at = NULL THEN given /\ q = 0 ELSE at = q

\* A line is shorter than the array.
LEMMA LineLength ==
  ASSUME NEW text \in Seq(Typed), Len(text) < LineSize
  PROVE  /\ Len(text) \in 0 .. LineSize /\ Len(text) \in Nat
         /\ \A k \in 1 .. Len(text) : text[k] \in Typed /\ text[k] # NUL
BY LenProperties, ElementOfSeq, Characters

\* The first place behind the delimiters.
LEMMA FirstCharacter ==
  ASSUME NEW text \in Seq(Typed), Len(text) < LineSize,
         NEW mem \in [0 .. LineSize -> Character], NEW q \in 0 .. Len(text), Rest(mem, text, q)
  PROVE  LET b == FirstNotFrom(mem, q, {Delimiter})
         IN  /\ b \in q .. Len(text)
             /\ \A k \in q + 1 .. b : text[k] = Delimiter
             /\ b < Len(text) => text[b + 1] # Delimiter /\ mem[b] = text[b + 1] /\ mem[b] # NUL
             /\ b = Len(text) => mem[b] = NUL
<1> DEFINE l == Len(text)
           found == {k \in DOMAIN mem : k >= q /\ mem[k] \notin {Delimiter}}
<1>1. l \in Nat /\ l \in 0 .. LineSize /\ q \in Nat /\ LineSize \in Nat
      /\ \A k \in 1 .. l : text[k] # NUL
  BY LineLength, Characters
<1>2. DOMAIN mem = 0 .. LineSize /\ mem[l] = NUL /\ NUL # Delimiter
      /\ \A k \in q + 1 .. l : mem[k - 1] = text[k]
  BY DEF Rest, NUL, Delimiter
<1>3. found \in SUBSET Nat /\ l \in found /\ q <= l
  BY <1>1, <1>2
<1> HIDE DEF l
<1>4. PICK b \in found : \A y \in found : b <= y
  BY <1>3, LeastElement
<1>5. FirstNotFrom(mem, q, {Delimiter}) = b
  <2>1. found \in SUBSET Int
    BY <1>3
  <2>2. Min(found) = b
    BY <1>4, <2>1, MinIs
  <2> QED  BY <2>2 DEF FirstNotFrom
<1>6. b \in q .. l /\ b \in Nat
  BY <1>1, <1>3, <1>4
<1>7. \A k \in q + 1 .. b : text[k] = Delimiter
  <2> TAKE k \in q + 1 .. b
  <2>1. k - 1 \in 0 .. LineSize /\ k - 1 >= q /\ ~ (b <= k - 1) /\ k \in q + 1 .. l
    BY <1>1, <1>6
  <2>2. mem[k - 1] = Delimiter
    BY <1>2, <1>4, <2>1
  <2> QED  BY <1>2, <2>1, <2>2
<1>8. b < l => text[b + 1] # Delimiter /\ mem[b] = text[b + 1] /\ mem[b] # NUL
  <2> SUFFICES ASSUME b < l PROVE text[b + 1] # Delimiter /\ mem[b] = text[b + 1] /\ mem[b] # NUL
    OBVIOUS
  <2>1. b + 1 \in q + 1 .. l /\ b + 1 \in 1 .. l /\ (b + 1) - 1 = b
    BY <1>1, <1>6
  <2>2. mem[b] = text[b + 1]
    BY <1>2, <2>1
  <2>3. mem[b] # Delimiter
    BY <1>4
  <2> QED  BY <1>1, <2>1, <2>2, <2>3
<1> QED  BY <1>2, <1>5, <1>6, <1>7, <1>8 DEF l

\* The first place behind the word that begins at b.
LEMMA LastCharacter ==
  ASSUME NEW text \in Seq(Typed), Len(text) < LineSize,
         NEW mem \in [0 .. LineSize -> Character], NEW q \in 0 .. Len(text), Rest(mem, text, q),
         NEW b \in q .. Len(text), b < Len(text), text[b + 1] # Delimiter
  PROVE  LET e == FirstFrom(mem, b, {Delimiter, NUL})
         IN  /\ e \in b + 1 .. Len(text)
             /\ \A k \in b + 1 .. e : text[k] # Delimiter
             /\ e < Len(text) => text[e + 1] = Delimiter /\ mem[e] = Delimiter
             /\ e = Len(text) => mem[e] = NUL
<1> DEFINE l == Len(text)
           found == {k \in DOMAIN mem : k >= b /\ mem[k] \in {Delimiter, NUL}}
<1>1. l \in Nat /\ l \in 0 .. LineSize /\ q \in Nat /\ b \in Nat /\ LineSize \in Nat
      /\ \A k \in 1 .. l : text[k] # NUL
  BY LineLength, Characters
<1>2. DOMAIN mem = 0 .. LineSize /\ mem[l] = NUL /\ NUL # Delimiter
      /\ \A k \in q + 1 .. l : mem[k - 1] = text[k]
  BY DEF Rest, NUL, Delimiter
<1>3. found \in SUBSET Nat /\ l \in found /\ q <= b /\ b < l /\ text[b + 1] # Delimiter
  BY <1>1, <1>2
<1> HIDE DEF l
<1>4. PICK e \in found : \A y \in found : e <= y
  BY <1>3, LeastElement
<1>5. FirstFrom(mem, b, {Delimiter, NUL}) = e
  <2>1. found \in SUBSET Int
    BY <1>3
  <2>2. Min(found) = e
    BY <1>4, <2>1, MinIs
  <2> QED  BY <2>2 DEF FirstFrom
<1>6. e \in b .. l /\ e \in Nat /\ mem[e] \in {Delimiter, NUL}
  BY <1>1, <1>3, <1>4
<1>7. e # b
  <2>1. b + 1 \in q + 1 .. l /\ b + 1 \in 1 .. l /\ (b + 1) - 1 = b
    BY <1>1, <1>3
  <2> QED  BY <1>1, <1>2, <1>3, <1>6, <2>1
<1>8. \A k \in b + 1 .. e : text[k] # Delimiter
  <2> TAKE k \in b + 1 .. e
  <2>1. k - 1 \in 0 .. LineSize /\ k - 1 >= b /\ ~ (e <= k - 1) /\ k \in q + 1 .. l
    BY <1>1, <1>3, <1>6
  <2>2. mem[k - 1] # Delimiter
    BY <1>2, <1>4, <2>1
  <2> QED  BY <1>2, <2>1, <2>2
<1>9. e < l => text[e + 1] = Delimiter /\ mem[e] = Delimiter
  <2> SUFFICES ASSUME e < l PROVE text[e + 1] = Delimiter /\ mem[e] = Delimiter
    OBVIOUS
  <2>1. e + 1 \in q + 1 .. l /\ e + 1 \in 1 .. l /\ (e + 1) - 1 = e
    BY <1>1, <1>3, <1>6
  <2>2. mem[e] = text[e + 1]
    BY <1>2, <2>1
  <2> QED  BY <1>1, <1>6, <2>1, <2>2
<1>10. e \in b + 1 .. l
  BY <1>1, <1>6, <1>7
<1> QED  BY <1>2, <1>5, <1>8, <1>9, <1>10 DEF l

\* An array with a NUL more.
Ended(mem, e) == [mem EXCEPT ![e] = NUL]

\* What strtok answers at a place q of the line.
Answers(r, mem, text, q) ==
  \/ /\ r.token = <<>> /\ r.sp = NULL /\ r.mem = mem
     /\ \A k \in q + 1 .. Len(text) : text[k] = Delimiter
  \/ \E b, e : /\ NextWord(text, q, b, e)
               /\ r.token = SubSeq(text, b + 1, e) /\ r.token # <<>>
               /\ r.sp = IF e = Len(text) THEN e ELSE e + 1
               /\ r.mem = Ended(mem, e)

\* strtok at a place q of the line: either there is no word left and its pointer
\* is null again, or it gives the next word and stands behind it.
LEMMA StrtokIs ==
  ASSUME NEW text \in Seq(Typed), Len(text) < LineSize,
         NEW mem \in [0 .. LineSize -> Character], NEW q \in 0 .. Len(text), Rest(mem, text, q),
         NEW at, NEW given \in BOOLEAN, GoesOn(at, given, q)
  PROVE  Answers(Strtok(mem, at, given), mem, text, q)
<1>1. Len(text) \in Nat /\ q \in Nat
  BY LenProperties
<1>2. (IF at = NULL THEN 0 ELSE at) = q /\ ~ (at = NULL /\ ~ given)
  BY DEF GoesOn
<1>3. PICK b : b = FirstNotFrom(mem, q, {Delimiter})
  OBVIOUS
<1>4. /\ b \in q .. Len(text)
      /\ \A k \in q + 1 .. b : text[k] = Delimiter
      /\ b < Len(text) => text[b + 1] # Delimiter /\ mem[b] # NUL
      /\ b = Len(text) => mem[b] = NUL
  BY <1>3, FirstCharacter
<1>5. CASE b = Len(text)
  <2>1. Strtok(mem, at, given) = [mem |-> mem, sp |-> NULL, token |-> <<>>]
    BY <1>2, <1>3, <1>4, <1>5 DEF Strtok
  <2> QED  BY <1>4, <1>5, <2>1 DEF Answers
<1>6. CASE b < Len(text)
  <2>1. PICK e : e = FirstFrom(mem, b, {Delimiter, NUL})
    OBVIOUS
  <2>2. /\ e \in b + 1 .. Len(text)
        /\ \A k \in b + 1 .. e : text[k] # Delimiter
        /\ e < Len(text) => text[e + 1] = Delimiter /\ mem[e] = Delimiter
        /\ e = Len(text) => mem[e] = NUL
    BY <1>4, <1>6, <2>1, LastCharacter
  <2>3. Strtok(mem, at, given)
          = [mem |-> [mem EXCEPT ![e] = NUL],
             sp |-> IF mem[e] = NUL THEN e ELSE e + 1,
             token |-> Between(mem, b, e)]
    BY <1>2, <1>3, <1>4, <1>6, <2>1 DEF Strtok
  <2>4. (IF mem[e] = NUL THEN e ELSE e + 1) = IF e = Len(text) THEN e ELSE e + 1
    <3>1. NUL # Delimiter
      BY DEF NUL, Delimiter
    <3> QED  BY <1>1, <2>2, <3>1
  <2>5. Between(mem, b, e) = SubSeq(text, b + 1, e)
    <3>1. \A k \in 1 .. e - b : mem[b + k - 1] = text[b + k]
      <4> TAKE k \in 1 .. e - b
      <4>1. b + k \in q + 1 .. Len(text) /\ (b + k) - 1 = b + k - 1
        BY <1>1, <1>4, <2>2
      <4> QED  BY <4>1 DEF Rest
    <3>2. SubSeq(text, b + 1, e) = [k \in 1 .. e - b |-> text[b + k]]
      <4>1. e - (b + 1) + 1 = e - b /\ \A k \in 1 .. e - b : (b + 1) + k - 1 = b + k
        BY <1>1, <1>4, <2>2
      <4> QED  BY <1>1, <1>4, <2>2, <4>1
    <3>3. Between(mem, b, e) = [k \in 1 .. e - b |-> text[b + k]]
      BY <3>1 DEF Between
    <3> QED  BY <3>2, <3>3
  <2>6. SubSeq(text, b + 1, e) # <<>>
    <3>1. /\ Len(SubSeq(text, b + 1, e)) = IF b + 1 <= e THEN e - (b + 1) + 1 ELSE 0
      <4>1. b + 1 \in Int /\ e \in Int /\ \A k \in b + 1 .. e : text[k] \in Typed
        BY <1>1, <1>4, <2>2, LineLength
      <4> QED  BY <4>1, SubSeqProperties
    <3>2. Len(SubSeq(text, b + 1, e)) # 0
      BY <1>1, <1>4, <2>2, <3>1
    <3> QED  BY <3>2, EmptySeq
  <2>7. NextWord(text, q, b, e)
    BY <1>1, <1>4, <2>2 DEF NextWord
  <2>8. PICK r : r = Strtok(mem, at, given)
    OBVIOUS
  <2>9. /\ r.token = SubSeq(text, b + 1, e) /\ r.mem = Ended(mem, e)
        /\ r.sp = IF e = Len(text) THEN e ELSE e + 1
    BY <2>3, <2>4, <2>5, <2>8 DEF Ended
  <2> QED  BY <2>6, <2>7, <2>8, <2>9 DEF Answers
<1> QED  BY <1>1, <1>4, <1>5, <1>6

-----------------------------------------------------------------------------
(* The parser. *)

\* Words as arguments hold them.
Shortened(words) == [w \in DOMAIN words |-> Truncated(words[w], ArgumentSize)]

\* The words of the text up to a border q are the list so far, and the array of
\* strtok has the rest.
Reached(mem, list, text, q) ==
  /\ q \in 0 .. Len(text) /\ (q = Len(text) \/ Border(text, q)) /\ Rest(mem, text, q)
  /\ \E words : /\ Parsed(text, words) /\ Words(text) = words[Len(text)]
                /\ list = Shortened(words[q])

\* The inductive invariant of the parser: until an allocation is refused, strtok's
\* pointer is null between two lines, and while a line is parsed it stands at a
\* border that the arguments have reached.
ParseInv ==
  /\ scommand \in [0 .. LineSize -> Character]
  /\ refused \in {"no", "now", "earlier"}
  /\ refused = "now" => pc = "system"
  /\ pc = "system" /\ refused # "earlier" => IsPrefix(args, TypedWords)
  /\ refused = "no" =>
       /\ pc # "next" => sp = NULL
       /\ pc = "first" => Reached(scommand, args, Contents(out), 0)
       /\ pc = "next" => sp # NULL /\ Reached(scommand, args, Contents(out), sp)
       /\ pc = "system" => args = TypedWords

\* The line that is parsed.
LEMMA TextIs ==
  ASSUME LineInv, pc \in Handed
  PROVE  Contents(out) \in Seq(Typed) /\ Len(Contents(out)) < LineSize
<1>1. PICK n, text : n \in 0 .. LineSize - 1 /\ Holds(out, n, text) /\ out[n] = NUL
  BY DEF LineInv, Ends
<1>2. out \in [0 .. LineSize - 1 -> Character]
  BY DEF LineInv
<1>3. Contents(out) = text
  BY <1>1, <1>2, ContentsAre
<1>4. n < LineSize
  BY <1>1, Characters
<1> QED  BY <1>1, <1>3, <1>4 DEF Holds

\* How much strncpy copies, and what is at a place then.
Copied(str, count) == Min({Len(str), count - 1})
\* A byte of dest after strncpy of the first n characters of str.
CopyAt(dest, str, n, k) == IF k < n THEN str[k + 1] ELSE IF k = n THEN NUL ELSE dest[k]

\* A copy is the text, the NUL behind it, and what was there.
LEMMA StrncpyAt ==
  ASSUME NEW dest, NEW str, NEW count
  PROVE  \A k \in DOMAIN dest :
           Strncpy(dest, str, count)[k] = CopyAt(dest, str, Copied(str, count), k)
<1>1. PICK n, copy : n = Copied(str, count) /\ copy = Strncpy(dest, str, count)
  OBVIOUS
<1>2. copy = [k \in DOMAIN dest |-> IF k < n THEN str[k + 1] ELSE IF k = n THEN NUL ELSE dest[k]]
  BY <1>1 DEF Strncpy, Copied
<1>3. \A k \in DOMAIN dest : copy[k] = CopyAt(dest, str, n, k)
  BY <1>2 DEF CopyAt
<1> QED  BY <1>1, <1>3

\* What strncpy leaves is an array as long as before.
LEMMA StrncpyType ==
  ASSUME NEW dest, NEW str, NEW count, NEW S,
         \A k \in DOMAIN dest : Strncpy(dest, str, count)[k] \in S
  PROVE  Strncpy(dest, str, count) \in [DOMAIN dest -> S]
<1>1. PICK n, copy : n = Copied(str, count) /\ copy = Strncpy(dest, str, count)
  OBVIOUS
<1>2. copy = [k \in DOMAIN dest |-> IF k < n THEN str[k + 1] ELSE IF k = n THEN NUL ELSE dest[k]]
  BY <1>1 DEF Strncpy, Copied
<1> QED  BY <1>1, <1>2

\* strncpy copies a line and its NUL.
LEMMA StrncpyIs ==
  ASSUME NEW dest, DOMAIN dest = 0 .. LineSize, \A k \in 0 .. LineSize : dest[k] \in Character,
         NEW text \in Seq(Typed), Len(text) < LineSize
  PROVE  LET copy == Strncpy(dest, text, LineSize + 1)
         IN  copy \in [0 .. LineSize -> Character] /\ Rest(copy, text, 0)
<1>1. PICK l \in Nat : l = Len(text) /\ l \in 0 .. LineSize /\ l < LineSize
  BY LineLength
<1>2. PICK n, copy, count :
        count = LineSize + 1 /\ copy = Strncpy(dest, text, count) /\ n = Copied(text, count)
  OBVIOUS
<1>3. /\ \A k \in DOMAIN dest : copy[k] = CopyAt(dest, text, n, k)
      /\ (\A k \in DOMAIN dest : copy[k] \in Character) => copy \in [DOMAIN dest -> Character]
  <2>1. \A k \in DOMAIN dest :
          Strncpy(dest, text, count)[k] = CopyAt(dest, text, Copied(text, count), k)
    BY StrncpyAt, Zenon
  <2>2. (\A k \in DOMAIN dest : Strncpy(dest, text, count)[k] \in Character)
          => Strncpy(dest, text, count) \in [DOMAIN dest -> Character]
    BY StrncpyType, Zenon
  <2> QED  BY <1>2, <2>1, <2>2, Zenon
<1>4. n = l
  <2>1. {l, LineSize} \in SUBSET Int /\ \A k \in {l, LineSize} : l <= k
    BY <1>1, Characters
  <2>2. count - 1 = LineSize
    BY <1>2, Characters
  <2> QED  BY <1>1, <1>2, <2>1, <2>2, MinIs DEF Copied
<1>5. \A k \in 0 .. LineSize : k < l => text[k + 1] \in Character
  <2> TAKE k \in 0 .. LineSize
  <2> HAVE k < l
  <2>1. k + 1 \in 1 .. Len(text)
    BY <1>1, Characters
  <2> QED  BY <2>1, LineLength, Characters
<1>6. \A k \in 0 .. LineSize :
        copy[k] = IF k < l THEN text[k + 1] ELSE IF k = l THEN NUL ELSE dest[k]
  BY <1>3, <1>4 DEF CopyAt
<1>7. copy \in [0 .. LineSize -> Character]
  <2>1. \A k \in DOMAIN dest : copy[k] \in Character
    BY <1>5, <1>6, Characters
  <2>2. copy \in [DOMAIN dest -> Character]
    BY <1>3, <2>1
  <2> QED  BY <2>2
<1>8. \A k \in 1 .. l : copy[k - 1] = text[k]
  <2> TAKE k \in 1 .. l
  <2>1. k - 1 \in 0 .. LineSize /\ k - 1 < l /\ (k - 1) + 1 = k
    BY <1>1, Characters
  <2> QED  BY <1>6, <2>1
<1>9. copy[l] = NUL
  BY <1>1, <1>6
<1>10. Rest(copy, text, 0)
  BY <1>1, <1>8, <1>9 DEF Rest
<1> QED  BY <1>2, <1>7, <1>10

\* One more word, one more argument.
LEMMA ShortenedMore ==
  ASSUME NEW W \in SUBSET Seq(Typed), NEW words \in Seq(W), NEW w \in W
  PROVE  Shortened(Append(words, w)) = Append(Shortened(words), Truncated(w, ArgumentSize))
<1> DEFINE more == Append(words, w)
           l == Len(words)
           S == {Truncated(v, ArgumentSize) : v \in W}
<1>1. l \in Nat
  BY LenProperties
<1>2. /\ more \in Seq(W) /\ Len(more) = l + 1
      /\ \A k \in 1 .. l : more[k] = words[k]
      /\ more[l + 1] = w
  BY AppendProperties
<1>3. DOMAIN words = 1 .. l /\ DOMAIN more = 1 .. l + 1
  BY <1>2, LenProperties
<1> HIDE DEF more
<1> DEFINE s == Shortened(words)
           t == Shortened(more)
           v == Truncated(w, ArgumentSize)
<1>4. s = [k \in 1 .. l |-> Truncated(words[k], ArgumentSize)]
  BY <1>3 DEF Shortened
<1>5. t = [k \in 1 .. l + 1 |-> Truncated(more[k], ArgumentSize)]
  BY <1>3 DEF Shortened
<1>6. \A k \in 1 .. l : words[k] \in W
  BY ElementOfSeq
<1> HIDE DEF l, s, t
<1>7. s \in Seq(S) /\ Len(s) = l
  <2>1. \A k \in 1 .. l : Truncated(words[k], ArgumentSize) \in S
    BY <1>6
  <2>2. s \in [1 .. l -> S]
    BY <1>4, <2>1
  <2> HIDE DEF S
  <2> QED  BY <1>1, <2>2
<1>8. t \in Seq(S) /\ Len(t) = l + 1
  <2>1. \A k \in 1 .. l + 1 : Truncated(more[k], ArgumentSize) \in S
    <3> TAKE k \in 1 .. l + 1
    <3>1. more[k] \in W
      BY <1>1, <1>2, <1>6
    <3> QED  BY <3>1
  <2> QED  BY <1>1, <1>5, <2>1
<1>9. v \in S
  OBVIOUS
<1> HIDE DEF S, v
<1>10. /\ Append(s, v) \in Seq(S) /\ Len(Append(s, v)) = l + 1
       /\ \A k \in 1 .. l : Append(s, v)[k] = s[k]
       /\ Append(s, v)[l + 1] = v
  BY <1>7, <1>9, AppendProperties
<1>11. \A k \in 1 .. l + 1 : t[k] = Append(s, v)[k]
  <2> TAKE k \in 1 .. l + 1
  <2>1. CASE k = l + 1
    BY <1>1, <1>2, <1>5, <1>10, <2>1 DEF v
  <2>2. CASE k # l + 1
    <3>1. k \in 1 .. l
      BY <1>1, <2>2
    <3> QED  BY <1>2, <1>4, <1>5, <1>10, <3>1
  <2> QED  BY <2>1, <2>2
<1>12. t = Append(s, v)
  BY <1>8, <1>10, <1>11, SeqEqual
<1> QED  BY <1>12 DEF s, t, v, more

\* The arguments are words of the line, wherever the parser stops.
LEMMA ReachedPrefix ==
  ASSUME NEW text \in Seq(Typed), NEW q, NEW mem, NEW list, Reached(mem, list, text, q)
  PROVE  IsPrefix(list, Shortened(Words(text)))
<1>1. PICK words : /\ Parsed(text, words) /\ Words(text) = words[Len(text)]
                   /\ list = Shortened(words[q])
  BY DEF Reached
<1>2. Len(text) \in Nat /\ q \in 0 .. Len(text) /\ (q = Len(text) \/ Border(text, q))
      /\ Len(text) \in q .. Len(text)
  BY LenProperties DEF Reached
<1>3. PICK some, all, m, n :
        /\ some = words[q] /\ all = words[Len(text)] /\ m = Len(some) /\ n = Len(all)
        /\ DOMAIN some = 1 .. m /\ DOMAIN all = 1 .. n /\ m \in Nat /\ n \in Nat
  <2>1. words[q] \in Seq(Seq(Typed)) /\ words[Len(text)] \in Seq(Seq(Typed))
    BY <1>1, <1>2, WordsType
  <2>2. /\ Len(words[q]) \in Nat /\ DOMAIN words[q] = 1 .. Len(words[q])
        /\ Len(words[Len(text)]) \in Nat
        /\ DOMAIN words[Len(text)] = 1 .. Len(words[Len(text)])
    BY <2>1, LenProperties
  <2> QED  BY <2>2
<1>4. m <= n /\ \A k \in 1 .. m : all[k] = some[k]
  BY <1>1, <1>2, <1>3, WordsPrefix
<1>5. list = [k \in 1 .. m |-> Truncated(some[k], ArgumentSize)]
  BY <1>1, <1>3 DEF Shortened
<1>6. Shortened(Words(text)) = [k \in 1 .. n |-> Truncated(all[k], ArgumentSize)]
  BY <1>1, <1>3 DEF Shortened
<1>7. Len(list) = m /\ Len(Shortened(Words(text))) = n
  BY <1>3, <1>5, <1>6
<1>8. SubSeq(list, 1, m) = SubSeq(Shortened(Words(text)), 1, m)
  <2>1. SubSeq(list, 1, m) = [k \in 1 .. m |-> list[k]]
    BY <1>3, <1>5
  <2>2. SubSeq(Shortened(Words(text)), 1, m) = [k \in 1 .. m |-> Shortened(Words(text))[k]]
    BY <1>3, <1>4, <1>6
  <2>3. \A k \in 1 .. m : list[k] = Shortened(Words(text))[k]
    BY <1>3, <1>4, <1>5, <1>6
  <2> QED  BY <2>1, <2>2, <2>3
<1> QED  BY <1>4, <1>7, <1>8 DEF IsPrefix

\* The parser, before its first word.
LEMMA SystemRunStep == LineInv /\ ParseInv /\ SystemRun => ParseInv'
<1> SUFFICES ASSUME LineInv, ParseInv, SystemRun PROVE ParseInv'
  OBVIOUS
<1>1. /\ pc = "entered" /\ pc' = "first" /\ args' = <<>> /\ UNCHANGED <<out, sp, refused>>
      /\ scommand' = Strncpy(scommand, Contents(out), LineSize + 1)
  BY DEF SystemRun, line
<1>2. PICK text \in Seq(Typed), l \in Nat :
        text = Contents(out) /\ l = Len(text) /\ l < LineSize /\ Contents(out)' = text
  BY <1>1, TextIs, LenProperties DEF Handed
<1>3. /\ refused' \in {"no", "now", "earlier"} /\ refused' # "now"
      /\ refused' = "no" => sp' = NULL
  BY <1>1 DEF ParseInv
<1>4. scommand' \in [0 .. LineSize -> Character] /\ Rest(scommand', text, 0)
  <2>1. DOMAIN scommand = 0 .. LineSize /\ \A k \in 0 .. LineSize : scommand[k] \in Character
    BY DEF ParseInv
  <2>2. scommand' = Strncpy(scommand, text, LineSize + 1)
    BY <1>1, <1>2
  <2> QED  BY <1>2, <2>1, <2>2, StrncpyIs
<1>5. Reached(scommand', args', text, 0)
  <2>1. PICK words : Parsed(text, words) /\ Words(text) = words[Len(text)]
    BY WordsExist
  <2>2. words[0] = <<>>
    BY <2>1, WordsStep
  <2>3. Shortened(<<>>) = <<>>
    BY DEF Shortened
  <2>4. 0 \in 0 .. Len(text) /\ Border(text, 0)
    BY <1>2 DEF Border
  <2> QED  BY <1>1, <1>4, <2>1, <2>2, <2>3, <2>4 DEF Reached
<1> QED  BY <1>1, <1>2, <1>3, <1>4, <1>5 DEF ParseInv

\* What a word more does to the arguments and to the place that is reached.
LEMMA ReachedMore ==
  ASSUME NEW text \in Seq(Typed), Len(text) < LineSize, NEW q,
         NEW mem \in [0 .. LineSize -> Character], NEW list, Reached(mem, list, text, q),
         NEW b, NEW e, NextWord(text, q, b, e), NEW at, at = IF e = Len(text) THEN e ELSE e + 1
  PROVE  /\ at # NULL
         /\ Reached(Ended(mem, e), Append(list, Truncated(SubSeq(text, b + 1, e), ArgumentSize)),
                    text, at)
<1> DEFINE cut == Ended(mem, e)
           after == Append(list, Truncated(SubSeq(text, b + 1, e), ArgumentSize))
<1>1. PICK words : /\ Parsed(text, words) /\ Words(text) = words[Len(text)]
                   /\ list = Shortened(words[q])
  BY DEF Reached
<1>2. PICK l \in Nat : l = Len(text) /\ q \in 0 .. l /\ (q = l \/ Border(text, q))
  BY LenProperties DEF Reached
<1>3. /\ b \in q .. l /\ e \in b + 1 .. l
      /\ \A k \in q + 1 .. b : text[k] = Delimiter
      /\ \A k \in b + 1 .. e : text[k] # Delimiter
      /\ e = l \/ text[e + 1] = Delimiter
  BY <1>2 DEF NextWord
<1>4. b \in 0 .. l /\ e \in 0 .. l /\ e \in Nat /\ b \in Nat /\ Border(text, b)
  BY <1>2, <1>3 DEF Border
<1>5. words[b] = words[q]
  BY <1>1, <1>2, <1>3, WordsSkip
<1>6. words[e] = Append(words[b], SubSeq(text, b + 1, e))
  BY <1>1, <1>2, <1>3, <1>4, WordsMore
<1>7. words[b] \in Seq(Seq(Typed)) /\ SubSeq(text, b + 1, e) \in Seq(Typed)
  <2>1. \A k \in b + 1 .. e : text[k] \in Typed
    BY <1>2, <1>3, <1>4, ElementOfSeq
  <2> QED  BY <1>1, <1>2, <1>4, <2>1, WordsType, SubSeqProperties
<1>8. after = Shortened(words[e])
  <2>1. PICK W, first, w : /\ W = Seq(Typed) /\ first = words[b] /\ w = SubSeq(text, b + 1, e)
                          /\ first \in Seq(W) /\ w \in W
    BY <1>7
  <2>2. W \in SUBSET Seq(Typed) /\ first \in Seq(W) /\ w \in W
    BY <2>1
  <2>3. Shortened(Append(first, w)) = Append(Shortened(first), Truncated(w, ArgumentSize))
    BY <2>2, ShortenedMore
  <2> QED  BY <1>1, <1>5, <1>6, <2>1, <2>3
<1>9. at \in Nat /\ at = IF e = l THEN e ELSE e + 1
  BY <1>2, <1>4
<1>10. at \in 0 .. l /\ (at = l \/ Border(text, at)) /\ words[at] = words[e]
  <2>1. CASE e = l
    BY <1>4, <1>9, <2>1
  <2>2. CASE e # l
    <3>1. at = e + 1 /\ e + 1 \in e .. l /\ \A k \in e + 1 .. e + 1 : text[k] = Delimiter
      BY <1>2, <1>3, <1>4, <1>9, <2>2
    <3>2. words[e + 1] = words[e]
      BY <1>1, <1>2, <1>4, <3>1, WordsSkip
    <3> QED  BY <1>2, <1>4, <3>1, <3>2 DEF Border
  <2> QED  BY <2>1, <2>2
<1>11. Rest(cut, text, at)
  <2>1. DOMAIN mem = 0 .. LineSize /\ mem[l] = NUL
        /\ \A k \in q + 1 .. l : mem[k - 1] = text[k]
    BY <1>2 DEF Reached, Rest
  <2>2. cut[l] = NUL
    <3>1. l \in 0 .. LineSize
      BY <1>2, Characters
    <3> QED  BY <2>1, <3>1 DEF cut, Ended
  <2>3. \A k \in at + 1 .. l : cut[k - 1] = text[k]
    <3> TAKE k \in at + 1 .. l
    <3>1. k \in q + 1 .. l /\ k - 1 \in 0 .. LineSize /\ k - 1 # e
      BY <1>2, <1>3, <1>4, <1>9, Characters
    <3> QED  BY <2>1, <3>1 DEF cut, Ended
  <2> QED  BY <1>2, <2>2, <2>3 DEF Rest
<1> HIDE DEF cut, after
<1>12. at # NULL
  BY <1>9 DEF NULL
<1>13. Reached(cut, after, text, at)
  BY <1>1, <1>2, <1>8, <1>10, <1>11 DEF Reached
<1> QED  BY <1>12, <1>13 DEF cut, after

\* One word of the line.
LEMMA NextArgumentStep == LineInv /\ ParseInv /\ NextArgument => ParseInv'
<1> SUFFICES ASSUME LineInv, ParseInv, NextArgument PROVE ParseInv'
  OBVIOUS
<1>1. PICK r : /\ r = Strtok(scommand, sp, pc = "first")
               /\ pc \in {"first", "next"} /\ scommand' = r.mem /\ sp' = r.sp /\ out' = out
               /\ \/ /\ r.token = <<>> /\ pc' = "system" /\ UNCHANGED <<args, refused>>
                  \/ /\ r.token # <<>> /\ pc' = "next" /\ UNCHANGED refused
                     /\ args' = Append(args, Truncated(r.token, ArgumentSize))
                  \/ /\ r.token # <<>> /\ pc' = "system" /\ UNCHANGED args
                     /\ refused' = IF refused = "no" THEN "now" ELSE refused
  BY DEF NextArgument, line
<1>2. scommand' \in [0 .. LineSize -> Character]
  <2>1. scommand \in [0 .. LineSize -> Character] /\ NUL \in Character
    BY Characters DEF ParseInv
  <2>2. r.mem = scommand \/ \E e : r.mem = [scommand EXCEPT ![e] = NUL]
    BY <1>1 DEF Strtok
  <2> QED  BY <1>1, <2>1, <2>2
<1>3. refused \in {"no", "earlier"}
  BY <1>1 DEF ParseInv
<1>4. CASE refused = "earlier"
  BY <1>1, <1>2, <1>4 DEF ParseInv
<1>5. CASE refused = "no"
  <2>1. PICK text \in Seq(Typed) : /\ text = Contents(out) /\ Len(text) < LineSize
                                   /\ Contents(out)' = text
    BY <1>1, TextIs DEF Handed
  <2>2. TypedWords = Shortened(Words(text)) /\ TypedWords' = Shortened(Words(text))
    BY <2>1 DEF TypedWords, Shortened
  <2>3. PICK q : /\ q = (IF pc = "first" THEN 0 ELSE sp) /\ Reached(scommand, args, text, q)
                 /\ GoesOn(sp, pc = "first", q)
    BY <1>1, <1>5, <2>1 DEF ParseInv, GoesOn
  <2>4. Answers(r, scommand, text, q)
    <3>1. scommand \in [0 .. LineSize -> Character] /\ (pc = "first") \in BOOLEAN
      BY DEF ParseInv
    <3>2. q \in 0 .. Len(text) /\ Rest(scommand, text, q)
      BY <2>3 DEF Reached
    <3> QED  BY <1>1, <2>1, <2>3, <3>1, <3>2, StrtokIs
  <2>5. CASE r.token = <<>>
    <3>1. /\ r.sp = NULL /\ \A k \in q + 1 .. Len(text) : text[k] = Delimiter
      BY <2>4, <2>5 DEF Answers
    <3>2. args = Shortened(Words(text))
      <4>1. PICK words : /\ Parsed(text, words) /\ Words(text) = words[Len(text)]
                         /\ args = Shortened(words[q])
        BY <2>3 DEF Reached
      <4>2. q \in 0 .. Len(text) /\ Len(text) \in q .. Len(text)
        BY <2>3, LenProperties DEF Reached
      <4>3. words[Len(text)] = words[q]
        BY <3>1, <4>1, <4>2, WordsSkip
      <4> QED  BY <4>1, <4>3
    <3>3. IsPrefix(args, Shortened(Words(text)))
      BY <2>3, ReachedPrefix
    <3> QED  BY <1>1, <1>2, <1>5, <2>2, <2>5, <3>1, <3>2, <3>3 DEF ParseInv
  <2>6. CASE r.token # <<>> /\ pc' = "next"
    <3>1. PICK b, e : /\ NextWord(text, q, b, e) /\ r.token = SubSeq(text, b + 1, e)
                      /\ r.sp = IF e = Len(text) THEN e ELSE e + 1
                      /\ r.mem = Ended(scommand, e)
      BY <2>4, <2>6 DEF Answers
    <3>2. args' = Append(args, Truncated(r.token, ArgumentSize)) /\ refused' = refused
      BY <1>1, <2>6
    <3>3. Reached(scommand', args', text, sp') /\ sp' # NULL
      <4>1. scommand \in [0 .. LineSize -> Character]
        BY DEF ParseInv
      <4>2. PICK at : at = IF e = Len(text) THEN e ELSE e + 1
        OBVIOUS
      <4>3. /\ at # NULL
            /\ Reached(Ended(scommand, e),
                       Append(args, Truncated(SubSeq(text, b + 1, e), ArgumentSize)), text, at)
        BY <2>1, <2>3, <3>1, <4>1, <4>2, ReachedMore
      <4>4. /\ scommand' = Ended(scommand, e) /\ sp' = at
            /\ args' = Append(args, Truncated(SubSeq(text, b + 1, e), ArgumentSize))
        BY <1>1, <3>1, <3>2, <4>2
      <4> QED  BY <4>3, <4>4
    <3> QED  BY <1>1, <1>2, <1>5, <2>1, <2>6, <3>2, <3>3 DEF ParseInv
  <2>7. CASE r.token # <<>> /\ pc' = "system"
    <3>1. args' = args /\ refused' = "now"
      BY <1>1, <1>5, <2>7
    <3>2. IsPrefix(args, Shortened(Words(text)))
      BY <2>3, ReachedPrefix
    <3> QED  BY <1>2, <2>2, <2>7, <3>1, <3>2 DEF ParseInv
  <2> QED  BY <1>1, <2>5, <2>6, <2>7
<1> QED  BY <1>3, <1>4, <1>5

\* The other steps leave the parser alone.
LEMMA ParserRests ==
  LineInv /\ ParseInv
    /\ (Prompt \/ GetKey \/ Echo \/ EndOfLine \/ System \/ OtherPrints \/ UNCHANGED vars)
      => ParseInv'
<1> SUFFICES ASSUME LineInv, ParseInv,
                    Prompt \/ GetKey \/ Echo \/ EndOfLine \/ System \/ OtherPrints
                      \/ UNCHANGED vars
             PROVE  ParseInv'
  OBVIOUS
<1>1. CASE Prompt \/ GetKey \/ Echo \/ EndOfLine
  <2>1. /\ UNCHANGED <<scommand, sp, refused>>
        /\ pc \notin {"first", "next", "system"} /\ pc' \notin {"first", "next", "system"}
    BY <1>1 DEF Prompt, GetKey, Echo, EndOfLine, parse
  <2> QED  BY <2>1 DEF ParseInv
<1>2. CASE System
  <2>1. /\ UNCHANGED <<scommand, sp>> /\ pc = "system" /\ pc' = "ran"
        /\ refused' = IF refused = "no" THEN "no" ELSE "earlier"
    BY <1>2 DEF System
  <2> QED  BY <2>1 DEF ParseInv
<1>3. CASE OtherPrints \/ UNCHANGED vars
  <2>1. UNCHANGED <<scommand, sp, refused, pc, args, out>>
    BY <1>3 DEF OtherPrints, vars, line, parse
  <2> QED  BY <2>1 DEF ParseInv, TypedWords, Reached
<1> QED  BY <1>1, <1>2, <1>3

\* Nothing is parsed in the beginning.
LEMMA ParseStart == Init => ParseInv
<1> SUFFICES ASSUME Init PROVE ParseInv
  OBVIOUS
<1>1. /\ scommand = [k \in 0 .. LineSize |-> NUL] /\ sp = NULL /\ refused = "no" /\ pc = "prompt"
  BY DEF Init
<1> QED  BY <1>1, Characters DEF ParseInv

\* Every step keeps the invariant of the parser.
LEMMA ParseStays == LineInv /\ ParseInv /\ [Next]_vars => ParseInv'
BY SystemRunStep, NextArgumentStep, ParserRests DEF Next

\* Until an allocation is refused the arguments are the words of the line that was
\* typed, and the line where it happens gets the first of them.
THEOREM ArgumentsCorrect == Spec => []ArgumentsAreWords
<1>1. ParseInv => ArgumentsAreWords
  BY DEF ParseInv, ArgumentsAreWords
<1> QED  BY <1>1, LineStart, LineStays, ParseStart, ParseStays, PTL DEF Spec

-----------------------------------------------------------------------------
(* What is printed. *)

\* The greatest of some numbers, one of which is above the others.
LEMMA MaxIs ==
  ASSUME NEW s \in SUBSET Nat, NEW k \in s, \A y \in s : y <= k
  PROVE  Max(s) = k
<1>1. \A x \in s : (\A y \in s : x >= y) => x = k
  OBVIOUS
<1> QED  BY <1>1 DEF Max

\* The states that a terminal goes through while a string is printed.
Written(t, str, g) ==
  /\ g[0] = t /\ \A k \in 1 .. Len(str) : g[k] = Writechar(g[k - 1], str[k])
  /\ Prints(t, str) = g[Len(str)]

\* There are such states, for any string.
LEMMA StatesExist ==
  ASSUME NEW t, NEW T, NEW str \in Seq(T)
  PROVE  \E g : Written(t, str, g)
<1> DEFINE total == Len(str)
           Step(f, s) == IF s = {} THEN t ELSE Writechar(f[s \ {Max(s)}], str[Max(s)])
           Folded(f, n) == f = [s \in SUBSET (1 .. n) |-> Step(f, s)]
           bad == {k \in Nat : ~ \E f : Folded(f, k)}
<1>1. total \in Nat /\ DOMAIN str = 1 .. total
  BY LenProperties
<1>2. Prints(t, str) = (CHOOSE f : Folded(f, total))[1 .. total]
  BY <1>1 DEF Prints, FoldLeft, MapThenFoldSet
<1>3. \A f, h, s : s # {} /\ f[s \ {Max(s)}] = h[s \ {Max(s)}] => Step(f, s) = Step(h, s)
  OBVIOUS
<1>4. \A f : Step(f, {}) = t
  OBVIOUS
<1>5. \A f, s : s # {} => Step(f, s) = Writechar(f[s \ {Max(s)}], str[Max(s)])
  OBVIOUS
<1> HIDE DEF Step, total
<1>6. bad = {}
  <2> SUFFICES ASSUME bad # {} PROVE FALSE
    OBVIOUS
  <2>1. PICK k \in bad : \A y \in bad : k <= y
    BY LeastElement
  <2>2. k \in Nat /\ ~ \E f : Folded(f, k)
    BY <2>1
  <2>3. k # 0
    <3> SUFFICES ASSUME k = 0 PROVE FALSE
      OBVIOUS
    <3> DEFINE f == [s \in SUBSET (1 .. 0) |-> t]
    <3>1. \A s \in SUBSET (1 .. 0) : s = {}
      OBVIOUS
    <3>2. f = [s \in SUBSET (1 .. 0) |-> Step(f, s)]
      BY <1>4, <3>1
    <3> QED  BY <2>2, <3>2
  <2>4. k - 1 \in Nat /\ k - 1 \notin bad
    <3>1. k - 1 \in Nat /\ ~ (k <= k - 1)
      BY <2>2, <2>3
    <3> QED  BY <2>1, <3>1
  <2>5. PICK f : Folded(f, k - 1)
    BY <2>4
  <2> DEFINE h == [s \in SUBSET (1 .. k) |->
                     IF k \in s THEN Writechar(f[s \ {k}], str[k]) ELSE f[s]]
  <2>6. \A s \in SUBSET (1 .. k) : k \notin s => s \in SUBSET (1 .. k - 1)
    <3> TAKE s \in SUBSET (1 .. k)
    <3> HAVE k \notin s
    <3>1. \A e \in s : e \in 1 .. k - 1
      BY <2>2
    <3> QED  BY <3>1
  <2>7. \A s \in SUBSET (1 .. k) : k \notin s => h[s] = f[s]
    OBVIOUS
  <2>8. \A s \in SUBSET (1 .. k) : h[s] = Step(h, s)
    <3> SUFFICES ASSUME NEW s \in SUBSET (1 .. k) PROVE h[s] = Step(h, s)
      OBVIOUS
    <3>1. CASE k \in s
      <4>1. \A y \in s : y <= k
        BY <2>2
      <4>2. s \in SUBSET Nat
        OBVIOUS
      <4>3. Max(s) = k
        BY <3>1, <4>1, <4>2, MaxIs
      <4>4. s \ {k} \in SUBSET (1 .. k) /\ k \notin s \ {k}
        OBVIOUS
      <4>5. h[s \ {k}] = f[s \ {k}]
        BY <2>7, <4>4
      <4>6. h[s] = Writechar(f[s \ {k}], str[k])
        BY <3>1
      <4>7. Step(h, s) = Writechar(h[s \ {k}], str[k])
        BY <1>5, <3>1, <4>3
      <4> QED  BY <4>5, <4>6, <4>7
    <3>2. CASE k \notin s
      <4>1. s \in SUBSET (1 .. k - 1)
        BY <2>6, <3>2
      <4>2. h[s] = Step(f, s)
        BY <2>5, <2>7, <3>2, <4>1
      <4>3. CASE s = {}
        BY <1>4, <4>2, <4>3
      <4>4. CASE s # {}
        <5>1. s \ {Max(s)} \in SUBSET (1 .. k) /\ k \notin s \ {Max(s)}
          BY <3>2
        <5>2. h[s \ {Max(s)}] = f[s \ {Max(s)}]
          BY <2>7, <5>1
        <5>3. Step(f, s) = Step(h, s)
          BY <1>3, <4>4, <5>2
        <5> QED  BY <4>2, <5>3
      <4> QED  BY <4>3, <4>4
    <3> QED  BY <3>1, <3>2
  <2>9. Folded(h, k)
    <3>1. [s \in SUBSET (1 .. k) |-> Step(h, s)] = [s \in SUBSET (1 .. k) |-> h[s]]
      BY <2>8
    <3>2. h = [s \in SUBSET (1 .. k) |-> h[s]]
      OBVIOUS
    <3> QED  BY <3>1, <3>2
  <2> QED  BY <2>2, <2>9
<1>7. \E f : Folded(f, total)
  BY <1>1, <1>6
<1>8. PICK f : Folded(f, total) /\ Prints(t, str) = f[1 .. total]
  BY <1>2, <1>7
<1> DEFINE g == [k \in 0 .. total |-> f[1 .. k]]
<1>9. g[0] = t
  <2>1. 1 .. 0 = {} /\ {} \in SUBSET (1 .. total) /\ 0 \in 0 .. total
    BY <1>1
  <2>2. f[{}] = t
    BY <1>4, <1>8, <2>1
  <2> QED  BY <2>1, <2>2
<1>10. \A k \in 1 .. total : g[k] = Writechar(g[k - 1], str[k])
  <2> TAKE k \in 1 .. total
  <2>1. 1 .. k \in SUBSET (1 .. total) /\ k \in 1 .. k /\ k \in 0 .. total /\ k - 1 \in 0 .. total
    BY <1>1
  <2>2. Max(1 .. k) = k
    <3>1. 1 .. k \in SUBSET Nat /\ \A y \in 1 .. k : y <= k
      BY <1>1
    <3> QED  BY <2>1, <3>1, MaxIs
  <2>3. (1 .. k) \ {k} = 1 .. k - 1
    BY <1>1
  <2>4. f[1 .. k] = Step(f, 1 .. k)
    BY <1>8, <2>1
  <2>5. Step(f, 1 .. k) = Writechar(f[(1 .. k) \ {Max(1 .. k)}], str[Max(1 .. k)])
    BY <1>5, <2>1
  <2>6. f[1 .. k] = Writechar(f[1 .. k - 1], str[k])
    BY <2>2, <2>3, <2>4, <2>5
  <2> QED  BY <2>1, <2>6
<1>11. Prints(t, str) = g[total]
  BY <1>1, <1>8
<1> HIDE DEF g
<1> QED  BY <1>9, <1>10, <1>11 DEF Written, total

\* The terminal has its three fields, and its column is one of the screen or,
\* after a backspace from the first column, 65535.
Placed(t) ==
  /\ t = [row |-> t.row, col |-> t.col, video |-> t.video]
  /\ t.row \in Nat /\ t.row < 65536
  /\ t.col \in Nat /\ (t.col < VGA_WIDTH \/ t.col = 65535)

\* The size of the screen, and what a row is.
LEMMA Screen ==
  /\ VGA_WIDTH \in Nat /\ 2 <= VGA_WIDTH /\ VGA_WIDTH <= 65535
  /\ VGA_WIDTH * VGA_HEIGHT \in Nat /\ VGA_WIDTH * VGA_HEIGHT <= 65535
  /\ \A r \in Nat : r * VGA_WIDTH \in Nat /\ (r + 1) * VGA_WIDTH = r * VGA_WIDTH + VGA_WIDTH
<1>1. VGA_WIDTH \in 2 .. 65535
  BY ScreenAssumption, SMT
<1>2. VGA_WIDTH \in Nat /\ 2 <= VGA_WIDTH /\ VGA_WIDTH <= 65535
  BY <1>1, SMT
<1>3. VGA_HEIGHT \in Nat /\ VGA_WIDTH * VGA_HEIGHT < 65536
  BY ScreenAssumption, SMT
<1>4. \A a, b \in Nat : a * b \in Nat
  BY SMT
<1>5. \A a, b \in Nat : (a + 1) * b = a * b + b
  BY SMT
<1>6. VGA_WIDTH * VGA_HEIGHT \in Nat
  BY <1>2, <1>3, <1>4, SMT
<1>7. \A n \in Nat : n < 65536 => n <= 65535
  BY SMT
<1>8. VGA_WIDTH * VGA_HEIGHT <= 65535
  BY <1>3, <1>6, <1>7, SMT
<1> QED  BY <1>2, <1>4, <1>5, <1>6, <1>8, SMT

\* An unsigned number below zero is the greatest one.
LEMMA BelowZero == Uint16(0 - 1) = 65535
<1>1. \A n \in Int : /\ n % 65536 \in Int /\ n \div 65536 \in Int
                    /\ n = 65536 * (n \div 65536) + (n % 65536)
                    /\ 0 <= n % 65536 /\ n % 65536 < 65536
  BY SMT
<1>2. PICK n \in Int : n = 0 - 1
  BY SMT
<1>3. PICK r : r = n % 65536
  OBVIOUS
<1>4. PICK q : q = n \div 65536
  OBVIOUS
<1>5. q \in Int /\ r \in Int /\ n = 65536 * q + r /\ 0 <= r /\ r < 65536
  BY <1>1, <1>3, <1>4, SMT
<1>6. r = 65535
  BY <1>2, <1>5, SMT
<1> QED  BY <1>2, <1>3, <1>6, SMT DEF Uint16

\* A character is put into one cell, and the cursor moves on; from behind the
\* width it goes to the first column.
LEMMA PutIs ==
  ASSUME NEW t, Placed(t), NEW c
  PROVE  /\ Placed(Put(t, c))
         /\ \A x : Cell(Put(t, c), x) = IF x = Cursor(t) THEN c ELSE Cell(t, x)
         /\ t.col < VGA_WIDTH - 1 => Put(t, c).row = t.row /\ Put(t, c).col = t.col + 1
         /\ t.col = VGA_WIDTH - 1 => Put(t, c).row = Uint16(t.row + 1) /\ Put(t, c).col = 0
         /\ t.col >= VGA_WIDTH => Put(t, c).row = t.row /\ Put(t, c).col = 0
<1>1. PICK r : r = Put(t, c)
  BY SMT
<1> DEFINE col == Uint16(t.col + 1)
<1>2. /\ r.row = Uint16(t.row + IF col >= VGA_WIDTH THEN 1 ELSE 0)
      /\ r.col = IF col >= VGA_WIDTH THEN 0 ELSE col
      /\ r = [row |-> r.row, col |-> r.col, video |-> r.video]
      /\ r.video = [x \in {Cursor(t)} \cup DOMAIN t.video |->
                      IF x = Cursor(t) THEN c ELSE t.video[x]]
  BY <1>1, SMT DEF Put
<1>3. t.row \in Nat /\ t.row < 65536 /\ t.col \in Nat /\ (t.col < VGA_WIDTH \/ t.col = 65535)
  BY SMT DEF Placed
<1>4. Uint16(t.row + 0) = t.row /\ Uint16(t.row + 1) \in Nat /\ Uint16(t.row + 1) < 65536
  BY <1>3, SMT DEF Uint16
<1>5. t.col < 65535 => col = t.col + 1
  BY <1>3, SMT DEF Uint16
<1>6. t.col = 65535 => col = 0
  BY SMT DEF Uint16
<1>7. col \in Nat /\ (t.col >= VGA_WIDTH => t.col = 65535)
  BY <1>3, Screen, SMT DEF Uint16
<1> HIDE DEF col
<1>8. \A x : Cell(r, x) = IF x = Cursor(t) THEN c ELSE Cell(t, x)
  BY <1>2, SMT DEF Cell
<1>9. t.col < VGA_WIDTH - 1 => r.row = t.row /\ r.col = t.col + 1
  BY <1>2, <1>3, <1>4, <1>5, Screen, SMT
<1>10. t.col = VGA_WIDTH - 1 => r.row = Uint16(t.row + 1) /\ r.col = 0
  BY <1>2, <1>3, <1>4, <1>5, Screen, SMT
<1>11. t.col >= VGA_WIDTH => r.row = t.row /\ r.col = 0
  BY <1>2, <1>3, <1>4, <1>6, <1>7, Screen, SMT
<1>12. Placed(r)
  <2>1. r.row \in Nat /\ r.row < 65536
    BY <1>2, <1>3, <1>4, SMT
  <2>2. r.col \in Nat /\ r.col < VGA_WIDTH
    BY <1>2, <1>7, Screen, SMT
  <2> QED  BY <1>2, <2>1, <2>2, SMT DEF Placed
<1> QED  BY <1>1, <1>8, <1>9, <1>10, <1>11, <1>12, SMT

\* A backspace: nothing at the beginning of the screen, the cell in front of the
\* cursor in a row, and from the first column, or from behind the width, no
\* column of the screen.
LEMMA EraseIs ==
  ASSUME NEW t, Placed(t)
  PROVE  /\ Placed(Erase(t))
         /\ t.row = 0 /\ t.col = 0 => Erase(t) = t
         /\ ~ (t.row = 0 /\ t.col = 0) =>
              \A x : Cell(Erase(t), x) = IF x = Cursor(t) - 1 THEN Blank ELSE Cell(t, x)
         /\ t.col \in 1 .. VGA_WIDTH - 1 => Erase(t).row = t.row /\ Erase(t).col = t.col - 1
         /\ t.row # 0 /\ t.col = 0 => Erase(t).row = t.row /\ Erase(t).col = 65535
         /\ t.col >= VGA_WIDTH => Erase(t).row = Uint16(t.row + 1) /\ Erase(t).col = 65535
<1>1. CASE t.row = 0 /\ t.col = 0
  <2>1. Erase(t) = t
    BY <1>1, SMT DEF Erase
  <2>2. t.col \notin 1 .. VGA_WIDTH - 1 /\ ~ (t.col >= VGA_WIDTH)
    BY <1>1, Screen, SMT
  <2> QED  BY <1>1, <2>1, <2>2, SMT
<1>2. CASE ~ (t.row = 0 /\ t.col = 0)
  <2> DEFINE before == [row |-> IF t.col = 0 THEN t.row - 1 ELSE t.row,
                        col |-> (IF t.col = 0 THEN VGA_WIDTH ELSE t.col) - 1,
                        video |-> t.video]
             after == Put(before, Blank)
  <2>1. /\ t = [row |-> t.row, col |-> t.col, video |-> t.video]
        /\ t.row \in Nat /\ t.row < 65536 /\ t.col \in Nat /\ (t.col < VGA_WIDTH \/ t.col = 65535)
    BY SMT DEF Placed
  <2>2. /\ before = [row |-> before.row, col |-> before.col, video |-> before.video]
        /\ before.row = (IF t.col = 0 THEN t.row - 1 ELSE t.row)
        /\ before.col = (IF t.col = 0 THEN VGA_WIDTH ELSE t.col) - 1
        /\ before.video = t.video
    BY <2>1, SMT
  <2>3. Erase(t) = [row |-> after.row, col |-> Uint16(after.col - 1), video |-> after.video]
    BY <1>2, SMT DEF Erase
  <2> HIDE DEF before, after
  <2>4. Cursor(before) = Cursor(t) - 1
    <3>1. CASE t.col = 0
      <4>1. t.row - 1 \in Nat /\ (t.row - 1) + 1 = t.row
        BY <1>2, <2>1, <3>1, SMT
      <4>2. t.row * VGA_WIDTH = (t.row - 1) * VGA_WIDTH + VGA_WIDTH
        BY <4>1, Screen, SMT
      <4>3. (t.row - 1) * VGA_WIDTH \in Nat
        BY <4>1, Screen, SMT
      <4> QED  BY <2>2, <3>1, <4>2, <4>3, Screen, SMT DEF Cursor
    <3>2. CASE t.col # 0
      <4>1. t.row * VGA_WIDTH \in Nat
        BY <2>1, Screen, SMT
      <4> QED  BY <2>1, <2>2, <3>2, <4>1, Screen, SMT DEF Cursor
    <3> QED  BY <3>1, <3>2, SMT
  <2>5. \A x : Cell(before, x) = Cell(t, x)
    BY <2>2, SMT DEF Cell
  <2>6. CASE t.col < VGA_WIDTH
    <3>1. Placed(before) /\ before.col \in Nat /\ before.col < VGA_WIDTH
      BY <1>2, <2>1, <2>2, <2>6, Screen, SMT DEF Placed
    <3>2. /\ Placed(after)
          /\ \A x : Cell(after, x) = IF x = Cursor(t) - 1 THEN Blank ELSE Cell(t, x)
          /\ before.col < VGA_WIDTH - 1 => after.row = before.row /\ after.col = before.col + 1
          /\ before.col = VGA_WIDTH - 1 => after.row = Uint16(before.row + 1) /\ after.col = 0
      BY <2>4, <2>5, <3>1, PutIs, SMT DEF after
    <3>3. after = [row |-> after.row, col |-> after.col, video |-> after.video]
      BY <3>2, SMT DEF Placed
    <3>4. /\ Erase(t).row = after.row /\ Erase(t).col = Uint16(after.col - 1)
          /\ Erase(t).video = after.video
          /\ Erase(t) = [row |-> Erase(t).row, col |-> Erase(t).col, video |-> Erase(t).video]
      BY <2>3, <3>3, SMT
    <3>5. \A x : Cell(Erase(t), x) = Cell(after, x)
      BY <3>4, SMT DEF Cell
    <3>6. CASE t.col = 0
      <4>1. before.col = VGA_WIDTH - 1 /\ before.row = t.row - 1 /\ t.row \in Nat /\ 1 <= t.row /\ t.row < 65536
        BY <1>2, <2>1, <2>2, <3>6, SMT
      <4>2. after.row = Uint16((t.row - 1) + 1) /\ after.col = 0
        BY <3>2, <4>1, SMT
      <4>3. after.row = t.row
        BY <4>1, <4>2, SMT DEF Uint16
      <4>4. Erase(t).row = t.row /\ Erase(t).col = 65535
        BY <3>4, <4>2, <4>3, BelowZero, SMT
      <4> QED  BY <2>1, <3>2, <3>4, <3>5, <3>6, <4>1, <4>4, Screen, SMT DEF Placed
    <3>7. CASE t.col # 0
      <4>1. t.col \in 1 .. VGA_WIDTH - 1 /\ before.col = t.col - 1 /\ before.row = t.row
        BY <2>1, <2>2, <2>6, <3>7, Screen, SMT
      <4>2. after.row = t.row /\ after.col = t.col
        BY <2>1, <3>2, <4>1, Screen, SMT
      <4>3. Uint16(t.col - 1) = t.col - 1
        BY <4>1, Screen, SMT DEF Uint16
      <4>4. Erase(t).row = t.row /\ Erase(t).col = t.col - 1
        BY <3>4, <4>2, <4>3, SMT
      <4> QED  BY <2>1, <3>2, <3>4, <3>5, <3>7, <4>1, <4>4, Screen, SMT DEF Placed
    <3> QED  BY <3>6, <3>7, SMT
  <2>7. CASE t.col >= VGA_WIDTH
    <3>1. t.col = 65535 /\ before.col = 65534 /\ before.row = t.row
      BY <2>1, <2>2, <2>7, Screen, SMT
    <3>2. Uint16(before.col + 1) = 65535 /\ 65535 >= VGA_WIDTH
      BY <3>1, Screen, SMT DEF Uint16
    <3>3. /\ after.row = Uint16(t.row + 1) /\ after.col = 0
          /\ after = [row |-> after.row, col |-> after.col, video |-> after.video]
          /\ after.video = [x \in {Cursor(before)} \cup DOMAIN before.video |->
                              IF x = Cursor(before) THEN Blank ELSE before.video[x]]
      BY <3>1, <3>2, SMT DEF Put, after
    <3>4. /\ Erase(t).row = Uint16(t.row + 1) /\ Erase(t).col = 65535
          /\ Erase(t).video = after.video
          /\ Erase(t) = [row |-> Erase(t).row, col |-> Erase(t).col, video |-> Erase(t).video]
      BY <2>3, <3>2, <3>3, BelowZero, SMT
    <3>5. \A x : Cell(Erase(t), x) = IF x = Cursor(t) - 1 THEN Blank ELSE Cell(t, x)
      BY <2>2, <2>4, <3>3, <3>4, SMT DEF Cell
    <3>6. Uint16(t.row + 1) \in Nat /\ Uint16(t.row + 1) < 65536
      BY <2>1, SMT DEF Uint16
    <3>7. Placed(Erase(t))
      BY <3>4, <3>6, SMT DEF Placed
    <3> QED  BY <2>7, <3>1, <3>4, <3>5, <3>7, Screen, SMT
  <2> QED  BY <2>1, <2>6, <2>7, Screen, SMT
<1> QED  BY <1>1, <1>2, SMT

\* The first cell that a character may still be put into: after a backspace from
\* the first column, the first one of the row, since the character that follows
\* is put behind the screen.
Behind(t) == t.row * VGA_WIDTH + IF t.col < VGA_WIDTH THEN t.col ELSE 0

\* From there on the screen is blank.
Clear(t) == \A x \in Behind(t) .. VGA_WIDTH * VGA_HEIGHT - 1 : Cell(t, x) = Blank

\* The screen stays clear when the cursor moves on and what is written is a blank,
\* in front of the cursor, or behind the screen.
LEMMA ClearStays ==
  ASSUME NEW t, NEW r, Clear(t), Behind(t) \in Nat, Behind(r) \in Nat,
         NEW at \in Int,
         \/ Behind(t) <= Behind(r) /\ at < Behind(r)
         \/ Behind(t) <= Behind(r) /\ at >= VGA_WIDTH * VGA_HEIGHT
         \/ Behind(t) <= Behind(r) + 1 /\ at = Behind(r) /\ Cell(r, at) = Blank,
         \A x : x # at => Cell(r, x) = Cell(t, x)
  PROVE  Clear(r)
<1> SUFFICES ASSUME NEW x \in Behind(r) .. VGA_WIDTH * VGA_HEIGHT - 1 PROVE Cell(r, x) = Blank
  BY SMT DEF Clear
<1>1. VGA_WIDTH * VGA_HEIGHT \in Nat
  BY Screen, SMT
<1>2. CASE x = at
  BY <1>1, <1>2, SMT
<1>3. CASE x # at
  <2>1. x \in Behind(t) .. VGA_WIDTH * VGA_HEIGHT - 1
    BY <1>1, <1>3, SMT
  <2> QED  BY <1>3, <2>1, SMT DEF Clear
<1> QED  BY <1>2, <1>3, SMT

\* The next row is the next number, or 0.
LEMMA NextRow ==
  ASSUME NEW r \in Nat, r < 65536
  PROVE  /\ Uint16(r + 1) \in Nat /\ Uint16(r + 1) < 65536
         /\ Uint16(r + 1) = r + 1 \/ (r = 65535 /\ Uint16(r + 1) = 0)
BY SMT DEF Uint16

\* What is behind the cursor begins in the row of the cursor.
LEMMA BehindIs ==
  ASSUME NEW t, Placed(t)
  PROVE  /\ t.row * VGA_WIDTH \in Nat /\ Behind(t) \in Nat /\ Cursor(t) \in Nat
         /\ t.col < VGA_WIDTH => Behind(t) = Cursor(t) /\ Behind(t) = t.row * VGA_WIDTH + t.col
         /\ t.col >= VGA_WIDTH => /\ Behind(t) = t.row * VGA_WIDTH
                                  /\ Cursor(t) = t.row * VGA_WIDTH + 65535
<1>1. /\ t.row \in Nat /\ t.col \in Nat /\ (t.col < VGA_WIDTH \/ t.col = 65535)
      /\ t.row * VGA_WIDTH \in Nat /\ VGA_WIDTH \in Nat
  BY Screen, SMT DEF Placed
<1> QED  BY <1>1, SMT DEF Behind, Cursor

\* One character leaves the cursor in its row or moves it to the next one, and
\* unless the rows begin again the screen stays clear.
LEMMA WriteIs ==
  ASSUME NEW t, Placed(t), NEW c
  PROVE  /\ Placed(Writechar(t, c))
         /\ Writechar(t, c).row = t.row \/ Writechar(t, c).row = Uint16(t.row + 1)
         /\ Clear(t) /\ Writechar(t, c).row >= t.row => Clear(Writechar(t, c))
<1>1. PICK r : r = Writechar(t, c)
  OBVIOUS
<1>2. /\ t = [row |-> t.row, col |-> t.col, video |-> t.video]
      /\ t.row \in Nat /\ t.row < 65536
      /\ t.col \in Nat /\ (t.col < VGA_WIDTH \/ t.col = 65535)
  BY SMT DEF Placed
<1>3. /\ Uint16(t.row + 1) \in Nat /\ Uint16(t.row + 1) < 65536
      /\ Uint16(t.row + 1) >= t.row => Uint16(t.row + 1) = t.row + 1
  BY <1>2, NextRow, SMT
<1>4. /\ t.row * VGA_WIDTH \in Nat /\ Behind(t) \in Nat /\ Cursor(t) \in Nat
      /\ t.col < VGA_WIDTH => Behind(t) = Cursor(t) /\ Behind(t) = t.row * VGA_WIDTH + t.col
      /\ t.col >= VGA_WIDTH => /\ Behind(t) = t.row * VGA_WIDTH
                               /\ Cursor(t) = t.row * VGA_WIDTH + 65535
  BY BehindIs, SMT
<1>5. (t.row + 1) * VGA_WIDTH = t.row * VGA_WIDTH + VGA_WIDTH
  BY <1>2, Screen, SMT
<1>6. CASE c = Newline
  <2>1. r = [row |-> Uint16(t.row + 1), col |-> 0, video |-> t.video]
    BY <1>1, <1>6, SMT DEF Writechar, Newline, Backspace
  <2>2. Placed(r) /\ r.row = Uint16(t.row + 1) /\ r.col = 0 /\ \A x : Cell(r, x) = Cell(t, x)
    BY <1>3, <2>1, Screen, SMT DEF Placed, Cell
  <2>3. ASSUME Clear(t), r.row >= t.row PROVE Clear(r)
    <3>1. r.row = t.row + 1
      BY <1>3, <2>2, <2>3, SMT
    <3>2. Behind(r) = t.row * VGA_WIDTH + VGA_WIDTH
      BY <1>4, <1>5, <2>2, <3>1, BehindIs, Screen, SMT
    <3>3. Behind(r) \in Nat /\ Behind(t) <= Behind(r) /\ -1 \in Int /\ -1 < Behind(r)
      BY <1>2, <1>4, <3>2, Screen, SMT
    <3> QED  BY <1>4, <2>2, <2>3, <3>3, ClearStays, SMT
  <2> QED  BY <1>1, <2>2, <2>3, SMT
<1>7. CASE c # Newline /\ c # Backspace
  <2>1. r = Put(t, c)
    BY <1>1, <1>7, SMT DEF Writechar
  <2>2. /\ Placed(r)
        /\ \A x : Cell(r, x) = IF x = Cursor(t) THEN c ELSE Cell(t, x)
        /\ t.col < VGA_WIDTH - 1 => r.row = t.row /\ r.col = t.col + 1
        /\ t.col = VGA_WIDTH - 1 => r.row = Uint16(t.row + 1) /\ r.col = 0
        /\ t.col >= VGA_WIDTH => r.row = t.row /\ r.col = 0
    BY <2>1, PutIs, SMT
  <2>3. t.col < VGA_WIDTH - 1 \/ t.col = VGA_WIDTH - 1 \/ t.col >= VGA_WIDTH
    BY <1>2, Screen, SMT
  <2>4. r.row = t.row \/ r.row = Uint16(t.row + 1)
    BY <2>2, <2>3, SMT
  <2>5. ASSUME Clear(t), r.row >= t.row PROVE Clear(r)
    <3>1. Behind(r) \in Nat
      BY <2>2, BehindIs, SMT
    <3>2. CASE t.col < VGA_WIDTH - 1
      <4>1. r.row = t.row /\ r.col = t.col + 1 /\ r.col < VGA_WIDTH
        BY <1>2, <2>2, <3>2, Screen, SMT
      <4>2. Behind(r) = Behind(t) + 1 /\ Cursor(t) = Behind(t)
        BY <1>2, <1>4, <2>2, <3>2, <4>1, BehindIs, Screen, SMT
      <4> QED  BY <1>4, <2>2, <2>5, <3>1, <4>2, ClearStays, SMT
    <3>3. CASE t.col = VGA_WIDTH - 1
      <4>1. r.row = t.row + 1 /\ r.col = 0
        BY <1>3, <2>2, <2>5, <3>3, SMT
      <4>2. Behind(r) = t.row * VGA_WIDTH + VGA_WIDTH
        BY <1>4, <1>5, <2>2, <4>1, BehindIs, Screen, SMT
      <4>3. Behind(r) = Behind(t) + 1 /\ Cursor(t) = Behind(t)
        BY <1>2, <1>4, <3>3, <4>2, Screen, SMT
      <4> QED  BY <1>4, <2>2, <2>5, <3>1, <4>3, ClearStays, SMT
    <3>4. CASE t.col >= VGA_WIDTH
      <4>1. r.row = t.row /\ r.col = 0
        BY <2>2, <3>4, SMT
      <4>2. Behind(r) = Behind(t) /\ Cursor(t) >= VGA_WIDTH * VGA_HEIGHT
        BY <1>4, <2>2, <3>4, <4>1, BehindIs, Screen, SMT
      <4> QED  BY <1>4, <2>2, <2>5, <3>1, <4>2, ClearStays, SMT
    <3> QED  BY <2>3, <3>2, <3>3, <3>4, SMT
  <2> QED  BY <1>1, <2>2, <2>4, <2>5, SMT
<1>8. CASE c = Backspace
  <2>1. r = Erase(t)
    BY <1>1, <1>8, SMT DEF Writechar, Newline, Backspace
  <2>2. CASE t.row = 0 /\ t.col = 0
    <3>1. r = t
      BY <2>1, <2>2, EraseIs, SMT
    <3> QED  BY <1>1, <3>1, SMT
  <2>3. CASE ~ (t.row = 0 /\ t.col = 0)
    <3>1. /\ Placed(r)
          /\ \A x : Cell(r, x) = IF x = Cursor(t) - 1 THEN Blank ELSE Cell(t, x)
          /\ t.col \in 1 .. VGA_WIDTH - 1 => r.row = t.row /\ r.col = t.col - 1
          /\ t.row # 0 /\ t.col = 0 => r.row = t.row /\ r.col = 65535
          /\ t.col >= VGA_WIDTH => r.row = Uint16(t.row + 1) /\ r.col = 65535
      BY <2>1, <2>3, EraseIs, SMT
    <3>2. t.col \in 1 .. VGA_WIDTH - 1 \/ (t.row # 0 /\ t.col = 0) \/ t.col >= VGA_WIDTH
      BY <1>2, <2>3, Screen, SMT
    <3>3. r.row = t.row \/ r.row = Uint16(t.row + 1)
      BY <3>1, <3>2, SMT
    <3>4. ASSUME Clear(t), r.row >= t.row PROVE Clear(r)
      <4>1. Behind(r) \in Nat /\ Cursor(t) - 1 \in Int
        BY <1>4, <3>1, BehindIs, SMT
      <4>2. CASE t.col \in 1 .. VGA_WIDTH - 1
        <5>1. r.row = t.row /\ r.col = t.col - 1 /\ r.col < VGA_WIDTH /\ t.col < VGA_WIDTH
          BY <3>1, <4>2, Screen, SMT
        <5>2. Behind(t) = Behind(r) + 1 /\ Cursor(t) - 1 = Behind(r)
          BY <1>2, <1>4, <3>1, <5>1, BehindIs, Screen, SMT
        <5>3. Cell(r, Cursor(t) - 1) = Blank
          BY <3>1, SMT
        <5> QED  BY <1>4, <3>1, <3>4, <4>1, <5>2, <5>3, ClearStays, SMT
      <4>3. CASE t.row # 0 /\ t.col = 0
        <5>1. r.row = t.row /\ r.col >= VGA_WIDTH /\ t.col < VGA_WIDTH
          BY <3>1, <4>3, Screen, SMT
        <5>2. Behind(r) = Behind(t) /\ Cursor(t) - 1 < Behind(r)
          BY <1>2, <1>4, <3>1, <4>3, <5>1, BehindIs, Screen, SMT
        <5> QED  BY <1>4, <3>1, <3>4, <4>1, <5>2, ClearStays, SMT
      <4>4. CASE t.col >= VGA_WIDTH
        <5>1. r.row = t.row + 1 /\ r.col >= VGA_WIDTH
          BY <1>3, <3>1, <3>4, <4>4, Screen, SMT
        <5>2. Behind(r) = t.row * VGA_WIDTH + VGA_WIDTH
          BY <1>5, <3>1, <5>1, BehindIs, SMT
        <5>3. Behind(t) = t.row * VGA_WIDTH /\ Cursor(t) = t.row * VGA_WIDTH + 65535
          BY <1>4, <4>4, SMT
        <5>4. Behind(t) <= Behind(r)
          BY <1>4, <5>2, <5>3, Screen, SMT
        <5>5. CASE Cursor(t) - 1 < Behind(r)
          BY <1>4, <3>1, <3>4, <4>1, <5>4, <5>5, ClearStays, SMT
        <5>6. CASE Cursor(t) - 1 >= Behind(r)
          <6> SUFFICES ASSUME NEW x \in Behind(r) .. VGA_WIDTH * VGA_HEIGHT - 1
                       PROVE  Cell(r, x) = Blank
            BY SMT DEF Clear
          <6>1. x \in Behind(t) .. VGA_WIDTH * VGA_HEIGHT - 1
            BY <1>4, <4>1, <5>4, Screen, SMT
          <6>2. Cell(t, x) = Blank
            BY <3>4, <6>1, SMT DEF Clear
          <6> QED  BY <3>1, <6>2, SMT
        <5> QED  BY <4>1, <5>5, <5>6, SMT
      <4> QED  BY <3>2, <4>2, <4>3, <4>4, SMT
    <3> QED  BY <1>1, <3>1, <3>3, <3>4, SMT
  <2> QED  BY <2>2, <2>3, SMT
<1> QED  BY <1>6, <1>7, <1>8, SMT

\* The same for a string that is shorter than the rows are many: the rows have
\* begun again only if the last one is above the first.
LEMMA PrintsIs ==
  ASSUME NEW t, Placed(t), NEW T, NEW str \in Seq(T)
  PROVE  /\ Placed(Prints(t, str))
         /\ Len(str) < 65536 /\ Clear(t) /\ Prints(t, str).row >= t.row => Clear(Prints(t, str))
<1>1. PICK g : Written(t, str, g)
  BY StatesExist
<1>2. PICK n : n = Len(str)
  OBVIOUS
<1>3. /\ n \in Nat /\ g[0] = t /\ Prints(t, str) = g[n]
      /\ \A k \in 1 .. n : g[k] = Writechar(g[k - 1], str[k])
  BY <1>1, <1>2, LenProperties, SMT DEF Written
<1>4. t.row \in Nat
  BY SMT DEF Placed
<1> DEFINE Good(k) == /\ Placed(g[k])
                      /\ \/ /\ Clear(t) => Clear(g[k])
                            /\ t.row <= g[k].row /\ g[k].row <= t.row + k
                         \/ g[k].row + 65536 <= t.row + k
           bad == {k \in 0 .. n : ~ Good(k)}
<1>5. \A k : Placed(g[k]) => g[k].row \in Nat /\ g[k].row < 65536
  BY SMT DEF Placed
<1>6. Good(0)
  BY <1>3, <1>4, SMT
<1>7. \A k \in 1 .. n : Good(k - 1) => Good(k)
  <2> SUFFICES ASSUME NEW k \in 1 .. n, Good(k - 1) PROVE Good(k)
    OBVIOUS
  <2>1. PICK a : a = g[k - 1]
    OBVIOUS
  <2>2. PICK b : b = g[k]
    OBVIOUS
  <2>3. /\ Placed(a)
        /\ \/ /\ Clear(t) => Clear(a)
              /\ t.row <= a.row /\ a.row <= t.row + (k - 1)
           \/ a.row + 65536 <= t.row + (k - 1)
    BY <2>1
  <2> HIDE DEF Good
  <2>4. b = Writechar(a, str[k])
    BY <1>3, <2>1, <2>2
  <2>5. /\ Placed(b) /\ (b.row = a.row \/ b.row = Uint16(a.row + 1))
        /\ Clear(a) /\ b.row >= a.row => Clear(b)
    BY <2>3, <2>4, WriteIs
  <2>6. /\ a.row \in Nat /\ a.row < 65536 /\ b.row \in Nat
        /\ b.row = a.row \/ b.row = a.row + 1 \/ (a.row = 65535 /\ b.row = 0)
    BY <1>5, <2>1, <2>2, <2>3, <2>5, NextRow, SMT
  <2>7. k \in Nat
    BY <1>3, SMT
  <2>8. \/ /\ Clear(t) => Clear(b)
           /\ t.row <= b.row /\ b.row <= t.row + k
        \/ b.row + 65536 <= t.row + k
    <3>1. CASE a.row + 65536 <= t.row + (k - 1)
      <4>1. b.row <= a.row + 1
        BY <2>6, SMT
      <4>2. b.row + 65536 <= t.row + k
        BY <1>4, <2>6, <2>7, <3>1, <4>1, SMT
      <4> QED  BY <4>2
    <3>2. CASE (Clear(t) => Clear(a)) /\ t.row <= a.row /\ a.row <= t.row + (k - 1)
      <4>1. CASE b.row = a.row \/ b.row = a.row + 1
        <5>1. b.row >= a.row /\ t.row <= b.row /\ b.row <= t.row + k
          BY <1>4, <2>6, <2>7, <3>2, <4>1, SMT
        <5> QED  BY <2>5, <3>2, <5>1
      <4>2. CASE a.row = 65535 /\ b.row = 0
        <5>1. b.row + 65536 <= t.row + k
          BY <1>4, <2>7, <3>2, <4>2, SMT
        <5> QED  BY <5>1
      <4> QED  BY <2>6, <4>1, <4>2
    <3> QED  BY <2>3, <3>1, <3>2
  <2> QED  BY <2>2, <2>5, <2>8 DEF Good
<1> HIDE DEF Good
<1>8. bad = {}
  <2> SUFFICES ASSUME bad # {} PROVE FALSE
    OBVIOUS
  <2>1. bad \in SUBSET Nat
    BY <1>3
  <2>2. PICK k \in bad : \A y \in bad : k <= y
    BY <2>1, LeastElement
  <2>3. k \in 0 .. n /\ ~ Good(k) /\ k # 0
    BY <1>6, <2>2
  <2>4. k \in 1 .. n /\ k - 1 \in 0 .. n /\ ~ (k <= k - 1)
    BY <1>3, <2>3
  <2>5. Good(k - 1)
    BY <2>2, <2>4
  <2> QED  BY <1>7, <2>3, <2>4, <2>5
<1>9. Good(n)
  <2>1. n \in 0 .. n
    BY <1>3
  <2> QED  BY <1>8, <2>1
<1>10. /\ Placed(g[n])
       /\ \/ Clear(t) => Clear(g[n])
          \/ g[n].row + 65536 <= t.row + n
  BY <1>9 DEF Good
<1>11. g[n].row \in Nat
  BY <1>5, <1>10
<1>12. n < 65536 /\ g[n].row >= t.row => ~ (g[n].row + 65536 <= t.row + n)
  BY <1>3, <1>4, <1>11, SMT
<1> QED  BY <1>2, <1>3, <1>10, <1>12, SMT

-----------------------------------------------------------------------------
(* Numbers. *)

\* The digits of numbers.
Digit == {DigitCharacter[k] : k \in 1 .. 10}

\* An int that is negated is a number that is not positive.
LEMMA Ints ==
  /\ LeastInt \in Int /\ LeastInt < 0 /\ GreatestInt \in Int
  /\ \A n \in LeastInt .. GreatestInt : n \in Int /\ (n >= 0 => -n \in LeastInt .. 0)
<1>1. PICK m : m = 2147483647
  OBVIOUS
<1>2. m \in Nat /\ LeastInt = -m - 1 /\ GreatestInt = m
  BY <1>1, SMT DEF LeastInt, GreatestInt
<1> QED  BY <1>2, SMT

\* Division rounds toward zero, and the remainder of a number below zero is not
\* positive.
LEMMA QuotientIs ==
  ASSUME NEW n \in Int, n < 0
  PROVE  /\ Quotient(n) \in Int /\ n < Quotient(n) /\ Quotient(n) <= 0
         /\ Remainder(n) \in Int /\ -9 <= Remainder(n) /\ Remainder(n) <= 0
         /\ n = 10 * Quotient(n) + Remainder(n)
<1>1. \A m \in Int : /\ m % 10 \in Int /\ m \div 10 \in Int
                    /\ m = 10 * (m \div 10) + (m % 10)
                    /\ 0 <= m % 10 /\ m % 10 < 10
  BY SMT
<1>2. PICK r : r = n % 10
  OBVIOUS
<1>3. PICK q : q = n \div 10
  OBVIOUS
<1>4. q \in Int /\ r \in Int /\ n = 10 * q + r /\ 0 <= r /\ r < 10
  BY <1>1, <1>2, <1>3, SMT
<1>5. Quotient(n) = (IF r # 0 THEN q + 1 ELSE q) /\ Remainder(n) = (IF r # 0 THEN r - 10 ELSE r)
  BY <1>2, <1>3, SMT DEF Quotient, Remainder
<1> QED  BY <1>4, <1>5, SMT

\* The digits of a number are those of its tenth and one more.
LEMMA DigitsAre ==
  /\ DigitsOf[0] = <<>>
  /\ \A n \in LeastInt .. 0 :
       n < 0 => DigitsOf[n] = Append(DigitsOf[Quotient(n)], DigitCharacter[1 - Remainder(n)])
<1> DEFINE Step(g, n) == IF n = 0 THEN <<>>
                         ELSE Append(g[Quotient(n)], DigitCharacter[1 - Remainder(n)])
           bad == {k \in Nat : ~ \E g : g = [n \in -k .. 0 |-> Step(g, n)]}
<1>1. DigitsOf = CHOOSE g : g = [n \in LeastInt .. 0 |-> Step(g, n)]
  BY DEF DigitsOf
<1>2. \A g, h, n : n # 0 /\ g[Quotient(n)] = h[Quotient(n)] => Step(g, n) = Step(h, n)
  OBVIOUS
<1>3. \A g : Step(g, 0) = <<>>
  OBVIOUS
<1>4. \A g, n : n # 0 => Step(g, n) = Append(g[Quotient(n)], DigitCharacter[1 - Remainder(n)])
  OBVIOUS
<1> HIDE DEF Step
<1>5. bad = {}
  <2> SUFFICES ASSUME bad # {} PROVE FALSE
    OBVIOUS
  <2>1. PICK k \in bad : \A y \in bad : k <= y
    BY LeastElement
  <2>2. k \in Nat /\ ~ \E g : g = [n \in -k .. 0 |-> Step(g, n)]
    BY <2>1
  <2>3. k # 0
    <3> SUFFICES ASSUME k = 0 PROVE FALSE
      OBVIOUS
    <3> DEFINE g == [n \in 0 .. 0 |-> <<>>]
    <3>1. \A n \in 0 .. 0 : Step(g, n) = <<>>
      BY <1>3
    <3>2. g = [n \in 0 .. 0 |-> Step(g, n)]
      BY <3>1
    <3>3. -k .. 0 = 0 .. 0
      OBVIOUS
    <3> QED  BY <2>2, <3>2, <3>3
  <2>4. k - 1 \in Nat /\ k - 1 \notin bad
    <3>1. k - 1 \in Nat /\ ~ (k <= k - 1)
      BY <2>2, <2>3
    <3> QED  BY <2>1, <3>1
  <2>5. PICK g : g = [n \in -(k - 1) .. 0 |-> Step(g, n)]
    BY <2>4
  <2> DEFINE h == [n \in -k .. 0 |-> IF n = -k THEN Step(g, -k) ELSE g[n]]
  <2>6. \A n \in -k .. 0 : n # 0 => Quotient(n) \in -k .. 0 /\ Quotient(n) # -k
    <3> TAKE n \in -k .. 0
    <3> HAVE n # 0
    <3>1. n \in Int /\ n < 0 /\ -k <= n
      BY <2>2
    <3> QED  BY <2>2, <3>1, QuotientIs
  <2>7. \A n \in -k .. 0 : n # 0 => h[Quotient(n)] = g[Quotient(n)]
    BY <2>6
  <2>8. \A n \in -k .. 0 : Step(h, n) = Step(g, n)
    BY <1>2, <1>3, <2>7
  <2>9. \A n \in -k .. 0 : h[n] = Step(g, n)
    <3> TAKE n \in -k .. 0
    <3>1. CASE n = -k
      BY <3>1
    <3>2. CASE n # -k
      <4>1. n \in -(k - 1) .. 0
        BY <2>2, <3>2
      <4> QED  BY <2>5, <3>2, <4>1
    <3> QED  BY <3>1, <3>2
  <2>10. h = [n \in -k .. 0 |-> Step(h, n)]
    <3> HIDE DEF h
    <3>1. h = [n \in -k .. 0 |-> h[n]]
      BY DEF h
    <3> QED  BY <2>8, <2>9, <3>1
  <2> QED  BY <2>2, <2>10
<1>6. \E g : g = [n \in LeastInt .. 0 |-> Step(g, n)]
  <2>1. PICK k \in Nat : k = -LeastInt
    BY Ints
  <2>2. LeastInt = -k
    BY <2>1, Ints
  <2> QED  BY <1>5, <2>2
<1>7. DigitsOf = [n \in LeastInt .. 0 |-> Step(DigitsOf, n)]
  BY <1>1, <1>6
<1>8. \A n \in LeastInt .. 0 : DigitsOf[n] = Step(DigitsOf, n)
  BY <1>7
<1>9. 0 \in LeastInt .. 0
  BY Ints
<1> QED  BY <1>3, <1>4, <1>8, <1>9, Ints

\* The characters of the digits are ten.
LEMMA TenDigits ==
  /\ Len(DigitCharacter) = 10 /\ DigitCharacter[1] = "0"
  /\ \A k, l \in 1 .. 10 : DigitCharacter[k] = DigitCharacter[l] => k = l
  /\ \A k \in 1 .. 10 : DigitCharacter[k] # "-"
  /\ \A c : Contains(DigitCharacter, c) <=> c \in Digit
<1>1. Len(DigitCharacter) = 10 /\ DigitCharacter[1] = "0"
  BY DEF DigitCharacter
<1>2. \A k \in 1 .. 10 : k = 1 \/ k = 2 \/ k = 3 \/ k = 4 \/ k = 5 \/ k = 6 \/ k = 7 \/ k = 8 \/ k = 9 \/ k = 10
  OBVIOUS
<1>3. \A k \in 1 .. 10 : DigitCharacter[k] # "-"
  BY <1>2 DEF DigitCharacter
<1>4. \A k, l \in 1 .. 10 : DigitCharacter[k] = DigitCharacter[l] => k = l
  BY <1>2 DEF DigitCharacter
<1>5. \A c : Contains(DigitCharacter, c) <=> c \in Digit
  BY <1>1 DEF Contains, Digit
<1> QED  BY <1>1, <1>3, <1>4, <1>5

\* A digit is worth its place among them.
LEMMA DigitIsWorth ==
  ASSUME NEW k \in 1 .. 10
  PROVE  DigitValue(DigitCharacter[k]) = k - 1
<1> DEFINE places == {l \in 1 .. Len(DigitCharacter) : DigitCharacter[l] = DigitCharacter[k]}
<1>1. places = {k}
  BY TenDigits
<1>2. SelectInSeq(DigitCharacter, LAMBDA d : d = DigitCharacter[k]) = IF places # {} THEN Min(places) ELSE 0
  BY DEF SelectInSeq
<1>3. Min({k}) = k
  BY DEF Min
<1> QED  BY <1>1, <1>2, <1>3 DEF DigitValue

\* What each prefix of some digits is worth.
Values(digits, minus) ==
  minus = [n \in 0 .. Len(digits) |-> IF n = 0 THEN 0
                                      ELSE 10 * minus[n - 1] - DigitValue(digits[n])]

\* There are such values, for any digits.
LEMMA ValuesExist ==
  ASSUME NEW T, NEW digits \in Seq(T)
  PROVE  \E minus : Values(digits, minus) /\ Minus(digits) = minus[Len(digits)]
<1> DEFINE total == Len(digits)
           Step(g, n) == IF n = 0 THEN 0 ELSE 10 * g[n - 1] - DigitValue(digits[n])
           bad == {k \in Nat : ~ \E g : g = [n \in 0 .. k |-> Step(g, n)]}
<1>1. Minus(digits) = (CHOOSE g : g = [n \in 0 .. total |-> Step(g, n)])[total]
  BY DEF Minus
<1>2. \A g, h, n : n # 0 /\ g[n - 1] = h[n - 1] => Step(g, n) = Step(h, n)
  OBVIOUS
<1>3. \A g : Step(g, 0) = 0
  OBVIOUS
<1>4. total \in Nat
  BY LenProperties
<1>5. \A g : g = [n \in 0 .. total |-> Step(g, n)] => Values(digits, g)
  BY DEF Values
<1> HIDE DEF Step, total
<1>6. bad = {}
  <2> SUFFICES ASSUME bad # {} PROVE FALSE
    OBVIOUS
  <2>1. PICK k \in bad : \A y \in bad : k <= y
    BY LeastElement
  <2>2. k \in Nat /\ ~ \E g : g = [n \in 0 .. k |-> Step(g, n)]
    BY <2>1
  <2>3. k # 0
    <3> SUFFICES ASSUME k = 0 PROVE FALSE
      OBVIOUS
    <3> DEFINE g == [n \in 0 .. 0 |-> 0]
    <3>1. g = [n \in 0 .. 0 |-> Step(g, n)]
      BY <1>3
    <3> QED  BY <2>2, <3>1
  <2>4. k - 1 \in Nat /\ k - 1 \notin bad
    <3>1. k - 1 \in Nat /\ ~ (k <= k - 1)
      BY <2>2, <2>3
    <3> QED  BY <2>1, <3>1
  <2>5. PICK g : g = [n \in 0 .. k - 1 |-> Step(g, n)]
    BY <2>4
  <2> DEFINE h == [n \in 0 .. k |-> IF n = k THEN Step(g, k) ELSE g[n]]
  <2>6. \A n \in 0 .. k - 1 : h[n] = g[n]
    BY <2>2, <2>3
  <2>7. \A n \in 0 .. k : Step(h, n) = Step(g, n)
    BY <1>2, <1>3, <2>2, <2>6
  <2>8. h = [n \in 0 .. k |-> Step(h, n)]
    <3>1. \A n \in 0 .. k : h[n] = Step(g, n)
      BY <2>2, <2>5
    <3> QED  BY <2>7, <3>1
  <2> QED  BY <2>2, <2>8
<1>7. \E g : g = [n \in 0 .. total |-> Step(g, n)]
  BY <1>4, <1>6
<1>8. \E g : g = [n \in 0 .. total |-> Step(g, n)] /\ Minus(digits) = g[total]
  BY <1>1, <1>7
<1> QED  BY <1>5, <1>8 DEF total

\* No digits are worth nothing, and one more digit is worth itself and ten times
\* what stood before it.
LEMMA MinusNothing == Minus(<<>>) = 0
<1>1. <<>> \in Seq({}) /\ Len(<<>>) = 0
  BY EmptySeq
<1>2. PICK minus : Values(<<>>, minus) /\ Minus(<<>>) = minus[0]
  BY <1>1, ValuesExist
<1> QED  BY <1>1, <1>2 DEF Values

LEMMA MinusMore ==
  ASSUME NEW T, NEW digits \in Seq(T), NEW d \in T
  PROVE  Minus(Append(digits, d)) = 10 * Minus(digits) - DigitValue(d)
<1>1. PICK more \in Seq(T), l \in Nat :
        /\ more = Append(digits, d) /\ l = Len(digits) /\ Len(more) = l + 1
        /\ \A n \in 1 .. l : more[n] = digits[n]
        /\ more[l + 1] = d
  <2>1. Len(digits) \in Nat
    BY LenProperties
  <2>2. /\ Append(digits, d) \in Seq(T) /\ Len(Append(digits, d)) = Len(digits) + 1
        /\ \A n \in 1 .. Len(digits) : Append(digits, d)[n] = digits[n]
        /\ Append(digits, d)[Len(digits) + 1] = d
    BY AppendProperties
  <2> QED  BY <2>1, <2>2
<1>2. PICK minus : Values(digits, minus) /\ Minus(digits) = minus[l]
  BY <1>1, ValuesExist
<1>3. PICK longer : Values(more, longer) /\ Minus(more) = longer[l + 1]
  BY <1>1, ValuesExist
<1> DEFINE Further(v, c) == 10 * v - DigitValue(c)
<1>4. \A n \in 0 .. l : minus[n] = IF n = 0 THEN 0 ELSE Further(minus[n - 1], digits[n])
  BY <1>1, <1>2 DEF Values
<1>5. \A n \in 0 .. l + 1 : longer[n] = IF n = 0 THEN 0 ELSE Further(longer[n - 1], more[n])
  BY <1>1, <1>3 DEF Values
<1>6. \A v, c : Further(v, c) = 10 * v - DigitValue(c)
  OBVIOUS
<1> HIDE DEF Further
<1> DEFINE wrong == {n \in 0 .. l : longer[n] # minus[n]}
<1>7. wrong = {}
  <2> SUFFICES ASSUME wrong # {} PROVE FALSE
    OBVIOUS
  <2>1. wrong \in SUBSET Nat
    OBVIOUS
  <2>2. PICK n \in wrong : \A y \in wrong : n <= y
    BY <2>1, LeastElement
  <2>3. n \in 0 .. l /\ n \in 0 .. l + 1 /\ longer[n] # minus[n]
    BY <1>1, <2>2
  <2>4. n # 0
    BY <1>4, <1>5, <2>3
  <2>5. n - 1 \in 0 .. l /\ n - 1 \notin wrong /\ n \in 1 .. l
    BY <1>1, <2>2, <2>3, <2>4
  <2>6. longer[n - 1] = minus[n - 1] /\ more[n] = digits[n]
    BY <1>1, <2>5
  <2> QED  BY <1>4, <1>5, <2>3, <2>4, <2>6
<1>8. longer[l] = minus[l]
  BY <1>1, <1>7
<1>9. longer[l + 1] = Further(longer[l], more[l + 1])
  BY <1>1, <1>5
<1> QED  BY <1>1, <1>2, <1>3, <1>6, <1>8, <1>9

\* What the loop of itoa leaves for a number: digits that are worth it, the first
\* of which is not 0, and none only for 0.
Counted(n) ==
  /\ DigitsOf[n] \in Seq(Digit) /\ Minus(DigitsOf[n]) = n
  /\ n < 0 => DigitsOf[n] # <<>> /\ DigitsOf[n][1] # "0"

LEMMA DigitsCount == \A n \in LeastInt .. 0 : Counted(n)
<1> DEFINE bad == {k \in Nat : -k \in LeastInt .. 0 /\ ~ Counted(-k)}
<1>1. bad = {}
  <2> SUFFICES ASSUME bad # {} PROVE FALSE
    OBVIOUS
  <2>1. PICK k \in bad : \A y \in bad : k <= y
    BY LeastElement
  <2>2. PICK n : n = -k
    OBVIOUS
  <2>3. n \in LeastInt .. 0 /\ n \in Int /\ ~ Counted(n)
    BY <2>1, <2>2, Ints
  <2>4. Counted(0)
    BY DigitsAre, MinusNothing, EmptySeq DEF Counted
  <2>5. n < 0
    BY <2>3, <2>4
  <2>6. PICK q, r : q = Quotient(n) /\ r = Remainder(n)
    OBVIOUS
  <2>7. /\ q \in Int /\ n < q /\ q <= 0 /\ r \in Int /\ -9 <= r /\ r <= 0 /\ n = 10 * q + r
        /\ q \in LeastInt .. 0
    BY <2>3, <2>5, <2>6, QuotientIs, Ints
  <2>8. Counted(q)
    <3>1. -q \in Nat /\ -(-q) = q /\ ~ (k <= -q)
      BY <2>2, <2>7
    <3> QED  BY <2>1, <2>7, <3>1
  <2>9. PICK d : d = DigitCharacter[1 - r]
    OBVIOUS
  <2>10. DigitsOf[n] = Append(DigitsOf[q], d)
    BY <2>3, <2>5, <2>6, <2>9, DigitsAre
  <2>11. 1 - r \in 1 .. 10 /\ d \in Digit
    BY <2>7, <2>9 DEF Digit
  <2>12. DigitValue(d) = 0 - r
    BY <2>7, <2>9, <2>11, DigitIsWorth
  <2>13. DigitsOf[q] \in Seq(Digit) /\ Minus(DigitsOf[q]) = q
    BY <2>8 DEF Counted
  <2>14. Minus(DigitsOf[n]) = n
    BY <2>7, <2>10, <2>11, <2>12, <2>13, MinusMore
  <2>15. /\ DigitsOf[n] \in Seq(Digit) /\ Len(DigitsOf[n]) = Len(DigitsOf[q]) + 1
         /\ \A l \in 1 .. Len(DigitsOf[q]) : DigitsOf[n][l] = DigitsOf[q][l]
         /\ DigitsOf[n][Len(DigitsOf[q]) + 1] = d
         /\ Len(DigitsOf[q]) \in Nat
    BY <2>10, <2>11, <2>13, AppendProperties, LenProperties
  <2>16. DigitsOf[n] # <<>>
    BY <2>15, EmptySeq
  <2>17. DigitsOf[n][1] # "0"
    <3>1. CASE q = 0
      <4>1. DigitsOf[q] = <<>> /\ Len(DigitsOf[q]) = 0
        BY <3>1, DigitsAre, EmptySeq
      <4>2. DigitsOf[n][1] = d
        BY <2>15, <4>1
      <4>3. 1 - r # 1 /\ 1 \in 1 .. 10
        BY <2>5, <2>7, <3>1
      <4> QED  BY <2>9, <2>11, <4>2, <4>3, TenDigits
    <3>2. CASE q # 0
      <4>1. DigitsOf[q] # <<>> /\ DigitsOf[q][1] # "0"
        BY <2>7, <2>8, <3>2 DEF Counted
      <4>2. 1 \in 1 .. Len(DigitsOf[q])
        BY <2>13, <2>15, <4>1, EmptySeq
      <4> QED  BY <2>15, <4>1, <4>2
    <3> QED  BY <3>1, <3>2
  <2> QED  BY <2>3, <2>14, <2>15, <2>16, <2>17 DEF Counted
<1> SUFFICES ASSUME NEW n \in LeastInt .. 0 PROVE Counted(n)
  OBVIOUS
<1>2. -n \in Nat /\ -(-n) = n
  BY Ints
<1> QED  BY <1>1, <1>2

\* Numbers that are closer to 0 than some limit have at most so many digits.
Short(limit, k) ==
  \A n \in LeastInt .. 0 : n > -limit => Len(DigitsOf[n]) <= k

\* One digit more is enough for ten times as many numbers.
LEMMA ShortMore ==
  ASSUME NEW limit \in Nat \ {0}, NEW k \in Nat, Short(limit, k)
  PROVE  Short(10 * limit, k + 1)
<1> SUFFICES ASSUME NEW n \in LeastInt .. 0, n > -(10 * limit)
             PROVE  Len(DigitsOf[n]) <= k + 1
  BY DEF Short
<1>1. CASE n = 0
  BY <1>1, DigitsAre, EmptySeq
<1>2. CASE n # 0
  <2>1. n \in Int /\ n < 0
    BY <1>2, Ints
  <2>2. PICK q, r : q = Quotient(n) /\ r = Remainder(n)
    OBVIOUS
  <2>3. /\ q \in Int /\ n < q /\ q <= 0 /\ r \in Int /\ -9 <= r /\ r <= 0 /\ n = 10 * q + r
        /\ q \in LeastInt .. 0
    BY <2>1, <2>2, QuotientIs, Ints
  <2>4. q > -limit
    BY <2>1, <2>3
  <2>5. Len(DigitsOf[q]) <= k /\ DigitsOf[q] \in Seq(Digit)
    BY <2>3, <2>4, DigitsCount DEF Short, Counted
  <2>6. DigitCharacter[1 - r] \in Digit
    BY <2>3 DEF Digit
  <2>7. Len(DigitsOf[n]) = Len(DigitsOf[q]) + 1 /\ Len(DigitsOf[q]) \in Nat
    BY <2>1, <2>2, <2>5, <2>6, DigitsAre, AppendProperties, LenProperties
  <2> QED  BY <2>5, <2>7
<1> QED  BY <1>1, <1>2

\* An int has at most ten digits.
LEMMA TenAtMost == \A n \in LeastInt .. 0 : Len(DigitsOf[n]) <= 10
<1>1. Short(1, 0)
  <2> SUFFICES ASSUME NEW n \in LeastInt .. 0, n > -1 PROVE Len(DigitsOf[n]) <= 0
    BY DEF Short
  <2>1. n = 0
    BY Ints
  <2> QED  BY <2>1, DigitsAre, EmptySeq
<1>2. Short(10, 1)
  <2>1. 10 * 1 = 10 /\ 0 + 1 = 1 /\ 1 \in Nat \ {0} /\ 0 \in Nat
    OBVIOUS
  <2> QED  BY <1>1, <2>1, ShortMore
<1>3. Short(100, 2)
  <2>1. 10 * 10 = 100 /\ 1 + 1 = 2 /\ 10 \in Nat \ {0} /\ 1 \in Nat
    OBVIOUS
  <2> QED  BY <1>2, <2>1, ShortMore
<1>4. \A limit \in Nat \ {0} : \A k \in Nat : Short(limit, k) => Short(100 * limit, k + 2)
  <2> SUFFICES ASSUME NEW limit \in Nat \ {0}, NEW k \in Nat, Short(limit, k)
               PROVE  Short(100 * limit, k + 2)
    OBVIOUS
  <2>1. Short(10 * limit, k + 1)
    BY ShortMore
  <2>2. PICK more : more = 10 * limit
    OBVIOUS
  <2>3. PICK l : l = k + 1
    OBVIOUS
  <2>4. more \in Nat \ {0} /\ l \in Nat /\ Short(more, l)
    BY <2>1, <2>2, <2>3
  <2>5. Short(10 * more, l + 1)
    BY <2>4, ShortMore
  <2>6. 10 * more = 100 * limit /\ l + 1 = k + 2
    BY <2>2, <2>3
  <2> QED  BY <2>5, <2>6
<1>5. PICK four : four = 100 * 100
  OBVIOUS
<1>6. Short(four, 4) /\ four \in Nat \ {0}
  <2>1. 2 + 2 = 4 /\ 100 \in Nat \ {0} /\ 2 \in Nat
    OBVIOUS
  <2>2. Short(100 * 100, 2 + 2)
    BY <1>3, <1>4, <2>1
  <2> QED  BY <1>5, <2>1, <2>2
<1>7. PICK six : six = 100 * four
  OBVIOUS
<1>8. Short(six, 6) /\ six \in Nat \ {0}
  <2>1. 4 + 2 = 6 /\ 4 \in Nat
    OBVIOUS
  <2>2. Short(100 * four, 4 + 2)
    BY <1>4, <1>6, <2>1
  <2> QED  BY <1>6, <1>7, <2>1, <2>2
<1>9. PICK eight : eight = 100 * six
  OBVIOUS
<1>10. Short(eight, 8) /\ eight \in Nat \ {0}
  <2>1. 6 + 2 = 8 /\ 6 \in Nat
    OBVIOUS
  <2>2. Short(100 * six, 6 + 2)
    BY <1>4, <1>8, <2>1
  <2> QED  BY <1>8, <1>9, <2>1, <2>2
<1>11. PICK ten : ten = 100 * eight
  OBVIOUS
<1>12. Short(ten, 10)
  <2>1. 8 + 2 = 10 /\ 8 \in Nat
    OBVIOUS
  <2>2. Short(100 * eight, 8 + 2)
    BY <1>4, <1>10, <2>1
  <2> QED  BY <1>11, <2>1, <2>2
<1>13. ten \in Nat /\ LeastInt > -ten
  <2>1. four = 10000
    BY <1>5, SMT
  <2>2. six = 1000000
    BY <1>7, <2>1, SMT
  <2>3. eight = 100000000
    BY <1>9, <2>2, SMT
  <2>4. ten = 10000000000
    BY <1>11, <2>3, SMT
  <2>5. PICK least : least = LeastInt
    OBVIOUS
  <2>6. least > -10000000000
    BY <2>5, SMT DEF LeastInt
  <2> QED  BY <2>4, <2>5, <2>6, SMT
<1>14. \A n \in LeastInt .. 0 : n > -ten
  BY <1>13, Ints, SMT
<1> QED  BY <1>12, <1>14, SMT DEF Short

\* Digits alone, and a character in front of them.
LEMMA InFront ==
  ASSUME NEW T, NEW s \in Seq(T), NEW c \in T
  PROVE  /\ <<>> \o s = s
         /\ <<c>> \o s \in Seq(T) /\ Len(<<c>> \o s) = Len(s) + 1 /\ (<<c>> \o s)[1] = c
         /\ \A k \in 1 .. Len(s) : (<<c>> \o s)[k + 1] = s[k]
         /\ Tail(<<c>> \o s) = s
<1>1. <<>> \o s = s
  BY SMT
<1>2. PICK whole : whole = <<c>> \o s
  OBVIOUS
<1>3. /\ whole \in Seq(T) /\ Len(whole) = Len(s) + 1 /\ whole[1] = c /\ Len(s) \in Nat
      /\ \A k \in 1 .. Len(s) : whole[k + 1] = s[k]
  BY <1>2, SMT
<1>4. Tail(whole) = s
  <2>1. whole # <<>>
    BY <1>3, EmptySeq
  <2>2. /\ Tail(whole) \in Seq(T) /\ Len(Tail(whole)) = Len(s)
        /\ \A k \in 1 .. Len(s) : Tail(whole)[k] = whole[k + 1]
    BY <1>3, <2>1, SMT
  <2> QED  BY <1>3, <2>2, SeqEqual
<1> QED  BY <1>1, <1>2, <1>3, <1>4

\* itoa writes every int, down to the least one, as the numeral that is worth it.
LEMMA ItoaIs ==
  ASSUME NEW n \in LeastInt .. GreatestInt
  PROVE  IsNumeral(Itoa(n), n) /\ Itoa(n) \in Seq(Digit \cup {"-"})
<1> DEFINE Sign == Digit \cup {"-"}
<1>1. n \in Int /\ LeastInt \in Int /\ LeastInt < 0
  BY Ints
<1>2. PICK text : text = Itoa(n)
  OBVIOUS
<1>3. \A c \in Digit : c # "-" /\ Contains(DigitCharacter, c)
  BY TenDigits DEF Digit
<1>4. \A s \in Seq(Digit) : s \in Seq(Sign) /\ \A k \in 1 .. Len(s) : s[k] \in Digit
  BY SMT
<1>5. CASE 0 <= n /\ n <= 0
  <2>1. DigitsOf[-n] = <<>> /\ ~ (n < 0) /\ n >= 0
    <3>1. -n \in Int /\ 0 <= -n /\ -n <= 0 /\ ~ (n < 0) /\ n >= 0
      BY <1>1, <1>5
    <3> QED  BY <3>1, DigitsAre
  <2>2. text = <<>> \o <<"0">>
    BY <1>2, <2>1 DEF Itoa
  <2>3. "0" \in Digit /\ <<"0">> \in Seq(Digit) /\ <<>> \in Seq(Digit)
    BY TenDigits, SMT DEF Digit
  <2>4. text = <<"0">> /\ text = Append(<<>>, "0") /\ Len(text) = 1 /\ text[1] = "0"
    BY <2>2, SMT
  <2>5. DigitValue("0") = 0
    <3>1. 1 \in 1 .. 10 /\ DigitCharacter[1] = "0"
      BY TenDigits
    <3> QED  BY <3>1, DigitIsWorth
  <2>6. Minus(text) = 10 * 0 - 0
    BY <2>3, <2>4, <2>5, MinusMore, MinusNothing
  <2>7. Value(text) = n
    <3>1. "0" # "-"
      OBVIOUS
    <3>2. PICK v : v = Minus(text)
      OBVIOUS
    <3>3. v \in Int /\ 0 <= v /\ v <= 0
      BY <2>6, <3>2
    <3>4. Value(text) = -v
      BY <2>4, <3>1, <3>2 DEF Value
    <3> QED  BY <1>1, <1>5, <3>3, <3>4
  <2>8. \A k \in DOMAIN text : Contains(DigitCharacter, text[k])
    BY <1>3, <2>3, <2>4
  <2>9. Len(text) \in 1 .. TextSize - 1
    BY <2>4 DEF TextSize
  <2>10. text[1] # "-"
    BY <2>4
  <2> QED  BY <1>2, <1>4, <2>3, <2>4, <2>7, <2>8, <2>9, <2>10 DEF IsNumeral
<1>6. CASE n > 0
  <2>1. PICK m : m = -n
    OBVIOUS
  <2>2. m \in LeastInt .. 0 /\ m < 0 /\ m \in Int /\ n = -m /\ n >= 0 /\ ~ (n < 0)
    BY <1>1, <1>6, <2>1, Ints
  <2>3. PICK digits : digits = DigitsOf[m]
    OBVIOUS
  <2>4. /\ digits \in Seq(Digit) /\ Minus(digits) = m /\ digits # <<>> /\ digits[1] # "0"
        /\ Len(digits) <= 10
    BY <2>2, <2>3, DigitsCount, TenAtMost DEF Counted
  <2>5. text = <<>> \o digits
    BY <1>2, <2>1, <2>2, <2>3, <2>4 DEF Itoa
  <2>6. text = digits /\ Len(digits) \in Nat /\ DOMAIN digits = 1 .. Len(digits)
    BY <2>4, <2>5, LenProperties, SMT
  <2>7. 1 \in 1 .. Len(digits)
    BY <2>4, <2>6, EmptySeq
  <2>8. text[1] # "-" /\ \A k \in DOMAIN text : Contains(DigitCharacter, text[k])
    BY <1>3, <1>4, <2>4, <2>6, <2>7
  <2>9. Value(text) = n
    BY <2>2, <2>4, <2>6, <2>8 DEF Value
  <2>10. Len(text) \in 1 .. TextSize - 1
    <3>1. Len(text) \in Nat /\ 1 <= Len(text) /\ Len(text) <= 10
      BY <2>4, <2>6, <2>7
    <3>2. \A l \in Nat : 1 <= l /\ l <= 10 => l \in 1 .. TextSize - 1
      BY DEF TextSize
    <3> QED  BY <3>1, <3>2
  <2> QED  BY <1>2, <1>4, <2>4, <2>6, <2>8, <2>9, <2>10 DEF IsNumeral
<1>7. CASE n < 0
  <2>1. n \in LeastInt .. 0 /\ ~ (n >= 0)
    BY <1>1, <1>7
  <2>2. PICK digits : digits = DigitsOf[n]
    OBVIOUS
  <2>3. /\ digits \in Seq(Digit) /\ Minus(digits) = n /\ digits # <<>> /\ digits[1] # "0"
        /\ Len(digits) <= 10
    BY <1>7, <2>1, <2>2, DigitsCount, TenAtMost DEF Counted
  <2>4. text = <<"-">> \o digits
    BY <1>2, <1>7, <2>1, <2>2, <2>3 DEF Itoa
  <2>5. digits \in Seq(Sign) /\ "-" \in Sign
    BY <1>4, <2>3
  <2>6. /\ text \in Seq(Sign) /\ Len(text) = Len(digits) + 1 /\ text[1] = "-"
        /\ \A k \in 1 .. Len(digits) : text[k + 1] = digits[k]
        /\ Tail(text) = digits
    BY <2>4, <2>5, InFront
  <2>7. Len(digits) \in Nat /\ 1 \in 1 .. Len(digits) /\ DOMAIN text = 1 .. Len(digits) + 1
    BY <2>3, <2>6, EmptySeq, LenProperties
  <2>8. Value(text) = n
    BY <2>3, <2>6 DEF Value
  <2>9. \A k \in DOMAIN text : Contains(DigitCharacter, text[k]) \/ (k = 1 /\ text[k] = "-")
    <3> TAKE k \in DOMAIN text
    <3>1. CASE k = 1
      BY <2>6, <3>1
    <3>2. CASE k # 1
      <4>1. k - 1 \in 1 .. Len(digits) /\ (k - 1) + 1 = k
        BY <2>7, <3>2
      <4>2. text[k] = digits[k - 1] /\ digits[k - 1] \in Digit
        BY <1>4, <2>3, <2>6, <4>1
      <4> QED  BY <1>3, <4>2
    <3> QED  BY <3>1, <3>2
  <2>10. text[2] # "0"
    <3>1. text[1 + 1] = digits[1]
      BY <2>6, <2>7
    <3> QED  BY <2>3, <3>1
  <2>11. Len(text) \in 1 .. TextSize - 1
    BY <2>3, <2>6, <2>7 DEF TextSize
  <2>12. text[1] # "0"
    BY <2>6
  <2> QED  BY <1>2, <2>6, <2>8, <2>9, <2>10, <2>11, <2>12 DEF IsNumeral
<1> QED  BY <1>1, <1>5, <1>6, <1>7

-----------------------------------------------------------------------------
(* Formats. *)

\* What has been read of a format after each of its characters.
Reads(format, arguments, read) ==
  /\ read = [n \in 0 .. Len(format) |->
               IF n = 0 THEN [mode |-> "plain", args |-> arguments, pieces |-> <<>>]
               ELSE Read(read[n - 1], format[n])]
  /\ Pieces(format, arguments) = read[Len(format)].pieces

\* Every format can be read.
LEMMA ReadsExist ==
  ASSUME NEW T, NEW format \in Seq(T), NEW arguments
  PROVE  \E read : Reads(format, arguments, read)
<1> DEFINE total == Len(format)
           start == [mode |-> "plain", args |-> arguments, pieces |-> <<>>]
           Step(g, n) == IF n = 0 THEN start ELSE Read(g[n - 1], format[n])
           bad == {k \in Nat : ~ \E g : g = [n \in 0 .. k |-> Step(g, n)]}
<1>1. Pieces(format, arguments) = (CHOOSE g : g = [n \in 0 .. total |-> Step(g, n)])[total].pieces
  BY DEF Pieces
<1>2. \A g, h, n : n # 0 /\ g[n - 1] = h[n - 1] => Step(g, n) = Step(h, n)
  OBVIOUS
<1>3. \A g : Step(g, 0) = start
  OBVIOUS
<1>4. total \in Nat
  BY LenProperties
<1>5. \A g : /\ g = [n \in 0 .. total |-> Step(g, n)]
             /\ Pieces(format, arguments) = g[total].pieces
             => Reads(format, arguments, g)
  BY DEF Reads
<1> HIDE DEF Step, total, start
<1>6. bad = {}
  <2> SUFFICES ASSUME bad # {} PROVE FALSE
    OBVIOUS
  <2>1. PICK k \in bad : \A y \in bad : k <= y
    BY LeastElement
  <2>2. k \in Nat /\ ~ \E g : g = [n \in 0 .. k |-> Step(g, n)]
    BY <2>1
  <2>3. k # 0
    <3> SUFFICES ASSUME k = 0 PROVE FALSE
      OBVIOUS
    <3> DEFINE g == [n \in 0 .. 0 |-> start]
    <3>1. g = [n \in 0 .. 0 |-> Step(g, n)]
      BY <1>3
    <3> QED  BY <2>2, <3>1
  <2>4. k - 1 \in Nat /\ k - 1 \notin bad
    <3>1. k - 1 \in Nat /\ ~ (k <= k - 1)
      BY <2>2, <2>3
    <3> QED  BY <2>1, <3>1
  <2>5. PICK g : g = [n \in 0 .. k - 1 |-> Step(g, n)]
    BY <2>4
  <2> DEFINE h == [n \in 0 .. k |-> IF n = k THEN Step(g, k) ELSE g[n]]
  <2>6. \A n \in 0 .. k - 1 : h[n] = g[n]
    BY <2>2, <2>3
  <2>7. \A n \in 0 .. k : Step(h, n) = Step(g, n)
    BY <1>2, <1>3, <2>2, <2>6
  <2>8. h = [n \in 0 .. k |-> Step(h, n)]
    <3>1. \A n \in 0 .. k : h[n] = Step(g, n)
      BY <2>2, <2>5
    <3> QED  BY <2>7, <3>1
  <2> QED  BY <2>2, <2>8
<1>7. \E g : g = [n \in 0 .. total |-> Step(g, n)]
  BY <1>4, <1>6
<1>8. PICK g : g = [n \in 0 .. total |-> Step(g, n)] /\ Pieces(format, arguments) = g[total].pieces
  BY <1>1, <1>7
<1> QED  BY <1>5, <1>8

\* A percent sign adds nothing; what is behind it, and any other character, adds
\* one piece.
Piece(r, c) ==
  IF r.mode = "percent" /\ c \in {"i", "s"} THEN [kind |-> c, arg |-> Head(r.args)]
  ELSE [kind |-> "s", arg |-> <<c>>]

ReadsOn(r, c, x) ==
  /\ x.mode \in {"plain", "percent"}
  /\ r.mode = "plain" /\ c = "%" =>
       x.mode = "percent" /\ x.args = r.args /\ x.pieces = r.pieces
  /\ ~ (r.mode = "plain" /\ c = "%") =>
       /\ x.mode = "plain" /\ x.pieces = Append(r.pieces, Piece(r, c))
       /\ x.args = IF r.mode = "percent" /\ c \in {"i", "s"} THEN Tail(r.args) ELSE r.args

LEMMA ReadIs ==
  ASSUME NEW r, NEW c, r.mode \in {"plain", "percent"}
  PROVE  ReadsOn(r, c, Read(r, c))
<1>1. CASE r.mode = "plain" /\ c = "%"
  <2>1. Read(r, c) = [mode |-> "percent", args |-> r.args, pieces |-> r.pieces]
    BY <1>1 DEF Read
  <2>2. PICK x : x = Read(r, c)
    OBVIOUS
  <2>3. x.mode = "percent" /\ x.args = r.args /\ x.pieces = r.pieces
    BY <2>1, <2>2
  <2>4. x.mode \in {"plain", "percent"}
    BY <2>3
  <2>5. ReadsOn(r, c, x)
    BY <1>1, <2>3, <2>4 DEF ReadsOn
  <2> QED  BY <2>2, <2>5
<1>2. CASE r.mode = "percent" /\ c \in {"i", "s"}
  <2>1. Read(r, c) = [mode |-> "plain", args |-> Tail(r.args), pieces |-> Append(r.pieces, Piece(r, c))]
    BY <1>2 DEF Read, Piece
  <2> QED  BY <1>2, <2>1 DEF ReadsOn
<1>3. CASE ~ (r.mode = "plain" /\ c = "%") /\ ~ (r.mode = "percent" /\ c \in {"i", "s"})
  <2>1. Read(r, c) = [mode |-> "plain", args |-> r.args, pieces |-> Append(r.pieces, Piece(r, c))]
    BY <1>3 DEF Read, Piece
  <2> QED  BY <1>3, <2>1 DEF ReadsOn
<1> QED  BY <1>1, <1>2, <1>3

\* The pieces that have been read are the first ones of all.
LEMMA ReadsMore ==
  ASSUME NEW T, NEW format \in Seq(T), NEW arguments, NEW read, Reads(format, arguments, read),
         NEW m \in 0 .. Len(format)
  PROVE  /\ read[m].mode \in {"plain", "percent"}
         /\ \E U : read[m].pieces \in Seq(U)
         /\ Len(read[m].pieces) \in Nat
         /\ \A k \in 1 .. Len(read[m].pieces) :
              /\ k \in DOMAIN Pieces(format, arguments)
              /\ Pieces(format, arguments)[k] = read[m].pieces[k]
<1>1. PICK l \in Nat : l = Len(format)
  BY LenProperties
<1>2. /\ read[0] = [mode |-> "plain", args |-> arguments, pieces |-> <<>>]
      /\ \A n \in 1 .. l : read[n] = Read(read[n - 1], format[n])
      /\ Pieces(format, arguments) = read[l].pieces
  <2>1. \A n \in 0 .. l : read[n] = IF n = 0 THEN [mode |-> "plain", args |-> arguments, pieces |-> <<>>]
                                     ELSE Read(read[n - 1], format[n])
    BY <1>1 DEF Reads
  <2>2. Pieces(format, arguments) = read[l].pieces
    BY <1>1 DEF Reads
  <2>3. \A n \in 1 .. l : n \in 0 .. l /\ n # 0
    BY <1>1
  <2>4. \A n \in 1 .. l : read[n] = Read(read[n - 1], format[n])
    BY <2>1, <2>3
  <2>5. read[0] = [mode |-> "plain", args |-> arguments, pieces |-> <<>>]
    <3>1. 0 \in 0 .. l
      BY <1>1
    <3> QED  BY <2>1, <3>1, Zenon
  <2> QED  BY <2>2, <2>4, <2>5, Zenon
<1> DEFINE U == {Piece(read[n - 1], format[n]) : n \in 1 .. l}
           Fine(n) == read[n].mode \in {"plain", "percent"} /\ read[n].pieces \in Seq(U)
           bad == {n \in 0 .. l : ~ Fine(n)}
<1>3. Fine(0)
  <2>1. <<>> \in Seq(U)
    BY EmptySeq
  <2> QED  BY <1>2, <2>1
<1>4. \A n \in 1 .. l : Piece(read[n - 1], format[n]) \in U
  OBVIOUS
<1> HIDE DEF U
<1>5. \A n \in 1 .. l : Fine(n - 1) =>
        /\ Fine(n)
        /\ read[n].pieces = read[n - 1].pieces
           \/ read[n].pieces = Append(read[n - 1].pieces, Piece(read[n - 1], format[n]))
  <2> SUFFICES ASSUME NEW n \in 1 .. l, Fine(n - 1)
               PROVE  /\ Fine(n)
                      /\ read[n].pieces = read[n - 1].pieces
                         \/ read[n].pieces = Append(read[n - 1].pieces, Piece(read[n - 1], format[n]))
    OBVIOUS
  <2>1. PICK r : r = read[n - 1]
    OBVIOUS
  <2>2. PICK c : c = format[n]
    OBVIOUS
  <2>3. read[n] = Read(r, c) /\ r.mode \in {"plain", "percent"} /\ r.pieces \in Seq(U) /\ Piece(r, c) \in U
    BY <1>2, <1>4, <2>1, <2>2
  <2>4. /\ read[n].mode \in {"plain", "percent"}
        /\ read[n].pieces = r.pieces \/ read[n].pieces = Append(r.pieces, Piece(r, c))
    <3>1. ReadsOn(r, c, read[n])
      <4>1. r.mode \in {"plain", "percent"} /\ read[n] = Read(r, c)
        BY <2>3, Zenon
      <4>2. ReadsOn(r, c, Read(r, c))
        BY <4>1, ReadIs
      <4> QED  BY <4>1, <4>2, Zenon
    <3>2. \/ /\ read[n].mode = "percent" /\ read[n].pieces = r.pieces
          \/ /\ read[n].mode = "plain" /\ read[n].pieces = Append(r.pieces, Piece(r, c))
      BY <3>1, Zenon DEF ReadsOn
    <3> QED  BY <3>1, <3>2, Zenon DEF ReadsOn
  <2>5. read[n].pieces \in Seq(U)
    <3>1. PICK old, one : old = r.pieces /\ one = Piece(r, c)
      OBVIOUS
    <3>2. old \in Seq(U) /\ one \in U
      BY <2>3, <3>1, Zenon
    <3>3. Append(old, one) \in Seq(U)
      BY <3>2, AppendProperties
    <3>4. read[n].pieces = old \/ read[n].pieces = Append(old, one)
      BY <2>4, <3>1, Zenon
    <3> QED  BY <3>2, <3>3, <3>4, Zenon
  <2> QED  BY <2>1, <2>2, <2>4, <2>5
<1> HIDE DEF Fine
<1>6. bad = {}
  <2> SUFFICES ASSUME bad # {} PROVE FALSE
    OBVIOUS
  <2>1. bad \in SUBSET Nat
    BY <1>1
  <2>2. PICK k \in bad : \A y \in bad : k <= y
    BY <2>1, LeastElement
  <2>3. k \in 0 .. l /\ ~ Fine(k) /\ k # 0
    BY <1>3, <2>2
  <2>4. k \in 1 .. l /\ k - 1 \in 0 .. l /\ ~ (k <= k - 1)
    BY <1>1, <2>3
  <2>5. Fine(k - 1)
    BY <2>2, <2>4
  <2> QED  BY <1>5, <2>3, <2>4, <2>5
<1>7. \A n \in 0 .. l : Fine(n)
  BY <1>6
<1>8. \A n \in 0 .. l : read[n].pieces \in Seq(U) /\ Len(read[n].pieces) \in Nat
  BY <1>7, LenProperties DEF Fine
<1> DEFINE all == read[l].pieces
           First(n) == \A k \in 1 .. Len(read[n].pieces) : k \in 1 .. Len(all) /\ all[k] = read[n].pieces[k]
           late == {j \in 0 .. l : ~ First(l - j)}
<1>9. First(l - 0)
  BY <1>1
<1>10. \A n \in 1 .. l : First(n) => First(n - 1)
  <2> SUFFICES ASSUME NEW n \in 1 .. l, First(n), NEW k \in 1 .. Len(read[n - 1].pieces)
               PROVE  k \in 1 .. Len(all) /\ all[k] = read[n - 1].pieces[k]
    OBVIOUS
  <2>1. PICK old, new : old = read[n - 1].pieces /\ new = read[n].pieces
    OBVIOUS
  <2>2. old \in Seq(U) /\ Len(old) \in Nat /\ n - 1 \in 0 .. l /\ Fine(n - 1)
    BY <1>1, <1>7, <1>8, <2>1
  <2>3. new = old \/ new = Append(old, Piece(read[n - 1], format[n]))
    BY <1>5, <2>1, <2>2
  <2>4. Piece(read[n - 1], format[n]) \in U /\ k \in 1 .. Len(old)
    BY <1>4, <2>1
  <2>5. k \in 1 .. Len(new) /\ new[k] = old[k]
    BY <2>2, <2>3, <2>4, AppendProperties
  <2> QED  BY <2>1, <2>5
<1> HIDE DEF First, all
<1>11. late = {}
  <2> SUFFICES ASSUME late # {} PROVE FALSE
    OBVIOUS
  <2>1. late \in SUBSET Nat
    BY <1>1
  <2>2. PICK j \in late : \A y \in late : j <= y
    BY <2>1, LeastElement
  <2>3. j \in 0 .. l /\ ~ First(l - j) /\ j # 0
    BY <1>9, <2>2
  <2>4. j - 1 \in 0 .. l /\ ~ (j <= j - 1) /\ l - (j - 1) \in 1 .. l /\ (l - (j - 1)) - 1 = l - j
    BY <1>1, <2>3
  <2>5. First(l - (j - 1))
    BY <2>2, <2>4
  <2> QED  BY <1>10, <2>3, <2>4, <2>5
<1>12. First(m)
  <2>1. l - m \in 0 .. l /\ l - (l - m) = m
    BY <1>1
  <2>2. First(l - (l - m))
    BY <1>11, <2>1
  <2> QED  BY <2>1, <2>2
<1>13. DOMAIN all = 1 .. Len(all)
  <2>1. l \in 0 .. l
    BY <1>1
  <2> QED  BY <1>8, <2>1, LenProperties DEF all
<1>14. m \in 0 .. l
  BY <1>1
<1>15. read[m].mode \in {"plain", "percent"} /\ read[m].pieces \in Seq(U) /\ Len(read[m].pieces) \in Nat
  BY <1>7, <1>8, <1>14 DEF Fine
<1>16. \A k \in 1 .. Len(read[m].pieces) :
         /\ k \in DOMAIN Pieces(format, arguments)
         /\ Pieces(format, arguments)[k] = read[m].pieces[k]
  BY <1>2, <1>12, <1>13 DEF First, all
<1> QED  BY <1>15, <1>16

\* What is put out is made of these.
Glyph == STRING \cup Digit \cup {"-"}

\* Where printf is: what it has put out shows the pieces that are read up to its
\* place, where no percent sign waits, and its arguments are those that reading
\* leaves.
Printed(c, q, rest, texts) ==
  /\ c \in Printfs /\ q \in 1 .. Len(c.fmt) + 1 /\ texts \in Seq(Seq(Glyph))
  /\ \E read : /\ Reads(c.fmt, c.args, read)
               /\ read[q - 1].mode = "plain" /\ rest = read[q - 1].args
               /\ Len(texts) = Len(read[q - 1].pieces)
               /\ \A k \in 1 .. Len(texts) : Shows(texts[k], read[q - 1].pieces[k])

\* What is printed is shorter than the buffer of the command.
LEMMA TextIsShort ==
  ASSUME NEW text \in Text
  PROVE  text \in Seq(Glyph) /\ Len(text) < PrintSize
<1>1. text \in Seq(STRING) /\ Len(text) < PrintSize
  BY DEF Text
<1>2. \A s \in Seq(STRING) : s \in Seq(Glyph)
  BY SMT DEF Glyph
<1> QED  BY <1>1, <1>2

\* A piece is put out when its text shows it and its place is behind those of the
\* pieces before it.
LEMMA PieceIsPut ==
  ASSUME NEW c, NEW q, NEW rest, NEW texts, Printed(c, q, rest, texts), NEW read,
         Reads(c.fmt, c.args, read), Len(texts) = Len(read[q - 1].pieces),
         \A k \in 1 .. Len(texts) : Shows(texts[k], read[q - 1].pieces[k]),
         NEW to \in 2 .. Len(c.fmt) + 1, NEW text, NEW piece,
         read[to - 1].mode = "plain", read[to - 1].pieces = Append(read[q - 1].pieces, piece),
         piece.kind = "i" /\ piece.arg \in LeastInt .. GreatestInt => text = Itoa(piece.arg),
         piece.kind # "i" => text = piece.arg
  PROVE  /\ Printed(c, to, read[to - 1].args, Append(texts, text))
         /\ text \in Seq(Glyph) /\ Len(text) < PrintSize
<1>1. c \in Printfs /\ q \in 1 .. Len(c.fmt) + 1 /\ texts \in Seq(Seq(Glyph))
  BY DEF Printed
<1>2. PICK format, arguments : format = c.fmt /\ arguments = c.args
  OBVIOUS
<1>3. format \in Seq(STRING) /\ Reads(format, arguments, read)
  BY <1>1, <1>2, ShellAssumption
<1>4. PICK l \in Nat : l = Len(format)
  BY <1>3, LenProperties
<1>5. q - 1 \in 0 .. l /\ to - 1 \in 0 .. l
  BY <1>1, <1>2, <1>4
<1>6. PICK old, new : old = read[q - 1].pieces /\ new = read[to - 1].pieces
  OBVIOUS
<1>7. (\E U : old \in Seq(U)) /\ Len(old) \in Nat
  BY <1>3, <1>4, <1>5, <1>6, ReadsMore
<1>8. /\ Len(new) = Len(old) + 1 /\ new[Len(old) + 1] = piece
      /\ \A k \in 1 .. Len(old) : new[k] = old[k]
  <2>1. PICK U : old \in Seq(U)
    BY <1>7
  <2>2. old \in Seq(U \cup {piece}) /\ piece \in U \cup {piece}
    BY <2>1, SMT
  <2>3. new = Append(old, piece)
    BY <1>6
  <2> QED  BY <2>2, <2>3, AppendProperties
<1>9. /\ Len(old) + 1 \in DOMAIN Pieces(format, arguments)
      /\ Pieces(format, arguments)[Len(old) + 1] = piece
  <2>1. \A k \in 1 .. Len(new) :
          k \in DOMAIN Pieces(format, arguments) /\ Pieces(format, arguments)[k] = new[k]
    <3>1. PICK m : m = to - 1
      OBVIOUS
    <3>2. m \in 0 .. Len(format) /\ new = read[m].pieces
      BY <1>4, <1>5, <1>6, <3>1
    <3>3. \A k \in 1 .. Len(read[m].pieces) :
            /\ k \in DOMAIN Pieces(format, arguments)
            /\ Pieces(format, arguments)[k] = read[m].pieces[k]
      BY <1>3, <3>2, ReadsMore
    <3> QED  BY <3>2, <3>3, Zenon
  <2>2. Len(old) + 1 \in 1 .. Len(new)
    BY <1>7, <1>8
  <2> QED  BY <1>8, <2>1, <2>2
<1>10. /\ piece.kind = "i" => piece.arg \in LeastInt .. GreatestInt
       /\ piece.kind # "i" => piece.arg \in Text
  <2>1. \A k \in DOMAIN Pieces(format, arguments) :
          IF Pieces(format, arguments)[k].kind = "i"
          THEN Pieces(format, arguments)[k].arg \in LeastInt .. GreatestInt
          ELSE Pieces(format, arguments)[k].arg \in Text
    BY <1>1, <1>2, ShellAssumption
  <2> QED  BY <1>9, <2>1
<1>11. Shows(text, piece) /\ text \in Seq(Glyph) /\ Len(text) < PrintSize
  <2>1. CASE piece.kind = "i"
    <3>1. piece.arg \in LeastInt .. GreatestInt /\ text = Itoa(piece.arg)
      BY <1>10, <2>1
    <3>2. IsNumeral(text, piece.arg) /\ text \in Seq(Digit \cup {"-"})
      BY <3>1, ItoaIs
    <3>3. \A s \in Seq(Digit \cup {"-"}) : s \in Seq(Glyph)
      BY SMT DEF Glyph
    <3>4. Len(text) < PrintSize
      <4>1. Len(text) \in 1 .. TextSize - 1
        BY <3>2 DEF IsNumeral
      <4>2. \A m \in 1 .. TextSize - 1 : m < PrintSize
        BY DEF TextSize, PrintSize
      <4> QED  BY <4>1, <4>2
    <3> QED  BY <2>1, <3>2, <3>3, <3>4 DEF Shows
  <2>2. CASE piece.kind # "i"
    <3>1. piece.arg \in Text /\ text = piece.arg
      BY <1>10, <2>2
    <3> QED  BY <2>2, <3>1, TextIsShort DEF Shows
  <2> QED  BY <2>1, <2>2
<1>12. PICK more : more = Append(texts, text)
  OBVIOUS
<1>13. /\ more \in Seq(Seq(Glyph)) /\ Len(more) = Len(texts) + 1 /\ more[Len(texts) + 1] = text
       /\ \A k \in 1 .. Len(texts) : more[k] = texts[k]
  BY <1>1, <1>11, <1>12, AppendProperties
<1>14. Len(texts) = Len(old) /\ \A k \in 1 .. Len(old) : Shows(texts[k], old[k])
  BY <1>6
<1>15. \A k \in 1 .. Len(more) : Shows(more[k], new[k])
  <2> TAKE k \in 1 .. Len(more)
  <2>1. CASE k = Len(old) + 1
    BY <1>8, <1>11, <1>13, <1>14, <2>1
  <2>2. CASE k # Len(old) + 1
    <3>1. k \in 1 .. Len(old)
      BY <1>7, <1>13, <1>14, <2>2
    <3> QED  BY <1>8, <1>13, <1>14, <3>1
  <2> QED  BY <2>1, <2>2
<1>16. Len(more) = Len(new)
  BY <1>8, <1>13, <1>14
<1>17. Printed(c, to, read[to - 1].args, more)
  <2>1. to \in 1 .. Len(c.fmt) + 1
    BY <1>2, <1>4
  <2> QED  BY <1>1, <1>6, <1>13, <1>15, <1>16, <2>1 DEF Printed
<1> QED  BY <1>11, <1>12, <1>17

\* One round of the loop of printf puts out the next piece.
LEMMA RoundIs ==
  ASSUME NEW c, NEW q, NEW rest, NEW texts, Printed(c, q, rest, texts), q <= Len(c.fmt),
         NEW round, round = PrintfRound(c.fmt, q, rest)
  PROVE  /\ Printed(c, round.p, round.args, Append(texts, round.text))
         /\ round.text \in Seq(Glyph) /\ Len(round.text) < PrintSize
<1>1. c \in Printfs /\ q \in 1 .. Len(c.fmt) + 1
  BY DEF Printed
<1>2. c.fmt \in Seq(STRING) /\ (c.fmt # <<>> => Last(c.fmt) # "%")
  BY <1>1, ShellAssumption
<1>3. PICK l \in Nat : l = Len(c.fmt)
  BY <1>2, LenProperties
<1>4. q \in 1 .. l
  BY <1>1, <1>3
<1>5. PICK read : /\ Reads(c.fmt, c.args, read)
                  /\ read[q - 1].mode = "plain" /\ rest = read[q - 1].args
                  /\ Len(texts) = Len(read[q - 1].pieces)
                  /\ \A k \in 1 .. Len(texts) : Shows(texts[k], read[q - 1].pieces[k])
  BY DEF Printed
<1>6. \A n \in 1 .. l : read[n] = Read(read[n - 1], c.fmt[n])
  <2>1. \A n \in 0 .. l : read[n] = IF n = 0 THEN [mode |-> "plain", args |-> c.args, pieces |-> <<>>]
                                     ELSE Read(read[n - 1], c.fmt[n])
    BY <1>3, <1>5 DEF Reads
  <2>2. \A n \in 1 .. l : n \in 0 .. l /\ n # 0
    BY <1>3
  <2> QED  BY <2>1, <2>2
<1>7. PICK before : before = read[q - 1]
  OBVIOUS
<1>8. PICK at : at = read[q]
  OBVIOUS
<1>9. /\ before.mode = "plain" /\ rest = before.args
      /\ ReadsOn(before, c.fmt[q], at)
  BY <1>4, <1>5, <1>6, <1>7, <1>8, ReadIs
<1>10. CASE c.fmt[q] # "%"
  <2>1. PICK piece : piece = Piece(before, c.fmt[q])
    OBVIOUS
  <2>2. piece.kind = "s" /\ piece.arg = <<c.fmt[q]>>
    BY <1>9, <2>1 DEF Piece
  <2>3. at.mode = "plain" /\ at.pieces = Append(before.pieces, piece) /\ at.args = rest
    BY <1>9, <1>10, <2>1 DEF ReadsOn
  <2>4. round.text = <<c.fmt[q]>> /\ round.p = q + 1 /\ round.args = rest
    <3>1. round = [text |-> <<c.fmt[q]>>, p |-> q + 1, args |-> rest]
      BY <1>10 DEF PrintfRound
    <3> QED  BY <3>1
  <2>5. PICK to, text : to = round.p /\ text = round.text
    OBVIOUS
  <2>6. to \in 2 .. Len(c.fmt) + 1 /\ to - 1 = q
    BY <1>3, <1>4, <2>4, <2>5
  <2>7. /\ read[to - 1].mode = "plain" /\ read[to - 1].pieces = Append(read[q - 1].pieces, piece)
        /\ read[to - 1].args = rest
    BY <1>7, <1>8, <2>3, <2>6
  <2>8. piece.kind # "i" /\ text = piece.arg
    BY <2>2, <2>4, <2>5
  <2>9. /\ Printed(c, to, read[to - 1].args, Append(texts, text))
        /\ text \in Seq(Glyph) /\ Len(text) < PrintSize
    BY <1>5, <2>6, <2>7, <2>8, PieceIsPut
  <2> QED  BY <2>4, <2>5, <2>7, <2>9
<1>11. CASE c.fmt[q] = "%"
  <2>1. q # l
    <3>1. c.fmt # <<>>
      BY <1>2, <1>3, <1>4, EmptySeq
    <3> QED  BY <1>2, <1>3, <1>11, <3>1 DEF Last
  <2>2. q + 1 \in 1 .. l /\ (q + 1) - 1 = q
    BY <1>4, <2>1
  <2>3. at.mode = "percent" /\ at.args = rest /\ at.pieces = before.pieces
    BY <1>9, <1>11 DEF ReadsOn
  <2>4. PICK behind, char : behind = read[q + 1] /\ char = c.fmt[q + 1]
    OBVIOUS
  <2>5. ReadsOn(at, char, behind)
    <3>1. behind = Read(at, char)
      BY <1>6, <1>8, <2>2, <2>4
    <3> QED  BY <2>3, <3>1, ReadIs
  <2>6. PICK piece : piece = Piece(at, char)
    OBVIOUS
  <2>7. behind.mode = "plain" /\ behind.pieces = Append(before.pieces, piece)
    BY <2>3, <2>5, <2>6 DEF ReadsOn
  <2>8. /\ char \in {"i", "s"} => /\ piece.kind = char /\ piece.arg = Head(rest)
                                 /\ behind.args = Tail(rest)
        /\ char \notin {"i", "s"} => /\ piece.kind = "s" /\ piece.arg = <<char>>
                                    /\ behind.args = rest
    BY <2>3, <2>5, <2>6 DEF Piece, ReadsOn
  <2>9. /\ round.p = q + 2
        /\ char = "i" => round.text = Itoa(Head(rest)) /\ round.args = Tail(rest)
        /\ char = "s" => round.text = Head(rest) /\ round.args = Tail(rest)
        /\ char \notin {"i", "s"} => round.text = <<char>> /\ round.args = rest
    <3>1. CASE char = "i"
      <4>1. round = [text |-> Itoa(Head(rest)), p |-> q + 2, args |-> Tail(rest)]
        BY <1>11, <2>4, <3>1 DEF PrintfRound
      <4> QED  BY <3>1, <4>1
    <3>2. CASE char = "s"
      <4>1. round = [text |-> Head(rest), p |-> q + 2, args |-> Tail(rest)]
        BY <1>11, <2>4, <3>2 DEF PrintfRound
      <4> QED  BY <3>2, <4>1
    <3>3. CASE char \notin {"i", "s"}
      <4>1. round = [text |-> <<char>>, p |-> q + 2, args |-> rest]
        BY <1>11, <2>4, <3>3 DEF PrintfRound
      <4> QED  BY <3>3, <4>1
    <3> QED  BY <3>1, <3>2, <3>3
  <2>10. PICK to, text : to = round.p /\ text = round.text
    OBVIOUS
  <2>11. to \in 2 .. Len(c.fmt) + 1 /\ to - 1 = q + 1
    BY <1>3, <1>4, <2>2, <2>9, <2>10
  <2>12. /\ read[to - 1].mode = "plain" /\ read[to - 1].pieces = Append(read[q - 1].pieces, piece)
         /\ read[to - 1].args = round.args
    BY <1>7, <2>4, <2>7, <2>8, <2>9, <2>11
  <2>13. /\ piece.kind = "i" => text = Itoa(piece.arg)
         /\ piece.kind # "i" => text = piece.arg
    BY <2>8, <2>9, <2>10
  <2>14. /\ Printed(c, to, read[to - 1].args, Append(texts, text))
         /\ text \in Seq(Glyph) /\ Len(text) < PrintSize
    BY <1>5, <2>11, <2>12, <2>13, PieceIsPut
  <2> QED  BY <2>10, <2>12, <2>14
<1> QED  BY <1>10, <1>11

-----------------------------------------------------------------------------
(* The other program. *)

\* The inductive invariant of printf: what was put out is what the format stands
\* for up to the place.
PrintInv == fmt = called.fmt /\ Printed(called, p, ap, put)

\* printf begins in front of its format.
LEMMA PrintStart == Init => PrintInv
<1> SUFFICES ASSUME Init PROVE PrintInv
  OBVIOUS
<1>1. called \in Printfs /\ fmt = called.fmt /\ p = 1 /\ ap = called.args /\ put = <<>>
  BY DEF Init
<1>2. called.fmt \in Seq(STRING)
  BY <1>1, ShellAssumption
<1>3. PICK l \in Nat : l = Len(called.fmt)
  BY <1>2, LenProperties
<1>4. PICK read : Reads(called.fmt, called.args, read)
  BY <1>2, ReadsExist
<1>5. read[0] = [mode |-> "plain", args |-> called.args, pieces |-> <<>>]
  <2>1. \A n \in 0 .. l : read[n] = IF n = 0 THEN [mode |-> "plain", args |-> called.args, pieces |-> <<>>]
                                     ELSE Read(read[n - 1], called.fmt[n])
    BY <1>3, <1>4 DEF Reads
  <2>2. 0 \in 0 .. l
    BY <1>3
  <2> QED  BY <2>1, <2>2
<1>6. p \in 1 .. Len(called.fmt) + 1 /\ p - 1 = 0
  BY <1>1, <1>3
<1>7. put \in Seq(Seq(Glyph)) /\ Len(put) = 0
  BY <1>1, EmptySeq
<1>8. /\ read[p - 1].mode = "plain" /\ ap = read[p - 1].args /\ Len(read[p - 1].pieces) = 0
  BY <1>1, <1>5, <1>6, EmptySeq
<1>9. \A k \in 1 .. Len(put) : Shows(put[k], read[p - 1].pieces[k])
  BY <1>7
<1>10. Printed(called, p, ap, put)
  BY <1>1, <1>4, <1>6, <1>7, <1>8, <1>9 DEF Printed
<1> QED  BY <1>1, <1>10 DEF PrintInv

\* Only the other program moves it, by the next piece.
LEMMA PrintStays == PrintInv /\ [Next]_vars => PrintInv'
<1> SUFFICES ASSUME PrintInv, [Next]_vars PROVE PrintInv'
  OBVIOUS
<1>1. CASE OtherPrints
  <2>1. PICK round : round = PrintfRound(fmt, p, ap)
    OBVIOUS
  <2>2. /\ p <= Len(fmt) /\ p' = round.p /\ ap' = round.args /\ put' = Append(put, round.text)
        /\ fmt' = fmt /\ called' = called
    BY <1>1, <2>1 DEF OtherPrints
  <2>3. fmt = called.fmt /\ Printed(called, p, ap, put)
    BY DEF PrintInv
  <2>4. Printed(called, round.p, round.args, Append(put, round.text))
    BY <2>1, <2>2, <2>3, RoundIs
  <2>5. Printed(called, p', ap', put')
    BY <2>2, <2>4, Zenon
  <2>6. fmt' = called' .fmt /\ Printed(called', p', ap', put')
    BY <2>2, <2>3, <2>5
  <2> QED  BY <2>6 DEF PrintInv
<1>2. CASE UNCHANGED other
  <2>1. fmt' = fmt /\ p' = p /\ ap' = ap /\ called' = called /\ put' = put
    BY <1>2 DEF other
  <2>2. fmt = called.fmt /\ Printed(called, p, ap, put)
    BY DEF PrintInv
  <2>3. Printed(called', p', ap', put') /\ fmt' = called' .fmt
    BY <2>1, <2>2
  <2> QED  BY <2>3 DEF PrintInv
<1>3. OtherPrints \/ UNCHANGED other
  BY DEF Next, vars, Prompt, GetKey, Echo, EndOfLine, SystemRun, NextArgument, System
<1> QED  BY <1>1, <1>2, <1>3

LEMMA PrintInvariant == Spec => []PrintInv
BY PrintStart, PrintStays, PTL DEF Spec

\* What printf has put out at its end is what its format stands for, whatever the
\* shell does in between.
THEOREM PrintfCorrect == Spec => []PrintfPrints
<1>1. PrintInv => PrintfPrints
  <2> SUFFICES ASSUME PrintInv, p > Len(fmt)
               PROVE  /\ Len(put) = Len(Pieces(called.fmt, called.args))
                      /\ \A k \in DOMAIN put : Shows(put[k], Pieces(called.fmt, called.args)[k])
    BY DEF PrintfPrints
  <2>1. /\ called \in Printfs /\ p \in 1 .. Len(called.fmt) + 1 /\ fmt = called.fmt
        /\ put \in Seq(Seq(Glyph))
    BY DEF PrintInv, Printed
  <2>2. PICK read : /\ Reads(called.fmt, called.args, read)
                    /\ Len(put) = Len(read[p - 1].pieces)
                    /\ \A k \in 1 .. Len(put) : Shows(put[k], read[p - 1].pieces[k])
    BY DEF PrintInv, Printed
  <2>3. called.fmt \in Seq(STRING)
    BY <2>1, ShellAssumption
  <2>4. PICK l \in Nat : l = Len(called.fmt)
    BY <2>3, LenProperties
  <2>5. p - 1 = Len(called.fmt)
    <3>1. p > l /\ p \in 1 .. l + 1
      BY <2>1, <2>4
    <3> QED  BY <2>4, <3>1
  <2>6. read[p - 1].pieces = Pieces(called.fmt, called.args)
    BY <2>2, <2>5 DEF Reads
  <2>7. DOMAIN put = 1 .. Len(put)
    BY <2>1, LenProperties
  <2> QED  BY <2>2, <2>6, <2>7
<1> QED  BY <1>1, PrintInvariant, PTL
-----------------------------------------------------------------------------
(* The screen. *)

\* Where the shell reads a line.
Reading == {"reading", "echo", "entered"}

\* The characters that count as shown are of the line, and none counts while the
\* column is not one of the screen.
PlaceInv ==
  /\ Placed(terminal) /\ shown \in 0 .. i
  /\ pc \in Reading /\ terminal.col >= VGA_WIDTH => shown = 0

\* The inductive invariant of the screen: also while a key waits to be echoed the
\* screen is clear behind the cursor and shows the end of the line in front.
ScreenInv ==
  /\ Clear(terminal)
  /\ pc \in Reading => \A k \in 1 .. shown : Cell(terminal, Cursor(terminal) - k) = out[i - k]

\* What printing a text of any kind does.
LEMMA TextPrints ==
  ASSUME NEW t, Placed(t), NEW T, NEW str \in Seq(T), Len(str) < PrintSize
  PROVE  /\ Placed(Prints(t, str))
         /\ Clear(t) /\ t.row <= Prints(t, str).row => Clear(Prints(t, str))
<1>1. PICK r : r = Prints(t, str)
  OBVIOUS
<1>2. t.row \in Nat
  BY SMT DEF Placed
<1>3. Placed(r)
  BY <1>1, PrintsIs, SMT
<1>4. r.row \in Nat
  BY <1>3, SMT DEF Placed
<1>5. PICK l \in Nat : l = Len(str)
  BY LenProperties
<1>6. l < 65536
  BY <1>5, SMT DEF PrintSize
<1>7. Clear(t) /\ r.row >= t.row => Clear(r)
  BY <1>1, <1>5, <1>6, PrintsIs, SMT
<1> QED  BY <1>1, <1>2, <1>3, <1>4, <1>7, SMT

\* The end of a line as a text.
LEMMA NewlineIs == <<Newline>> \in Seq({Newline}) /\ Len(<<Newline>>) < PrintSize
BY SMT DEF PrintSize

LEMMA PromptIs == PromptText \in Seq(STRING) /\ Len(PromptText) < PrintSize
BY ShellAssumption DEF Text

\* No typed key is the end of a line.
LEMMA TypedKeys == Newline \notin Typed
BY ShellAssumption DEF Typed, Newline, Blank, Backspace

\* A backspace takes the last character of the line away where it stands on the
\* screen, or all of them are out of reach.
LEMMA BackspaceShown ==
  ASSUME NEW t, Placed(t), NEW n \in Nat, NEW s \in 1 .. n, NEW buffer,
         t.col \in 1 .. VGA_WIDTH - 1,
         \A k \in 1 .. s : Cell(t, Cursor(t) - k) = buffer[n - k]
  PROVE  /\ Erase(t).col < VGA_WIDTH
         /\ \A k \in 1 .. s - 1 : Cell(Erase(t), Cursor(Erase(t)) - k) = buffer[(n - 1) - k]
<1>1. PICK r : r = Erase(t)
  OBVIOUS
<1>2. /\ t.col \in Nat /\ t.row \in Nat /\ 1 <= t.col /\ t.col <= VGA_WIDTH - 1
      /\ t.row * VGA_WIDTH \in Nat /\ VGA_WIDTH \in Nat
  BY Screen, SMT DEF Placed
<1>3. r.row = t.row /\ r.col = t.col - 1
  BY <1>1, EraseIs, SMT
<1>4. \A x : Cell(r, x) = IF x = Cursor(t) - 1 THEN Blank ELSE Cell(t, x)
  BY <1>1, <1>2, EraseIs, SMT
<1>5. Cursor(r) = Cursor(t) - 1 /\ Cursor(t) \in Nat
  BY <1>2, <1>3, SMT DEF Cursor
<1>6. ASSUME NEW k \in 1 .. s - 1
      PROVE  Cell(r, Cursor(r) - k) = buffer[(n - 1) - k]
  <2>1. PICK l : l = k + 1
    OBVIOUS
  <2>2. /\ l \in 1 .. s /\ Cursor(r) - k = Cursor(t) - l /\ (n - 1) - k = n - l
        /\ Cursor(t) - l # Cursor(t) - 1
    BY <1>5, <1>6, <2>1, SMT
  <2>3. Cell(r, Cursor(t) - l) = Cell(t, Cursor(t) - l)
    BY <1>4, <2>2
  <2>4. Cell(t, Cursor(t) - l) = buffer[n - l]
    BY <2>2
  <2> QED  BY <2>2, <2>3, <2>4
<1>7. r.col < VGA_WIDTH
  BY <1>2, <1>3, SMT
<1> QED  BY <1>1, <1>6, <1>7

\* A character becomes the last one of those that stand in front of the cursor,
\* also across the edge of a row.
LEMMA CharacterShown ==
  ASSUME NEW t, Placed(t), NEW n \in Nat, NEW s \in 0 .. n, NEW buffer, NEW c,
         t.col < VGA_WIDTH, t.row <= Put(t, c).row,
         \A k \in 1 .. s : Cell(t, Cursor(t) - k) = buffer[n - k]
  PROVE  /\ Cell(Put(t, c), Cursor(Put(t, c)) - 1) = c
         /\ \A k \in 2 .. s + 1 : Cell(Put(t, c), Cursor(Put(t, c)) - k) = buffer[(n + 1) - k]
<1>1. PICK r : r = Put(t, c)
  OBVIOUS
<1>2. /\ t.col \in Nat /\ t.row \in Nat /\ t.row < 65536
      /\ t.row * VGA_WIDTH \in Nat /\ VGA_WIDTH \in Nat
      /\ (t.row + 1) * VGA_WIDTH = t.row * VGA_WIDTH + VGA_WIDTH
  BY Screen, SMT DEF Placed
<1>3. /\ t.col < VGA_WIDTH - 1 => r.row = t.row /\ r.col = t.col + 1
      /\ t.col = VGA_WIDTH - 1 => r.row = Uint16(t.row + 1) /\ r.col = 0
  BY <1>1, PutIs, SMT
<1>4. \A x : Cell(r, x) = IF x = Cursor(t) THEN c ELSE Cell(t, x)
  BY <1>1, PutIs, SMT
<1>5. Cursor(t) \in Nat /\ Cursor(t) = t.row * VGA_WIDTH + t.col
  BY <1>2, SMT DEF Cursor
<1>6. Cursor(r) = Cursor(t) + 1
  <2>1. CASE t.col < VGA_WIDTH - 1
    BY <1>2, <1>3, <1>5, <2>1, SMT DEF Cursor
  <2>2. CASE t.col = VGA_WIDTH - 1
    <3>1. r.row = t.row + 1 /\ r.col = 0
      <4>1. r.row = Uint16(t.row + 1) /\ r.col = 0 /\ t.row <= r.row
        BY <1>1, <1>3, <2>2
      <4>2. Uint16(t.row + 1) = t.row + 1 \/ (t.row = 65535 /\ Uint16(t.row + 1) = 0)
        BY <1>2, NextRow, SMT
      <4> QED  BY <4>1, <4>2, SMT
    <3>2. Cursor(r) = t.row * VGA_WIDTH + VGA_WIDTH
      BY <1>2, <3>1, SMT DEF Cursor
    <3> QED  BY <1>2, <1>5, <2>2, <3>2, SMT
  <2> QED  BY <1>2, <2>1, <2>2, SMT
<1>7. Cell(r, Cursor(r) - 1) = c
  <2>1. Cursor(r) - 1 = Cursor(t)
    BY <1>5, <1>6, SMT
  <2> QED  BY <1>4, <2>1
<1>8. ASSUME NEW k \in 2 .. s + 1
      PROVE  Cell(r, Cursor(r) - k) = buffer[(n + 1) - k]
  <2>1. PICK l : l = k - 1
    OBVIOUS
  <2>2. /\ l \in 1 .. s /\ Cursor(r) - k = Cursor(t) - l /\ (n + 1) - k = n - l
        /\ Cursor(t) - l # Cursor(t)
    BY <1>5, <1>6, <1>8, <2>1, SMT
  <2>3. Cell(r, Cursor(t) - l) = Cell(t, Cursor(t) - l)
    BY <1>4, <2>2
  <2>4. Cell(t, Cursor(t) - l) = buffer[n - l]
    BY <2>2
  <2> QED  BY <2>2, <2>3, <2>4
<1> QED  BY <1>1, <1>7, <1>8

\* One key echoed and stored, on the screen and in the buffer.
LEMMA EchoShown ==
  ASSUME LineInv, PlaceInv, Echo
  PROVE  /\ PlaceInv'
         /\ ScreenInv /\ terminal.row <= terminal'.row => ScreenInv'
<1>1. /\ i \in Nat /\ i < LineSize - 1 /\ LineSize \in Nat
      /\ out \in [0 .. LineSize - 1 -> Character] /\ key \in Typed /\ pc = "echo"
  BY Characters DEF LineInv, Echo
<1>2. PICK before \in Seq(Typed) : Holds(out, i, Edited(before))
  BY DEF LineInv, Echo
<1>3. /\ Placed(terminal) /\ shown \in Nat /\ shown <= i
      /\ terminal.col >= VGA_WIDTH => shown = 0
  BY <1>1 DEF PlaceInv, Reading
<1>4. terminal.col \in Nat /\ terminal.row \in Nat /\ VGA_WIDTH \in Nat
  BY <1>3, Screen, SMT DEF Placed
<1>5. PICK edited : edited = Edit(out, i, key)
  OBVIOUS
<1>6. edited.out \in [0 .. LineSize - 1 -> Character] /\ edited.i \in 0 .. LineSize - 1
  BY <1>1, <1>2, <1>5, EditHolds
<1>7. /\ i' = edited.i /\ shown' = ShownAfter(key) /\ pc' \in {"entered", "reading"}
      /\ \/ out' = edited.out
         \/ out' = [edited.out EXCEPT ![edited.i] = NUL]
      /\ terminal' = Writechar(terminal, key)
  BY <1>5, Zenon DEF Echo
<1>8. \A k : k \in 0 .. LineSize - 1 /\ k # edited.i => out'[k] = edited.out[k]
  BY <1>6, <1>7
<1>9. Placed(terminal') /\ (Clear(terminal) /\ terminal.row <= terminal'.row => Clear(terminal'))
  <2>1. PICK r : r = Writechar(terminal, key)
    OBVIOUS
  <2>2. Placed(r) /\ (Clear(terminal) /\ r.row >= terminal.row => Clear(r))
    BY <1>3, <2>1, WriteIs
  <2>3. r.row \in Nat
    BY <2>2, SMT DEF Placed
  <2>4. terminal.row <= r.row => r.row >= terminal.row
    BY <1>4, <2>3, SMT
  <2> QED  BY <1>7, <2>1, <2>2, <2>4
<1> DEFINE Fronted(s, t, b, n) == \A k \in 1 .. s : Cell(t, Cursor(t) - k) = b[n - k]
<1>10. SUFFICES /\ shown' \in 0 .. i'
                /\ terminal'.col >= VGA_WIDTH => shown' = 0
                /\ Fronted(shown, terminal, out, i) /\ terminal.row <= terminal'.row
                     => Fronted(shown', terminal', out', i')
  BY <1>1, <1>9 DEF PlaceInv, ScreenInv, Reading
<1>11. CASE shown' = 0
  BY <1>6, <1>7, <1>11, SMT
<1>12. CASE shown' # 0 /\ key = Backspace
  <2>1. /\ shown # 0 /\ terminal.col \in 1 .. VGA_WIDTH /\ shown' = shown - 1
    BY <1>7, <1>12 DEF ShownAfter
  <2>2. terminal.col \in 1 .. VGA_WIDTH - 1 /\ shown \in 1 .. i /\ i >= 1
    BY <1>1, <1>3, <1>4, <2>1, SMT
  <2>3. terminal' = Erase(terminal)
    BY <1>7, <1>12 DEF Writechar, Newline, Backspace
  <2>4. edited.out = [out EXCEPT ![i - 1] = NUL] /\ edited.i = i - 1
    BY <1>5, <1>12, <2>2 DEF Edit
  <2>5. terminal'.col < VGA_WIDTH
    <3>1. terminal.row \in Nat /\ Erase(terminal).col = terminal.col - 1
      BY <1>3, <1>4, <2>2, EraseIs, SMT
    <3> QED  BY <1>4, <2>2, <2>3, <3>1, SMT
  <2>6. ~ (terminal'.col >= VGA_WIDTH)
    BY <1>4, <1>9, <2>5, SMT DEF Placed
  <2>7. ASSUME Fronted(shown, terminal, out, i)
        PROVE  Fronted(shown', terminal', out', i')
    <3>1. \A k \in 1 .. shown - 1 :
            Cell(Erase(terminal), Cursor(Erase(terminal)) - k) = out[(i - 1) - k]
      BY <1>1, <1>3, <2>2, <2>7, BackspaceShown
    <3>2. ASSUME NEW k \in 1 .. shown - 1
          PROVE  out'[(i - 1) - k] = out[(i - 1) - k]
      <4>1. /\ (i - 1) - k \in 0 .. LineSize - 1 /\ (i - 1) - k # i - 1
        BY <1>1, <1>3, <3>2, SMT
      <4> QED  BY <1>1, <1>8, <2>4, <4>1
    <3> QED  BY <1>7, <2>1, <2>3, <2>4, <3>1, <3>2
  <2>8. shown' \in 0 .. i'
    BY <1>1, <1>3, <1>7, <2>1, <2>2, <2>4, SMT
  <2> QED  BY <2>6, <2>7, <2>8
<1>13. CASE shown' # 0 /\ key # Backspace
  <2>1. ~ (terminal.col >= VGA_WIDTH) /\ shown' = shown + 1
    BY <1>7, <1>13 DEF ShownAfter
  <2>2. terminal.col < VGA_WIDTH /\ shown \in 0 .. i
    BY <1>1, <1>3, <1>4, <2>1, SMT
  <2>3. terminal' = Put(terminal, key)
    <3>1. key # Newline
      BY <1>1, TypedKeys
    <3> QED  BY <1>7, <1>13, <3>1 DEF Writechar
  <2>4. edited.out = [out EXCEPT ![i] = key] /\ edited.i = i + 1
    BY <1>5, <1>13 DEF Edit
  <2>5. ~ (terminal'.col >= VGA_WIDTH)
    <3>1. /\ terminal.col < VGA_WIDTH - 1 => Put(terminal, key).col = terminal.col + 1
          /\ terminal.col = VGA_WIDTH - 1 => Put(terminal, key).col = 0
      BY <1>3, PutIs, SMT
    <3>2. terminal.col < VGA_WIDTH - 1 \/ terminal.col = VGA_WIDTH - 1
      BY <1>4, <2>2, SMT
    <3>3. VGA_WIDTH >= 2
      BY Screen, SMT
    <3> QED  BY <1>4, <2>3, <3>1, <3>2, <3>3, SMT
  <2>6. ASSUME Fronted(shown, terminal, out, i), terminal.row <= terminal'.row
        PROVE  Fronted(shown', terminal', out', i')
    <3>1. /\ Cell(terminal', Cursor(terminal') - 1) = key
          /\ \A k \in 2 .. shown + 1 :
               Cell(terminal', Cursor(terminal') - k) = out[(i + 1) - k]
      BY <1>1, <1>3, <2>2, <2>3, <2>6, CharacterShown
    <3>2. ASSUME NEW k \in 2 .. shown + 1
          PROVE  out'[(i + 1) - k] = out[(i + 1) - k]
      <4>1. (i + 1) - k \in 0 .. LineSize - 1 /\ (i + 1) - k # i /\ (i + 1) - k # i + 1
        BY <1>1, <1>3, <3>2, SMT
      <4> QED  BY <1>1, <1>8, <2>4, <4>1
    <3>3. out'[(i + 1) - 1] = key
      <4>1. i \in 0 .. LineSize - 1 /\ (i + 1) - 1 = i /\ i # i + 1
        BY <1>1, SMT
      <4> QED  BY <1>1, <1>8, <2>4, <4>1
    <3>4. ASSUME NEW k \in 1 .. shown + 1
          PROVE  Cell(terminal', Cursor(terminal') - k) = out'[(i + 1) - k]
      <4>1. CASE k = 1
        BY <3>1, <3>3, <4>1
      <4>2. CASE k # 1
        <5>1. k \in 2 .. shown + 1
          BY <1>3, <3>4, <4>2, SMT
        <5> QED  BY <3>1, <3>2, <5>1
      <4> QED  BY <4>1, <4>2
    <3> QED  BY <1>7, <2>1, <2>4, <3>4
  <2>7. shown' \in 0 .. i'
    BY <1>1, <1>3, <1>7, <2>1, <2>4, SMT
  <2> QED  BY <2>5, <2>6, <2>7
<1> QED  BY <1>11, <1>12, <1>13

\* The other steps print a text in front of which no character of the line counts,
\* or leave the screen and the line alone.
LEMMA OtherShown ==
  ASSUME LineInv, PlaceInv, PrintInv, [Next]_vars, ~ Echo
  PROVE  /\ PlaceInv'
         /\ ScreenInv /\ terminal.row <= terminal'.row => ScreenInv'
<1>1. Placed(terminal) /\ shown \in 0 .. i /\ i \in Nat /\ 0 \in 0 .. i
  BY Characters DEF PlaceInv, LineInv
<1>2. ASSUME NEW T, NEW str \in Seq(T), Len(str) < PrintSize, terminal' = Prints(terminal, str)
      PROVE  /\ Placed(terminal')
             /\ Clear(terminal) /\ terminal.row <= terminal'.row => Clear(terminal')
  BY <1>1, <1>2, TextPrints
<1>3. ASSUME shown' = 0, i' \in Nat, Placed(terminal'),
             Clear(terminal) /\ terminal.row <= terminal'.row => Clear(terminal')
      PROVE  /\ PlaceInv'
             /\ ScreenInv /\ terminal.row <= terminal'.row => ScreenInv'
  <2>1. shown' \in 0 .. i' /\ \A k \in 1 .. shown' : FALSE
    BY <1>3, SMT
  <2> QED  BY <1>3, <2>1 DEF PlaceInv, ScreenInv
<1>4. CASE Prompt
  <2>1. terminal' = Prints(terminal, PromptText) /\ shown' = 0 /\ i' = 0
    BY <1>4 DEF Prompt
  <2> QED  BY <1>2, <1>3, <2>1, PromptIs
<1>5. CASE OtherPrints
  <2>1. PICK round : round = PrintfRound(fmt, p, ap)
    OBVIOUS
  <2>2. /\ p <= Len(fmt) /\ terminal' = Prints(terminal, round.text) /\ shown' = 0 /\ i' = i
    BY <1>5, <2>1 DEF OtherPrints
  <2>3. round.text \in Seq(Glyph) /\ Len(round.text) < PrintSize
    <3>1. fmt = called.fmt /\ Printed(called, p, ap, put)
      BY DEF PrintInv
    <3> QED  BY <2>1, <2>2, <3>1, RoundIs
  <2> QED  BY <1>1, <1>2, <1>3, <2>2, <2>3
<1>6. CASE EndOfLine
  <2>1. /\ terminal' = Prints(terminal, <<Newline>>) /\ shown' = shown /\ i' = i
        /\ pc' = "prompt"
    BY <1>6 DEF EndOfLine, line
  <2>2. /\ Placed(terminal')
        /\ Clear(terminal) /\ terminal.row <= terminal'.row => Clear(terminal')
    BY <1>2, <2>1, NewlineIs
  <2>3. pc' \notin Reading
    BY <2>1 DEF Reading
  <2> QED  BY <1>1, <2>1, <2>2, <2>3 DEF PlaceInv, ScreenInv
<1>7. CASE GetKey
  <2>1. /\ pc = "reading" /\ terminal' = terminal /\ shown' = shown /\ i' = i
        /\ out' = out \/ out' = [out EXCEPT ![i] = NUL]
    BY <1>7 DEF GetKey
  <2>2. out \in [0 .. LineSize - 1 -> Character] /\ i \in 0 .. LineSize - 1
    BY DEF LineInv
  <2>3. \A k \in 1 .. shown : out'[i - k] = out[i - k]
    <3> TAKE k \in 1 .. shown
    <3>1. i - k # i /\ i - k \in 0 .. LineSize - 1
      BY <1>1, <2>2, Characters
    <3> QED  BY <2>1, <2>2, <3>1
  <2>4. PlaceInv'
    BY <1>1, <2>1 DEF PlaceInv, Reading
  <2>5. ScreenInv => ScreenInv'
    BY <2>1, <2>3 DEF ScreenInv, Reading
  <2> QED  BY <2>4, <2>5
<1>8. CASE SystemRun \/ NextArgument \/ System \/ UNCHANGED vars
  <2>1. /\ terminal' = terminal /\ shown' = shown /\ i' = i /\ out' = out
        /\ pc' = pc \/ pc' \notin Reading
    BY <1>8 DEF SystemRun, NextArgument, System, vars, line, Reading
  <2>2. PlaceInv'
    BY <1>1, <2>1 DEF PlaceInv
  <2>3. ScreenInv => ScreenInv'
    BY <2>1 DEF ScreenInv
  <2> QED  BY <2>2, <2>3
<1> QED  BY <1>4, <1>5, <1>6, <1>7, <1>8 DEF Next

\* In the beginning the screen is blank.
LEMMA ScreenStart == Init => PlaceInv /\ ScreenInv
<1> SUFFICES ASSUME Init PROVE PlaceInv /\ ScreenInv
  OBVIOUS
<1>1. PICK start \in 0 .. VGA_WIDTH - 1 : terminal = [TerminalInitialize EXCEPT !.col = start]
  BY DEF Init
<1>2. shown = 0 /\ i = 0
  BY DEF Init
<1>3. terminal = [row |-> 0, col |-> start,
                  video |-> [c \in 0 .. VGA_WIDTH * VGA_HEIGHT - 1 |-> Blank]]
  BY <1>1 DEF TerminalInitialize
<1>4. start \in Nat /\ start < VGA_WIDTH /\ VGA_WIDTH \in Nat /\ VGA_WIDTH * VGA_HEIGHT \in Nat
  BY Screen, SMT
<1>5. Placed(terminal)
  BY <1>3, <1>4, SMT DEF Placed
<1>6. Clear(terminal)
  BY <1>3, <1>4, SMT DEF Clear, Cell
<1> QED  BY <1>2, <1>4, <1>5, <1>6, SMT DEF PlaceInv, ScreenInv

LEMMA PlaceStays == LineInv /\ PrintInv /\ PlaceInv /\ [Next]_vars => PlaceInv'
BY EchoShown, OtherShown

LEMMA ScreenStays ==
  LineInv /\ PrintInv /\ PlaceInv /\ ScreenInv
    /\ [Next]_vars /\ [terminal.row <= terminal'.row]_vars => ScreenInv'
<1> SUFFICES ASSUME LineInv, PrintInv, PlaceInv, ScreenInv, [Next]_vars,
                    [terminal.row <= terminal'.row]_vars
             PROVE  ScreenInv'
  OBVIOUS
<1>1. terminal.row <= terminal'.row
  <2>1. terminal.row \in Nat
    BY SMT DEF PlaceInv, Placed
  <2>2. terminal.row <= terminal.row
    BY <2>1, SMT
  <2>3. CASE terminal.row <= terminal'.row
    BY <2>3
  <2>4. CASE UNCHANGED vars
    BY <2>2, <2>4 DEF vars
  <2> QED  BY <2>3, <2>4
<1> QED  BY <1>1, EchoShown, OtherShown

LEMMA PlaceInvariant == Spec => []PlaceInv
BY LineInvariant, PrintInvariant, ScreenStart, PlaceStays, PTL DEF Spec

\* Until the rows begin again at 0, the end of the line stands in front of the
\* cursor and nothing that was taken back behind it, whatever the screen, the
\* line and what another program prints in between.
THEOREM ScreenCorrect ==
  Spec /\ [][terminal.row <= terminal'.row]_vars => []ScreenShowsLine
<1>1. PlaceInv /\ ScreenInv => ScreenShowsLine
  <2> SUFFICES ASSUME PlaceInv, ScreenInv, pc \in {"reading", "entered"}
               PROVE  /\ \A k \in 1 .. shown : Cell(terminal, Cursor(terminal) - k) = out[i - k]
                      /\ \A c \in Cursor(terminal) .. VGA_WIDTH * VGA_HEIGHT - 1 :
                           Cell(terminal, c) = Blank
    BY DEF ScreenShowsLine
  <2>1. Placed(terminal) /\ Clear(terminal)
    BY DEF PlaceInv, ScreenInv
  <2>2. terminal.col \in Nat /\ VGA_WIDTH \in Nat /\ Behind(terminal) \in Nat
        /\ Cursor(terminal) \in Nat /\ Behind(terminal) <= Cursor(terminal)
    <3>1. /\ terminal.row * VGA_WIDTH \in Nat /\ Behind(terminal) \in Nat
          /\ Cursor(terminal) \in Nat
          /\ terminal.col < VGA_WIDTH => Behind(terminal) = Cursor(terminal)
          /\ terminal.col >= VGA_WIDTH => /\ Behind(terminal) = terminal.row * VGA_WIDTH
                                          /\ Cursor(terminal) = terminal.row * VGA_WIDTH + 65535
      BY <2>1, BehindIs, SMT
    <3>2. terminal.col \in Nat /\ VGA_WIDTH \in Nat
      BY <2>1, Screen, SMT DEF Placed
    <3> QED  BY <3>1, <3>2, SMT
  <2>3. \A c \in Cursor(terminal) .. VGA_WIDTH * VGA_HEIGHT - 1 :
          c \in Behind(terminal) .. VGA_WIDTH * VGA_HEIGHT - 1
    BY <2>2, Screen, SMT
  <2> QED  BY <2>1, <2>3 DEF ScreenInv, Reading, Clear
<1> QED  BY <1>1, LineInvariant, PrintInvariant, PlaceInvariant, ScreenStart, ScreenStays, PTL
         DEF Spec
-----------------------------------------------------------------------------
(* Types. *)

\* The least one of some natural numbers is one of them.
LEMMA MinOf ==
  ASSUME NEW S \in SUBSET Nat, S # {}
  PROVE  Min(S) \in S
<1>1. PICK n \in S : \A k \in S : n <= k
  BY LeastElement
<1> QED  BY <1>1, MinIs

\* The last place of the parser's array holds a NUL that nothing overwrites, so
\* that strtok finds an end wherever it goes on, also in a line that was left.
EndInv ==
  /\ pc \in {"prompt", "reading", "echo", "entered", "first", "next", "system", "ran"}
  /\ scommand \in [0 .. LineSize -> Character] /\ scommand[LineSize] = NUL
  /\ sp \in 0 .. LineSize \cup {NULL}
  /\ allocations \in 0 .. MaxAllocations

\* strtok stays in an array that ends with a NUL.
LEMMA StrtokStays ==
  ASSUME NEW mem \in [0 .. LineSize -> Character], mem[LineSize] = NUL,
         NEW at \in 0 .. LineSize \cup {NULL}, NEW given
  PROVE  LET r == Strtok(mem, at, given)
         IN  /\ r.mem \in [0 .. LineSize -> Character] /\ r.mem[LineSize] = NUL
             /\ r.sp \in 0 .. LineSize \cup {NULL}
<1>1. PICK r : r = Strtok(mem, at, given)
  OBVIOUS
<1>2. LineSize \in Nat /\ NUL \in Character /\ NUL # Delimiter
  BY Characters DEF NUL, Delimiter
<1>3. PICK from : from = IF at = NULL THEN 0 ELSE at
  OBVIOUS
<1>4. from \in 0 .. LineSize
  BY <1>2, <1>3
<1>5. PICK start : start = FirstNotFrom(mem, from, {Delimiter})
  OBVIOUS
<1>6. PICK end : end = FirstFrom(mem, start, {Delimiter, NUL})
  OBVIOUS
<1>7. start \in 0 .. LineSize
  <2> DEFINE S == {k \in DOMAIN mem : k >= from /\ mem[k] \notin {Delimiter}}
  <2>1. LineSize \in S /\ S \in SUBSET Nat
    BY <1>2, <1>4
  <2>2. Min(S) \in S
    BY <2>1, MinOf
  <2> QED  BY <1>5, <2>2 DEF FirstNotFrom
<1>8. end \in 0 .. LineSize
  <2> DEFINE S == {k \in DOMAIN mem : k >= start /\ mem[k] \in {Delimiter, NUL}}
  <2>1. LineSize \in S /\ S \in SUBSET Nat
    BY <1>2, <1>7
  <2>2. Min(S) \in S
    BY <2>1, MinOf
  <2> QED  BY <1>6, <2>2 DEF FirstFrom
<1>9. \/ r.mem = mem /\ r.sp = NULL
      \/ r.mem = [mem EXCEPT ![end] = NUL] /\ r.sp = IF mem[end] = NUL THEN end ELSE end + 1
  <2>1. CASE at = NULL /\ ~ given
    <3>1. r = [mem |-> mem, sp |-> NULL, token |-> <<>>]
      BY <1>1, <2>1 DEF Strtok
    <3> QED  BY <3>1
  <2>2. CASE ~ (at = NULL /\ ~ given) /\ mem[start] = NUL
    <3>1. r = [mem |-> mem, sp |-> NULL, token |-> <<>>]
      BY <1>1, <1>3, <1>5, <2>2 DEF Strtok
    <3> QED  BY <3>1
  <2>3. CASE ~ (at = NULL /\ ~ given) /\ mem[start] # NUL
    <3>1. r = [mem |-> [mem EXCEPT ![end] = NUL],
               sp |-> IF mem[end] = NUL THEN end ELSE end + 1,
               token |-> Between(mem, start, end)]
      BY <1>1, <1>3, <1>5, <1>6, <2>3 DEF Strtok
    <3> QED  BY <3>1
  <2> QED  BY <2>1, <2>2, <2>3
<1>10. mem[end] # NUL => end + 1 \in 0 .. LineSize
  BY <1>2, <1>8
<1>11. r.mem \in [0 .. LineSize -> Character] /\ r.mem[LineSize] = NUL
  <2>1. CASE r.mem = mem
    BY <2>1, Zenon
  <2>2. CASE r.mem = [mem EXCEPT ![end] = NUL]
    <3>1. LineSize \in 0 .. LineSize
      BY <1>2
    <3>2. [mem EXCEPT ![end] = NUL] \in [0 .. LineSize -> Character]
      BY <1>2, <1>8
    <3>3. [mem EXCEPT ![end] = NUL][LineSize] = NUL
      BY <1>2, <1>8, <3>1
    <3> QED  BY <2>2, <3>2, <3>3, Zenon
  <2> QED  BY <1>9, <2>1, <2>2, Zenon
<1>12. r.sp \in 0 .. LineSize \cup {NULL}
  BY <1>8, <1>9, <1>10
<1> QED  BY <1>1, <1>11, <1>12, Zenon

\* strncpy leaves what is behind a line that is shorter than the array.
LEMMA StrncpyEnd ==
  ASSUME NEW dest, DOMAIN dest = 0 .. LineSize,
         NEW text \in Seq(Typed), Len(text) < LineSize
  PROVE  Strncpy(dest, text, LineSize + 1)[LineSize] = dest[LineSize]
<1>1. PICK l \in Nat : l = Len(text) /\ l < LineSize /\ LineSize \in Nat
  BY LenProperties, Characters
<1>2. Copied(text, LineSize + 1) = l
  <2>1. {Len(text), (LineSize + 1) - 1} = {l, LineSize}
    BY <1>1
  <2>2. Min({l, LineSize}) = l
    <3>1. {l, LineSize} \in SUBSET Int /\ l \in {l, LineSize} /\ \A k \in {l, LineSize} : l <= k
      BY <1>1
    <3> QED  BY <3>1, MinIs
  <2> QED  BY <2>1, <2>2 DEF Copied
<1>3. LineSize \in DOMAIN dest /\ ~ (LineSize < l) /\ LineSize # l
  BY <1>1
<1>4. Strncpy(dest, text, LineSize + 1)[LineSize] = CopyAt(dest, text, l, LineSize)
  BY <1>2, <1>3, StrncpyAt
<1> QED  BY <1>3, <1>4 DEF CopyAt

\* Nothing is allocated in the beginning.
LEMMA EndStart == Init => EndInv
<1> SUFFICES ASSUME Init PROVE EndInv
  OBVIOUS
<1>1. /\ pc = "prompt" /\ scommand = [k \in 0 .. LineSize |-> NUL] /\ sp = NULL
      /\ allocations = 0
  BY DEF Init
<1>2. MaxAllocations \in Nat
  BY ShellAssumption
<1> QED  BY <1>1, <1>2, Characters DEF EndInv

\* Every step keeps it.
LEMMA EndStays == LineInv /\ EndInv /\ [Next]_vars => EndInv'
<1> SUFFICES ASSUME LineInv, EndInv, [Next]_vars PROVE EndInv'
  OBVIOUS
<1>1. /\ scommand \in [0 .. LineSize -> Character] /\ scommand[LineSize] = NUL
      /\ sp \in 0 .. LineSize \cup {NULL} /\ allocations \in 0 .. MaxAllocations
      /\ MaxAllocations \in Nat
  BY ShellAssumption DEF EndInv
<1>2. CASE SystemRun
  <2>1. /\ pc = "entered" /\ pc' = "first" /\ UNCHANGED <<sp, allocations>>
        /\ scommand' = Strncpy(scommand, Contents(out), LineSize + 1)
    BY <1>2 DEF SystemRun
  <2>2. PICK text : text = Contents(out) /\ text \in Seq(Typed) /\ Len(text) < LineSize
    BY <2>1, TextIs DEF Handed
  <2>3. DOMAIN scommand = 0 .. LineSize /\ \A k \in 0 .. LineSize : scommand[k] \in Character
    BY <1>1
  <2>4. /\ Strncpy(scommand, text, LineSize + 1) \in [0 .. LineSize -> Character]
        /\ Strncpy(scommand, text, LineSize + 1)[LineSize] = NUL
    BY <1>1, <2>2, <2>3, StrncpyIs, StrncpyEnd
  <2> QED  BY <1>1, <2>1, <2>2, <2>4 DEF EndInv
<1>3. CASE NextArgument
  <2>1. PICK r : r = Strtok(scommand, sp, pc = "first")
    OBVIOUS
  <2>2. /\ scommand' = r.mem /\ sp' = r.sp /\ pc' \in {"system", "next"}
        /\ \/ allocations' = allocations
           \/ allocations < MaxAllocations /\ allocations' = allocations + 1
    BY <1>3, <2>1 DEF NextArgument
  <2>3. /\ r.mem \in [0 .. LineSize -> Character] /\ r.mem[LineSize] = NUL
        /\ r.sp \in 0 .. LineSize \cup {NULL}
    BY <1>1, <2>1, StrtokStays
  <2>4. allocations' \in 0 .. MaxAllocations
    BY <1>1, <2>2
  <2> QED  BY <2>2, <2>3, <2>4 DEF EndInv
<1>4. CASE Prompt \/ GetKey \/ Echo \/ EndOfLine \/ System \/ OtherPrints \/ UNCHANGED vars
  <2>1. UNCHANGED <<scommand, sp, allocations>>
    BY <1>4 DEF Prompt, GetKey, Echo, EndOfLine, System, OtherPrints, vars, parse
  <2>2. pc' = pc \/ pc' \in {"prompt", "reading", "echo", "entered", "ran"}
    BY <1>4 DEF Prompt, GetKey, Echo, EndOfLine, System, OtherPrints, vars
  <2> QED  BY <2>1, <2>2 DEF EndInv
<1> QED  BY <1>2, <1>3, <1>4 DEF Next

\* The types: the place of the cursor is a pair of unsigned 16-bit numbers, the
\* index of readline stays in its buffer, and strtok in its array.
THEOREM ShellTyping == Spec => []TypeOK
<1>1. LineInv /\ PlaceInv /\ EndInv => TypeOK
  <2> SUFFICES ASSUME LineInv, PlaceInv, EndInv PROVE TypeOK
    OBVIOUS
  <2>1. /\ terminal.row \in Nat /\ terminal.row < 65536
        /\ terminal.col \in Nat /\ terminal.col < 65536
    <3>1. /\ terminal.row \in Nat /\ terminal.row < 65536
          /\ terminal.col \in Nat /\ (terminal.col < VGA_WIDTH \/ terminal.col = 65535)
      BY SMT DEF PlaceInv, Placed
    <3>2. VGA_WIDTH \in Nat /\ VGA_WIDTH <= 65535
      BY Screen, SMT
    <3> QED  BY <3>1, <3>2, SMT
  <2>2. pc \in {"prompt", "reading", "echo", "entered", "first", "next", "system", "ran"}
    BY Zenon DEF EndInv
  <2>3. /\ key \in Key /\ i \in 0 .. LineSize - 1 /\ out \in [0 .. LineSize - 1 -> Character]
        /\ shown \in 0 .. i
    BY Zenon DEF LineInv, PlaceInv
  <2>4. /\ scommand \in [0 .. LineSize -> Character] /\ sp \in 0 .. LineSize \cup {NULL}
        /\ allocations \in 0 .. MaxAllocations
    BY Zenon DEF EndInv
  <2> QED  BY <2>1, <2>2, <2>3, <2>4, SMT DEF TypeOK
<1>2. Spec => []EndInv
  BY LineInvariant, EndStart, EndStays, PTL DEF Spec
<1> QED  BY <1>1, <1>2, LineInvariant, PlaceInvariant, PTL
=============================================================================
