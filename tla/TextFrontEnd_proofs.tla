--------------------------- MODULE TextFrontEnd_proofs ---------------------------
(***************************************************************************)
(* The five lists of JPCommonLabel stay nested whatever words and marks are *)
(* pushed, and what JPCommonLabel_make follows is there.  The word that is  *)
(* being pushed is in the list of words, with its moras, before it is in an *)
(* accent phrase; so the invariant speaks of the words joined so far.       *)
(*                                                                         *)
(* And kana: what create_kana writes can be read, and text_to_accent_phrase *)
(* reads each character once, forwards.                                     *)
(*                                                                         *)
(* And that the lists say the utterance: JpcommonLabel implements           *)
(* Utterance, by an invariant that knows what was heard of the word being   *)
(* pushed.                                                                 *)
(***************************************************************************)
EXTENDS JpcommonLabel, KanaConverter, LeastElements, TLAPS

-----------------------------------------------------------------------------
(* One list over another: upper covers the first n elements of lower.       *)
Level(upper, lower, n) ==
  /\ \A k \in 1..Len(upper) : /\ upper[k].head \in Nat /\ upper[k].tail \in Nat
                              /\ 1 <= upper[k].head /\ upper[k].tail <= n
  /\ Tiles(upper, n) /\ Parents(upper, lower)
  /\ \A x \in 1..n : lower[x].up \in 1..Len(upper)

SameBounds(upper, new) ==
  \A k \in 1..Len(upper) : new[k].head = upper[k].head /\ new[k].tail = upper[k].tail
SameUps(lower, low, n) == \A x \in 1..n : low[x].up = lower[x].up

\* The last element covers one more, or a new one does.
Longer(upper, new, t) ==
  /\ Len(new) = Len(upper)
  /\ \A k \in 1..Len(upper) :
       new[k].head = upper[k].head /\ new[k].tail = IF k = Len(upper) THEN t ELSE upper[k].tail
Opened(upper, new, t) ==
  /\ Len(new) = Len(upper) + 1 /\ SameBounds(upper, new)
  /\ new[Len(new)].head = t /\ new[Len(new)].tail = t

LEMMA Listed ==
  ASSUME NEW S, NEW q \in Seq(S)
  PROVE  /\ Len(q) \in Nat /\ DOMAIN q = 1..Len(q)
         /\ q = <<>> <=> Len(q) = 0
OBVIOUS

LEMMA LevelSame ==
  ASSUME NEW S, NEW T, NEW upper \in Seq(S), NEW new \in Seq(T), NEW lower, NEW low,
         NEW n \in Nat, Level(upper, lower, n),
         Len(new) = Len(upper), SameBounds(upper, new), SameUps(lower, low, n)
  PROVE  Level(new, low, n)
<1>1. /\ Len(upper) \in Nat /\ DOMAIN upper = 1..Len(upper) /\ DOMAIN new = 1..Len(upper)
      /\ upper = <<>> <=> Len(upper) = 0
      /\ new = <<>> <=> Len(upper) = 0
  BY Listed
<1>2. \A k \in 1..Len(upper) :
        /\ new[k].head = upper[k].head /\ new[k].tail = upper[k].tail
        /\ upper[k].head \in Nat /\ upper[k].tail \in Nat
        /\ 1 <= upper[k].head /\ upper[k].tail <= n
  BY DEF Level, SameBounds
<1>3. Tiles(new, n)
  <2>1. upper # <<>> => 1 \in 1..Len(upper) /\ Len(upper) \in 1..Len(upper)
    BY <1>1
  <2>2. \A k \in 1..Len(upper) - 1 : k \in 1..Len(upper) /\ k + 1 \in 1..Len(upper)
    BY <1>1
  <2> QED BY <1>1, <1>2, <2>1, <2>2 DEF Level, Tiles
<1>4. Parents(new, low)
  <2> SUFFICES ASSUME NEW k \in 1..Len(upper), NEW x \in upper[k].head..upper[k].tail
               PROVE  low[x].up = k
    BY <1>1, <1>2 DEF Parents
  <2>1. x \in 1..n
    BY <1>2
  <2> QED BY <1>1, <2>1 DEF Level, Parents, SameUps
<1> QED BY <1>2, <1>3, <1>4 DEF Level, SameUps

LEMMA LevelLonger ==
  ASSUME NEW S, NEW T, NEW upper \in Seq(S), NEW new \in Seq(T), NEW lower, NEW low,
         NEW n \in Nat, Level(upper, lower, n), upper # <<>>, Longer(upper, new, n + 1),
         SameUps(lower, low, n), low[n + 1].up = Len(upper)
  PROVE  Level(new, low, n + 1)
<1>0. PICK L : L = Len(upper)
  OBVIOUS
<1>1. /\ L \in Nat \ {0} /\ DOMAIN upper = 1..L /\ DOMAIN new = 1..L
      /\ new # <<>> /\ Len(new) = L /\ 1 \in 1..L /\ L \in 1..L
  BY <1>0, Listed DEF Longer
<1>2. \A k \in 1..L :
        /\ new[k].head = upper[k].head
        /\ new[k].tail = IF k = L THEN n + 1 ELSE upper[k].tail
        /\ upper[k].head \in Nat /\ upper[k].tail \in Nat
        /\ 1 <= upper[k].head /\ upper[k].tail <= n /\ upper[k].head <= upper[k].tail
  BY <1>0, <1>1, ZenonT(60) DEF Level, Longer, Tiles
<1>3. /\ upper[1].head = 1 /\ upper[L].tail = n
      /\ \A k \in 1..L - 1 : upper[k + 1].head = upper[k].tail + 1
  BY <1>0 DEF Level, Tiles
<1>4. Tiles(new, n + 1)
  <2>1. new[1].head = 1 /\ new[L].tail = n + 1
    <3>1. new[1].head = upper[1].head /\ new[L].tail = n + 1
      BY <1>1, <1>2
    <3> QED BY <1>3, <3>1
  <2>2. \A k \in 1..L : new[k].head <= new[k].tail
    <3> SUFFICES ASSUME NEW k \in 1..L PROVE new[k].head <= new[k].tail
      OBVIOUS
    <3>1. /\ new[k].head = upper[k].head /\ upper[k].head \in Nat /\ upper[k].tail \in Nat
          /\ upper[k].tail <= n /\ upper[k].head <= upper[k].tail
      BY <1>2
    <3>2. new[k].tail = upper[k].tail \/ new[k].tail = n + 1
      BY <1>2
    <3> QED BY <3>1, <3>2
  <2>3. ASSUME NEW k \in 1..L - 1 PROVE new[k + 1].head = new[k].tail + 1
    <3>1. k \in 1..L /\ k + 1 \in 1..L /\ k # L
      BY <1>1
    <3>2. /\ new[k + 1].head = upper[k + 1].head /\ new[k].tail = upper[k].tail
          /\ upper[k + 1].head = upper[k].tail + 1
      BY <1>2, <1>3, <3>1
    <3> QED BY <3>2
  <2> QED BY <1>1, <2>1, <2>2, <2>3 DEF Tiles
<1>5. ASSUME NEW k \in 1..L, NEW x \in new[k].head..new[k].tail PROVE low[x].up = k
  <2>1. CASE k = L /\ x = n + 1
    BY <1>0, <2>1
  <2>2. CASE ~(k = L /\ x = n + 1)
    <3>1. x \in upper[k].head..upper[k].tail /\ x \in 1..n
      <4>1. CASE k # L
        BY <1>2, <4>1, SMTT(30)
      <4>2. CASE k = L
        <5>1. /\ new[L].head = upper[L].head /\ new[L].tail = n + 1 /\ upper[L].tail = n
              /\ upper[L].head \in Nat /\ 1 <= upper[L].head
          BY <1>1, <1>2, <1>3
        <5>2. x \in upper[L].head..n + 1 /\ x # n + 1
          BY <2>2, <4>2, <5>1
        <5> QED BY <4>2, <5>1, <5>2
      <4> QED BY <4>1, <4>2
    <3> QED BY <1>1, <3>1 DEF Level, Parents, SameUps
  <2> QED BY <2>1, <2>2
<1>6. \A x \in 1..n + 1 : low[x].up \in 1..L
  <2>1. \A x \in 1..n + 1 : x \in 1..n \/ x = n + 1
    OBVIOUS
  <2> QED BY <1>0, <1>1, <2>1 DEF Level, SameUps
<1>7. \A k \in 1..L : /\ new[k].head \in Nat /\ new[k].tail \in Nat
                      /\ 1 <= new[k].head /\ new[k].tail <= n + 1
  <2> SUFFICES ASSUME NEW k \in 1..L
               PROVE  /\ new[k].head \in Nat /\ new[k].tail \in Nat
                      /\ 1 <= new[k].head /\ new[k].tail <= n + 1
    OBVIOUS
  <2>1. /\ new[k].head = upper[k].head /\ upper[k].head \in Nat /\ upper[k].tail \in Nat
        /\ upper[k].tail <= n /\ 1 <= upper[k].head
    BY <1>2
  <2>2. new[k].tail = upper[k].tail \/ new[k].tail = n + 1
    BY <1>2
  <2> QED BY <2>1, <2>2
<1> QED BY <1>1, <1>4, <1>5, <1>6, <1>7 DEF Level, Parents

LEMMA LevelOpened ==
  ASSUME NEW S, NEW T, NEW upper \in Seq(S), NEW new \in Seq(T), NEW lower, NEW low,
         NEW n \in Nat, Level(upper, lower, n), Opened(upper, new, n + 1),
         SameUps(lower, low, n), low[n + 1].up = Len(upper) + 1
  PROVE  Level(new, low, n + 1)
<1>0. PICK L : L = Len(upper)
  OBVIOUS
<1>1. /\ L \in Nat /\ DOMAIN upper = 1..L /\ DOMAIN new = 1..L + 1
      /\ new # <<>> /\ Len(new) = L + 1 /\ L + 1 \in 1..L + 1
  BY <1>0, Listed DEF Opened
<1>2. /\ \A k \in 1..L :
           /\ new[k].head = upper[k].head /\ new[k].tail = upper[k].tail
           /\ upper[k].head \in Nat /\ upper[k].tail \in Nat
           /\ 1 <= upper[k].head /\ upper[k].tail <= n /\ upper[k].head <= upper[k].tail
      /\ new[L + 1].head = n + 1 /\ new[L + 1].tail = n + 1
  <2>1. new[L + 1].head = n + 1 /\ new[L + 1].tail = n + 1
    BY <1>1 DEF Opened
  <2>2. /\ \A k \in 1..L : new[k].head = upper[k].head /\ new[k].tail = upper[k].tail
    BY <1>0 DEF Opened, SameBounds
  <2>3. /\ \A k \in 1..L : /\ upper[k].head \in Nat /\ upper[k].tail \in Nat
                           /\ 1 <= upper[k].head /\ upper[k].tail <= n
    BY <1>0 DEF Level
  <2>4. /\ \A k \in 1..L : upper[k].head <= upper[k].tail
    BY <1>0, <1>1, Listed, SMTT(30) DEF Level, Tiles
  <2> QED BY <2>1, <2>2, <2>3, <2>4
<1>3. /\ L = 0 => n = 0
      /\ L # 0 => /\ upper[1].head = 1 /\ upper[L].tail = n
                  /\ \A k \in 1..L - 1 : upper[k + 1].head = upper[k].tail + 1
  BY <1>0, Listed DEF Level, Tiles
<1>4. \A k \in 1..L + 1 : k \in 1..L \/ k = L + 1
  BY <1>1
<1>5. Tiles(new, n + 1)
  <2>1. new[1].head = 1 /\ new[L + 1].tail = n + 1
    <3>1. CASE L = 0
      BY <1>2, <1>3, <3>1
    <3>2. CASE L # 0
      BY <1>1, <1>2, <1>3, <3>2
    <3> QED BY <3>1, <3>2
  <2>2. \A k \in 1..L + 1 : new[k].head <= new[k].tail
    <3> SUFFICES ASSUME NEW k \in 1..L + 1 PROVE new[k].head <= new[k].tail
      OBVIOUS
    <3>1. CASE k \in 1..L
      BY <1>2, <3>1
    <3>2. CASE k = L + 1
      BY <1>2, <3>2
    <3> QED BY <1>4, <3>1, <3>2
  <2>3. ASSUME NEW k \in 1..(L + 1) - 1 PROVE new[k + 1].head = new[k].tail + 1
    <3>1. k \in 1..L /\ L # 0 /\ (k = L \/ (k \in 1..L - 1 /\ k + 1 \in 1..L))
      BY <1>1
    <3>2. CASE k = L
      BY <1>2, <1>3, <3>1, <3>2
    <3>3. CASE k \in 1..L - 1 /\ k + 1 \in 1..L
      BY <1>2, <1>3, <3>1, <3>3
    <3> QED BY <3>1, <3>2, <3>3
  <2> QED BY <1>1, <2>1, <2>2, <2>3 DEF Tiles
<1>6. ASSUME NEW k \in 1..L + 1, NEW x \in new[k].head..new[k].tail PROVE low[x].up = k
  <2>1. CASE k = L + 1
    BY <1>0, <1>2, <2>1
  <2>2. CASE k \in 1..L
    <3>1. x \in upper[k].head..upper[k].tail /\ x \in 1..n
      BY <1>2, <2>2, SMTT(30)
    <3> QED BY <1>1, <2>2, <3>1 DEF Level, Parents, SameUps
  <2> QED BY <1>4, <2>1, <2>2
<1>7. \A x \in 1..n + 1 : low[x].up \in 1..L + 1
  <2>1. \A x \in 1..n + 1 : x \in 1..n \/ x = n + 1
    OBVIOUS
  <2>2. \A u \in 1..L : u \in 1..L + 1
    BY <1>1
  <2> QED BY <1>0, <1>1, <2>1, <2>2 DEF Level, SameUps
<1>8. \A k \in 1..L + 1 : /\ new[k].head \in Nat /\ new[k].tail \in Nat
                          /\ 1 <= new[k].head /\ new[k].tail <= n + 1
  BY <1>1, <1>2, <1>4, SMTT(60)
<1> QED BY <1>1, <1>5, <1>6, <1>7, <1>8, SMTT(60) DEF Level, Parents

-----------------------------------------------------------------------------
(* The invariant of push_word.                                             *)
Sounding(p) == phonemes[p].up # 0

\* Pauses stand between phonemes that have a mora, never first, last or side by
\* side; the phonemes of a mora know it.
SoundsInv ==
  /\ \A p \in 1..Len(phonemes) :
       /\ phonemes[p].up = 0 <=> phonemes[p].sound = "pau"
       /\ Sounding(p) => phonemes[p].up \in 1..Len(moras)
  /\ phonemes # <<>> => Sounding(1) /\ Sounding(Len(phonemes))
  /\ \A p \in 1..Len(phonemes) : p + 1 \in 1..Len(phonemes) => Sounding(p) \/ Sounding(p + 1)
  /\ \A m \in 1..Len(moras) :
       /\ 1 <= moras[m].head /\ moras[m].head <= moras[m].tail /\ moras[m].tail <= Len(phonemes)
       /\ \A x \in moras[m].head..moras[m].tail : phonemes[x].up = m

\* The words that are in an accent phrase: all but the one being pushed.
Open == status = "word" /\ ~first
Joined == IF Open THEN Len(words) - 1 ELSE Len(words)

LabelsInv ==
  /\ TypeOK /\ SoundsInv
  /\ Level(words, moras, Len(moras))
  /\ Level(accents, words, Joined)
  /\ Level(breaths, accents, Len(accents))
  /\ Open => words # <<>>

LEMMA Sizes ==
  ASSUME LabelsInv
  PROVE  /\ Len(phonemes) \in Nat /\ Len(moras) \in Nat /\ Len(words) \in Nat
         /\ Len(accents) \in Nat /\ Len(breaths) \in Nat /\ Joined \in Nat
         /\ DOMAIN phonemes = 1..Len(phonemes) /\ DOMAIN moras = 1..Len(moras)
         /\ DOMAIN words = 1..Len(words) /\ DOMAIN accents = 1..Len(accents)
         /\ DOMAIN breaths = 1..Len(breaths)
<1>1. /\ phonemes \in Seq(PhonemeType) /\ moras \in Seq(MoraType) /\ words \in Seq(WordNode)
      /\ accents \in Seq(AccentNode) /\ breaths \in Seq(BreathNode)
  BY DEF LabelsInv, TypeOK
<1>2. /\ Len(phonemes) \in Nat /\ Len(moras) \in Nat /\ Len(words) \in Nat
      /\ Len(accents) \in Nat /\ Len(breaths) \in Nat
      /\ DOMAIN phonemes = 1..Len(phonemes) /\ DOMAIN moras = 1..Len(moras)
      /\ DOMAIN words = 1..Len(words) /\ DOMAIN accents = 1..Len(accents)
      /\ DOMAIN breaths = 1..Len(breaths)
  BY <1>1, Listed
<1>3. Open => Len(words) # 0
  BY <1>1, Listed DEF LabelsInv
<1> QED BY <1>2, <1>3 DEF Joined

LEMMA NoPauseLast == LabelsInv => ~EndsWithPause
<1> SUFFICES ASSUME LabelsInv, EndsWithPause PROVE FALSE
  OBVIOUS
<1>1. phonemes # <<>> /\ phonemes[Len(phonemes)] = pau
  BY DEF EndsWithPause
<1>2. Sounding(Len(phonemes))
  BY <1>1 DEF LabelsInv, SoundsInv
<1> QED BY <1>1, <1>2 DEF Sounding, pau

LEMMA IsPause ==
  ASSUME LabelsInv, NEW p \in 1..Len(phonemes)
  PROVE  phonemes[p] = pau <=> ~Sounding(p)
<1>1. phonemes[p] \in PhonemeType
  BY DEF LabelsInv, TypeOK
<1>2. phonemes[p].up = 0 <=> phonemes[p].sound = "pau"
  BY DEF LabelsInv, SoundsInv
<1> QED BY <1>1, <1>2 DEF PhonemeType, pau, Sounding

\* What JPCommonLabel_make relies on.
LEMMA LabelsInvSound == LabelsInv => LabelsSound
<1> SUFFICES ASSUME LabelsInv PROVE WalksSafe /\ Nested
  BY DEF LabelsInv, LabelsSound
<1>1. ASSUME status \in {"idle", "made"} PROVE Joined = Len(words)
  BY <1>1 DEF Joined, Open
<1>2. WalksSafe
  <2> SUFFICES ASSUME status \in {"idle", "made"}, NEW p \in 1..Len(phonemes)
               PROVE  IF phonemes[p] = pau
                      THEN /\ p - 1 \in DOMAIN phonemes /\ phonemes[p - 1].up # 0
                           /\ p + 1 \in DOMAIN phonemes /\ phonemes[p + 1].up # 0
                      ELSE /\ phonemes[p].up \in DOMAIN moras
                           /\ moras[phonemes[p].up].up \in DOMAIN words
                           /\ AccentOf(p) \in DOMAIN accents
                           /\ accents[AccentOf(p)].up \in DOMAIN breaths
    BY Sizes DEF WalksSafe
  <2>1. CASE Sounding(p)
    <3>1. phonemes[p].up \in 1..Len(moras)
      BY <2>1 DEF LabelsInv, SoundsInv
    <3>2. moras[phonemes[p].up].up \in 1..Len(words)
      BY <3>1 DEF LabelsInv, Level
    <3>3. AccentOf(p) \in 1..Len(accents)
      BY <1>1, <3>2 DEF LabelsInv, Level, AccentOf
    <3>4. accents[AccentOf(p)].up \in 1..Len(breaths)
      BY <3>3 DEF LabelsInv, Level
    <3> QED BY <2>1, <3>1, <3>2, <3>3, <3>4, IsPause, Sizes
  <2>2. CASE ~Sounding(p)
    <3>1. phonemes # <<>>
      OBVIOUS
    <3>2. p # 1 /\ p # Len(phonemes)
      BY <2>2, <3>1 DEF LabelsInv, SoundsInv
    <3>3. /\ p - 1 \in 1..Len(phonemes) /\ p + 1 \in 1..Len(phonemes) /\ (p - 1) + 1 = p
      <4>1. PICK N : N = Len(phonemes)
        OBVIOUS
      <4>2. N \in Nat /\ p \in 1..N /\ p # 1 /\ p # N
        BY <3>2, <4>1, Sizes
      <4>3. p - 1 \in 1..N /\ p + 1 \in 1..N /\ (p - 1) + 1 = p
        BY <4>2
      <4> QED BY <4>1, <4>3
    <3>4. PICK q : q = p - 1 /\ q \in 1..Len(phonemes) /\ q + 1 = p
      BY <3>3
    <3>5. Sounding(q) /\ Sounding(p + 1)
      BY <2>2, <3>3, <3>4 DEF LabelsInv, SoundsInv
    <3> QED BY <2>2, <3>3, <3>4, <3>5, IsPause, Sizes DEF Sounding
  <2> QED BY <2>1, <2>2
<1>3. Nested
  <2> SUFFICES ASSUME status \in {"idle", "made"}
               PROVE  /\ Tiles(words, Len(moras)) /\ Parents(words, moras)
                      /\ Tiles(accents, Len(words)) /\ Parents(accents, words)
                      /\ Tiles(breaths, Len(accents)) /\ Parents(breaths, accents)
                      /\ Parents(moras, phonemes)
    BY DEF Nested
  <2>1. Parents(moras, phonemes)
    BY Sizes DEF LabelsInv, SoundsInv, Parents
  <2> QED BY <1>1, <2>1 DEF LabelsInv, Level
<1> QED BY <1>2, <1>3

LEMMA LabelsStart == LabelAssumption /\ Init => LabelsInv
<1> SUFFICES ASSUME LabelAssumption, Init PROVE LabelsInv
  OBVIOUS
<1>1. /\ phonemes = <<>> /\ moras = <<>> /\ words = <<>> /\ accents = <<>> /\ breaths = <<>>
      /\ shortPause = FALSE /\ status = "idle" /\ word = no_word /\ first = TRUE /\ pushed = 0
  BY DEF Init
<1>2. no_word \in WordType
  BY DEF no_word, WordType
<1>3. TypeOK
  <2>1. \A S : <<>> \in Seq(S)
    OBVIOUS
  <2>2. /\ phonemes \in Seq(PhonemeType) /\ moras \in Seq(MoraType)
        /\ words \in Seq(WordNode) /\ accents \in Seq(AccentNode)
        /\ breaths \in Seq(BreathNode)
    BY ONLY <1>1, <2>1
  <2> QED BY <1>1, <1>2, <2>2 DEF TypeOK
<1>4. SoundsInv
  BY <1>1 DEF SoundsInv
<1>5. \A lower : Level(<<>>, lower, 0)
  BY DEF Level, Tiles, Parents
<1>6. Joined = 0 /\ ~Open /\ Len(moras) = 0 /\ Len(accents) = 0
  BY <1>1 DEF Joined, Open
<1> QED BY <1>1, <1>3, <1>4, <1>5, <1>6 DEF LabelsInv

-----------------------------------------------------------------------------
(* The steps.                                                               *)
LEMMA WordTyped ==
  ASSUME NEW w \in WordType, w.pron # <<>>
  PROVE  /\ [w EXCEPT !.pron = Tail(@)] \in WordType
         /\ [w EXCEPT !.pron = <<>>] \in WordType
<1>1. w.pron \in Seq(Tokens)
  BY DEF WordType
<1>2. Tail(w.pron) \in Seq(Tokens)
  BY <1>1
<1>3. \A q \in Seq(Tokens) : [w EXCEPT !.pron = q] \in WordType
  BY DEF WordType
<1>4. [w EXCEPT !.pron = Tail(@)] = [w EXCEPT !.pron = Tail(w.pron)]
  OBVIOUS
<1>5. <<>> \in Seq(Tokens)
  OBVIOUS
<1> HIDE DEF WordType
<1> QED BY <1>2, <1>3, <1>4, <1>5

\* A step that leaves the lists alone.
LEMMA ListsKept ==
  ASSUME LabelsInv, UNCHANGED lists, TypeOK', Joined' = Joined, Open' => Open
  PROVE  LabelsInv'
<1>1. /\ phonemes' = phonemes /\ moras' = moras /\ words' = words
      /\ accents' = accents /\ breaths' = breaths
  BY DEF lists
<1>2. SoundsInv'
  BY <1>1 DEF LabelsInv, SoundsInv, Sounding
<1> QED BY <1>1, <1>2 DEF LabelsInv, Level, Tiles, Parents

LEMMA StepPushPause == LabelsInv /\ PushPause => LabelsInv'
<1> SUFFICES ASSUME LabelsInv, PushPause PROVE LabelsInv'
  OBVIOUS
<1>1. TypeOK'
  BY DEF LabelsInv, TypeOK, PushPause, Push, lists
<1>2. Joined' = Joined /\ (Open' => Open)
  BY DEF PushPause, Push, Joined, Open, lists
<1> QED BY <1>1, <1>2, ListsKept DEF PushPause

LEMMA StepPushWord == LabelAssumption /\ LabelsInv /\ PushWord => LabelsInv'
<1> SUFFICES ASSUME LabelAssumption, LabelsInv, PushWord PROVE LabelsInv'
  OBVIOUS
<1>1. TypeOK'
  BY DEF LabelsInv, TypeOK, PushWord, Push, lists, LabelAssumption
<1>2. Joined' = Joined /\ (Open' => Open)
  BY DEF PushWord, Push, Joined, Open, lists
<1> QED BY <1>1, <1>2, ListsKept DEF PushWord

LEMMA StepQuiet == LabelsInv /\ (SkipLong \/ TakeUnknown \/ Make) => LabelsInv'
<1> SUFFICES ASSUME LabelsInv, SkipLong \/ TakeUnknown \/ Make PROVE LabelsInv'
  OBVIOUS
<1>1. CASE SkipLong
  <2>1. /\ UNCHANGED lists /\ UNCHANGED <<shortPause, first, status, pushed>>
        /\ word' = [word EXCEPT !.pron = Tail(@)] /\ word.pron # <<>>
    BY <1>1 DEF SkipLong, Take, lists
  <2>2. TypeOK'
    BY <2>1, WordTyped DEF LabelsInv, TypeOK, lists
  <2>3. Joined' = Joined /\ (Open' => Open)
    BY <2>1 DEF Joined, Open, lists
  <2> QED BY <2>1, <2>2, <2>3, ListsKept
<1>2. CASE TakeUnknown
  <2>1. /\ UNCHANGED lists /\ UNCHANGED <<shortPause, first, status, pushed>>
        /\ word' = [word EXCEPT !.pron = <<>>] /\ word.pron # <<>>
    BY <1>2 DEF TakeUnknown, lists
  <2>2. TypeOK'
    BY <2>1, WordTyped DEF LabelsInv, TypeOK, lists
  <2>3. Joined' = Joined /\ (Open' => Open)
    BY <2>1 DEF Joined, Open, lists
  <2> QED BY <2>1, <2>2, <2>3, ListsKept
<1>3. CASE Make
  <2>1. TypeOK' /\ UNCHANGED lists
    BY <1>3 DEF LabelsInv, TypeOK, Make, lists
  <2>2. Joined' = Joined /\ (Open' => Open)
    BY <1>3 DEF Make, Joined, Open, lists
  <2> QED BY <2>1, <2>2, ListsKept
<1> QED BY <1>1, <1>2, <1>3

LEMMA StepDropWord == LabelsInv /\ DropWord => LabelsInv'
<1> SUFFICES ASSUME LabelsInv, DropWord PROVE LabelsInv'
  OBVIOUS
<1>1. /\ UNCHANGED lists /\ UNCHANGED <<shortPause, word, first, pushed>>
      /\ status = "word" /\ status' = "idle" /\ first
  BY NoPauseLast DEF DropWord, Attached, Finish, NothingPushed, lists
<1>2. TypeOK'
  BY <1>1 DEF LabelsInv, TypeOK, lists
<1>3. Joined' = Joined /\ (Open' => Open)
  BY <1>1 DEF Joined, Open, lists
<1> QED BY <1>1, <1>2, <1>3, ListsKept

Question(s, i) == [s EXCEPT ![i].question = TRUE]

LEMMA QuestionAsked ==
  ASSUME NEW s \in Seq(AccentNode), NEW i, NEW t, t = Question(s, i)
  PROVE  /\ t \in Seq(AccentNode) /\ Len(t) = Len(s)
         /\ \A k \in 1..Len(s) : t[k].head = s[k].head /\ t[k].tail = s[k].tail
                               /\ t[k].up = s[k].up
<1>1. DOMAIN s = 1..Len(s) /\ Len(s) \in Nat
  BY Listed
<1>2. DOMAIN t = 1..Len(s)
  BY <1>1 DEF Question
<1>3. ASSUME NEW k \in 1..Len(s)
      PROVE  t[k] \in AccentNode /\ t[k].head = s[k].head /\ t[k].tail = s[k].tail
             /\ t[k].up = s[k].up
  <2>1. s[k] \in AccentNode
    OBVIOUS
  <2>2. t[k] = s[k] \/ t[k] = [s[k] EXCEPT !.question = TRUE]
    BY <1>1 DEF Question
  <2> QED BY <2>1, <2>2 DEF AccentNode
<1>4. t = [k \in 1..Len(s) |-> t[k]]
  BY <1>1 DEF Question
<1>5. t \in Seq(AccentNode) /\ Len(t) = Len(s)
  <2> HIDE DEF AccentNode
  <2>1. PICK n \in Nat : n = Len(s)
    BY <1>1
  <2>2. t = [k \in 1..n |-> t[k]]
    BY <1>4, <2>1
  <2>3. \A k \in 1..n : t[k] \in AccentNode
    BY <1>3, <2>1
  <2>4. t \in Seq(AccentNode) /\ Len(t) = n
    BY <2>2, <2>3
  <2> QED BY <2>1, <2>4
<1> QED BY <1>3, <1>5

LEMMA StepPushQuestion == LabelsInv /\ PushQuestion => LabelsInv'
<1> SUFFICES ASSUME LabelsInv, PushQuestion PROVE LabelsInv'
  OBVIOUS
<1>1. /\ UNCHANGED <<phonemes, moras, words, breaths, status, word, first>>
      /\ shortPause' = TRUE /\ pushed' = pushed + 1 /\ status = "idle"
      /\ accents' = accents \/ accents' = [accents EXCEPT ![Asked].question = TRUE]
  BY DEF PushQuestion, Push
<1>2. /\ accents \in Seq(AccentNode)
      /\ words \in Seq(WordNode) /\ breaths \in Seq(BreathNode)
  BY DEF LabelsInv, TypeOK
<1>3. /\ accents' \in Seq(AccentNode) /\ Len(accents') = Len(accents)
      /\ \A k \in 1..Len(accents) :
           accents'[k].head = accents[k].head /\ accents'[k].tail = accents[k].tail
           /\ accents'[k].up = accents[k].up
  <2>1. CASE accents' = accents
    BY <1>2, <2>1
  <2>2. CASE accents' = [accents EXCEPT ![Asked].question = TRUE]
    <3>1. PICK i, t : i = Asked /\ t = accents'
      OBVIOUS
    <3>2. t = Question(accents, i)
      BY <2>2, <3>1 DEF Question
    <3>3. /\ t \in Seq(AccentNode) /\ Len(t) = Len(accents)
          /\ \A k \in 1..Len(accents) :
               t[k].head = accents[k].head /\ t[k].tail = accents[k].tail
               /\ t[k].up = accents[k].up
      BY <1>2, <3>2, QuestionAsked
    <3> QED BY <3>1, <3>3
  <2> QED BY <1>1, <2>1, <2>2
<1>4. TypeOK'
  BY <1>1, <1>3 DEF LabelsInv, TypeOK
<1>5. SoundsInv'
  BY <1>1 DEF LabelsInv, SoundsInv, Sounding
<1>6. Joined' = Joined /\ ~Open' /\ ~Open
  BY <1>1 DEF Joined, Open
<1>7. Level(accents', words', Joined')
  <2>1. SameBounds(accents, accents') /\ SameUps(words, words', Joined)
    BY <1>1, <1>3 DEF SameBounds, SameUps
  <2>2. Level(accents, words, Joined) /\ Joined \in Nat
    BY Sizes DEF LabelsInv
  <2>3. Level(accents', words', Joined)
    BY <1>2, <1>3, <2>1, <2>2, LevelSame
  <2> QED BY <1>6, <2>3
<1>8. Level(breaths', accents', Len(accents'))
  <2>1. SameBounds(breaths, breaths) /\ SameUps(accents, accents', Len(accents))
    BY <1>3 DEF SameBounds, SameUps
  <2>2. Level(breaths, accents, Len(accents)) /\ Len(accents) \in Nat
    BY Sizes DEF LabelsInv
  <2>3. Level(breaths, accents', Len(accents))
    BY <1>2, <2>1, <2>2, LevelSame
  <2> QED BY <1>1, <1>3, <2>3
<1>9. Level(words', moras', Len(moras'))
  BY <1>1 DEF LabelsInv
<1> QED BY <1>4, <1>5, <1>6, <1>7, <1>8, <1>9 DEF LabelsInv

\* A mora more, under the last word or under a new one.
LEMMA MoraMore ==
  ASSUME LabelsInv, moras' \in Seq(MoraType), Len(moras') = Len(moras) + 1,
         SameUps(moras, moras', Len(moras)), words' \in Seq(WordNode),
         \/ /\ words # <<>> /\ Longer(words, words', Len(moras) + 1)
            /\ moras'[Len(moras) + 1].up = Len(words)
         \/ /\ Opened(words, words', Len(moras) + 1)
            /\ moras'[Len(moras) + 1].up = Len(words) + 1,
         SameUps(words, words', Joined), Joined' = Joined,
         UNCHANGED <<accents, breaths>>
  PROVE  /\ Level(words', moras', Len(moras')) /\ Level(accents', words', Joined')
         /\ Level(breaths', accents', Len(accents'))
<1>1. PICK n \in Nat : n = Len(moras)
  BY Sizes
<1>2. /\ words \in Seq(WordNode) /\ accents \in Seq(AccentNode) /\ Level(words, moras, n)
      /\ Level(accents, words, Joined) /\ Level(breaths, accents, Len(accents)) /\ Joined \in Nat
  BY <1>1, Sizes DEF LabelsInv, TypeOK
<1>3. PICK new, low : new = words' /\ low = moras'
  OBVIOUS
<1>4. new \in Seq(WordNode) /\ SameUps(moras, low, n) /\ SameUps(words, new, Joined)
  BY <1>1, <1>3
<1>5. Level(new, low, n + 1)
  <2>1. CASE words # <<>> /\ Longer(words, new, n + 1) /\ low[n + 1].up = Len(words)
    BY <1>2, <1>4, <2>1, LevelLonger
  <2>2. CASE Opened(words, new, n + 1) /\ low[n + 1].up = Len(words) + 1
    BY <1>2, <1>4, <2>2, LevelOpened
  <2> QED BY <1>1, <1>3, <2>1, <2>2
<1>6. Level(accents, new, Joined)
  <2>1. SameBounds(accents, accents)
    BY DEF SameBounds
  <2> QED BY <1>2, <1>4, <2>1, LevelSame
<1> QED BY <1>1, <1>2, <1>3, <1>5, <1>6, SMTT(60)

\* Phonemes more: a pause or none, and those of a mora more.
Sounded(n, m, d, c) ==
  /\ n = Len(phonemes) /\ m = Len(moras) /\ Len(phonemes') = n + d + c /\ Len(moras') = m + 1
  /\ \A p \in 1..n : phonemes'[p].up = phonemes[p].up /\ phonemes'[p].sound = phonemes[p].sound
  /\ d = 1 => n # 0 /\ phonemes'[n + 1].up = 0 /\ phonemes'[n + 1].sound = "pau"
  /\ \A p \in n + d + 1..n + d + c : phonemes'[p].up = m + 1 /\ phonemes'[p].sound # "pau"
  /\ \A k \in 1..m : moras'[k].head = moras[k].head /\ moras'[k].tail = moras[k].tail
  /\ moras'[m + 1].head = n + d + 1 /\ moras'[m + 1].tail = n + d + c

LEMMA SoundsMore ==
  ASSUME LabelsInv, NEW n \in Nat, NEW m \in Nat, NEW d \in {0, 1}, NEW c \in {1, 2},
         Sounded(n, m, d, c)
  PROVE  SoundsInv'
<1>0. /\ n = Len(phonemes) /\ m = Len(moras) /\ Len(phonemes') = n + d + c /\ Len(moras') = m + 1
      /\ \A p \in 1..n : phonemes'[p].up = phonemes[p].up /\ phonemes'[p].sound = phonemes[p].sound
      /\ d = 1 => n # 0 /\ phonemes'[n + 1].up = 0 /\ phonemes'[n + 1].sound = "pau"
      /\ \A p \in n + d + 1..n + d + c : phonemes'[p].up = m + 1 /\ phonemes'[p].sound # "pau"
      /\ \A k \in 1..m : moras'[k].head = moras[k].head /\ moras'[k].tail = moras[k].tail
      /\ moras'[m + 1].head = n + d + 1 /\ moras'[m + 1].tail = n + d + c
  BY DEF Sounded
<1>1. PICK new, low : new = phonemes' /\ low = moras'
  OBVIOUS
<1>2. PICK N \in Nat : N = n + d + c
  OBVIOUS
<1>3. /\ Len(new) = N /\ Len(low) = m + 1 /\ n <= N /\ n + d + 1 <= N
  BY <1>0, <1>1, <1>2
<1>4. /\ \A p \in 1..n : new[p].up = phonemes[p].up /\ new[p].sound = phonemes[p].sound
      /\ d = 1 => n # 0 /\ new[n + 1].up = 0 /\ new[n + 1].sound = "pau"
      /\ \A p \in n + d + 1..N : new[p].up = m + 1 /\ new[p].sound # "pau"
      /\ \A k \in 1..m : low[k].head = moras[k].head /\ low[k].tail = moras[k].tail
      /\ low[m + 1].head = n + d + 1 /\ low[m + 1].tail = N
  BY <1>0, <1>1, <1>2
<1>5. /\ n # 0 => phonemes[1].up # 0 /\ phonemes[n].up # 0
      /\ \A p \in 1..n : p + 1 \in 1..n => phonemes[p].up # 0 \/ phonemes[p + 1].up # 0
      /\ \A k \in 1..m :
           /\ moras[k].head \in Nat /\ moras[k].tail \in Nat
           /\ 1 <= moras[k].head /\ moras[k].head <= moras[k].tail /\ moras[k].tail <= n
           /\ \A x \in moras[k].head..moras[k].tail : phonemes[x].up = k
  <2>1. phonemes \in Seq(PhonemeType) /\ moras \in Seq(MoraType)
    BY DEF LabelsInv, TypeOK
  <2>2. ASSUME NEW k \in 1..m PROVE moras[k].head \in Nat /\ moras[k].tail \in Nat
    <3>1. moras[k] \in MoraType
      BY <1>0, <2>1
    <3> QED BY <3>1 DEF MoraType
  <2>3. n # 0 => phonemes # <<>>
    BY <1>0, <2>1
  <2> QED BY <1>0, <2>2, <2>3 DEF LabelsInv, SoundsInv, Sounding
<1>11. ASSUME NEW p \in 1..n PROVE phonemes[p].up = 0 <=> phonemes[p].sound = "pau"
  BY <1>0 DEF LabelsInv, SoundsInv
<1>12. ASSUME NEW p \in 1..n, phonemes[p].up # 0 PROVE phonemes[p].up \in 1..m
  BY <1>0, <1>12 DEF LabelsInv, SoundsInv, Sounding
<1>6. \A p \in 1..N : p \in 1..n \/ (d = 1 /\ p = n + 1) \/ p \in n + d + 1..N
  BY <1>2
<1>7. ASSUME NEW p \in 1..N
      PROVE  /\ new[p].up = 0 <=> new[p].sound = "pau"
             /\ new[p].up # 0 => new[p].up \in 1..m + 1
  <2>1. CASE p \in 1..n
    <3>1. new[p].up = phonemes[p].up /\ new[p].sound = phonemes[p].sound
      BY <1>4, <2>1
    <3>2. phonemes[p].up # 0 => phonemes[p].up \in 1..m
      BY <1>12, <2>1
    <3>3. phonemes[p].up = 0 <=> phonemes[p].sound = "pau"
      BY <1>11, <2>1
    <3>4. \A u \in 1..m : u \in 1..m + 1
      OBVIOUS
    <3> QED BY <3>1, <3>2, <3>3, <3>4
  <2>2. CASE d = 1 /\ p = n + 1
    BY <1>4, <2>2
  <2>3. CASE p \in n + d + 1..N
    <3>1. new[p].up = m + 1 /\ new[p].sound # "pau"
      BY <1>4, <2>3
    <3>2. m + 1 # 0 /\ m + 1 \in 1..m + 1
      OBVIOUS
    <3> QED BY <3>1, <3>2
  <2> QED BY <1>6, <2>1, <2>2, <2>3
<1>8. new[1].up # 0 /\ new[N].up # 0
  <2>0. m + 1 # 0 /\ N \in n + d + 1..N
    BY <1>2, <1>3
  <2>1. new[N].up # 0
    BY <1>4, <2>0
  <2>2. CASE n = 0
    <3>1. 1 \in n + d + 1..N
      BY <1>3, <1>4, <2>2
    <3> QED BY <1>4, <2>0, <2>1, <3>1
  <2>3. CASE n # 0
    <3>1. 1 \in 1..n
      BY <2>3
    <3> QED BY <1>4, <1>5, <2>1, <2>3, <3>1
  <2> QED BY <2>2, <2>3
<1>9. ASSUME NEW p \in 1..N, p + 1 \in 1..N PROVE new[p].up # 0 \/ new[p + 1].up # 0
  <2>1. PICK q : q = p + 1
    OBVIOUS
  <2>2. CASE q \in 1..n
    <3>1. p \in 1..n
      BY <2>1, <2>2
    <3> QED BY <1>4, <1>5, <2>1, <2>2, <3>1
  <2>3. CASE d = 1 /\ q = n + 1
    <3>1. p = n /\ n # 0 /\ n \in 1..n
      BY <1>4, <2>1, <2>3
    <3> QED BY <1>4, <1>5, <3>1
  <2>4. CASE q \in n + d + 1..N
    <3>1. new[q].up = m + 1 /\ m + 1 # 0
      BY <1>4, <2>4
    <3> QED BY <2>1, <3>1
  <2> QED BY <1>6, <1>9, <2>1, <2>2, <2>3, <2>4
<1>10. ASSUME NEW k \in 1..m + 1
       PROVE  /\ 1 <= low[k].head /\ low[k].head <= low[k].tail /\ low[k].tail <= N
              /\ \A x \in low[k].head..low[k].tail : new[x].up = k
  <2>1. CASE k \in 1..m
    <3>1. /\ low[k].head = moras[k].head /\ low[k].tail = moras[k].tail
          /\ moras[k].head \in Nat /\ moras[k].tail \in Nat
          /\ 1 <= moras[k].head /\ moras[k].head <= moras[k].tail /\ moras[k].tail <= n
      BY <1>4, <1>5, <2>1
    <3>2. ASSUME NEW x \in moras[k].head..moras[k].tail PROVE new[x].up = k
      <4>1. x \in 1..n /\ phonemes[x].up = k
        BY <1>5, <2>1, <3>1
      <4> QED BY <1>4, <4>1
    <3>3. moras[k].tail <= N
      BY <1>3, <3>1
    <3> QED BY <3>1, <3>2, <3>3
  <2>2. CASE k = m + 1
    BY <1>2, <1>3, <1>4, <2>2
  <2>3. k \in 1..m \/ k = m + 1
    OBVIOUS
  <2> QED BY <2>1, <2>2, <2>3
<1> QED BY <1>1, <1>3, <1>7, <1>8, <1>9, <1>10 DEF SoundsInv, Sounding

Chained(r, a, b) == r = a \o b

LEMMA TwoParts ==
  ASSUME NEW S, NEW a \in Seq(S), NEW b \in Seq(S), NEW r, Chained(r, a, b)
  PROVE  /\ r \in Seq(S) /\ Len(r) = Len(a) + Len(b)
         /\ \A k \in 1..Len(a) : r[k] = a[k]
         /\ \A k \in 1..Len(b) : r[Len(a) + k] = b[k]
BY DEF Chained

LEMMA ThreeParts ==
  ASSUME NEW S, NEW a \in Seq(S), NEW b \in Seq(S), NEW c \in Seq(S), NEW ab, NEW r,
         Chained(ab, a, b), Chained(r, ab, c)
  PROVE  /\ r \in Seq(S) /\ Len(r) = Len(a) + Len(b) + Len(c)
         /\ \A k \in 1..Len(a) : r[k] = a[k]
         /\ \A k \in 1..Len(b) : r[Len(a) + k] = b[k]
         /\ \A k \in 1..Len(c) : r[Len(a) + Len(b) + k] = c[k]
<1>1. /\ ab \in Seq(S) /\ Len(ab) = Len(a) + Len(b)
      /\ \A k \in 1..Len(a) : ab[k] = a[k]
      /\ \A k \in 1..Len(b) : ab[Len(a) + k] = b[k]
  BY TwoParts
<1>2. /\ r \in Seq(S) /\ Len(r) = Len(ab) + Len(c)
      /\ \A k \in 1..Len(ab) : r[k] = ab[k]
      /\ \A k \in 1..Len(c) : r[Len(ab) + k] = c[k]
  BY DEF Chained
<1>3. /\ \A k \in 1..Len(a) : k \in 1..Len(ab)
      /\ \A k \in 1..Len(b) : Len(a) + k \in 1..Len(ab)
  BY <1>1
<1> QED BY <1>1, <1>2, <1>3

LEMMA LastChanged ==
  ASSUME NEW S, NEW s \in Seq(S), NEW i \in 1..Len(s), NEW r \in S, NEW t, t = [s EXCEPT ![i] = r]
  PROVE  /\ t \in Seq(S) /\ Len(t) = Len(s)
         /\ t[i] = r /\ \A k \in 1..Len(s) : k # i => t[k] = s[k]
OBVIOUS

\* The words when a mora more goes under the last of them.
LEMMA WordLonger ==
  ASSUME NEW s \in Seq(WordNode), NEW m \in Nat, NEW t, s # <<>>,
         t = [s EXCEPT ![Len(s)].tail = m]
  PROVE  /\ t \in Seq(WordNode) /\ Longer(s, t, m) /\ SameUps(s, t, Len(s))
<1>1. PICK n \in Nat \ {0} : n = Len(s)
  BY Listed
<1>2. PICK r : r = [s[n] EXCEPT !.tail = m]
  OBVIOUS
<1>3. s[n] \in WordNode
  BY <1>1
<1>4. r \in WordNode /\ r.head = s[n].head /\ r.tail = m /\ r.up = s[n].up
  BY <1>2, <1>3 DEF WordNode
<1>5. t = [s EXCEPT ![n] = r]
  BY <1>1, <1>2
<1>6. /\ t \in Seq(WordNode) /\ Len(t) = n
      /\ t[n] = r /\ \A k \in 1..n : k # n => t[k] = s[k]
  BY <1>1, <1>4, <1>5, LastChanged
<1> QED BY <1>1, <1>4, <1>6 DEF Longer, SameUps

LEMMA WordOpened ==
  ASSUME NEW s \in Seq(WordNode), NEW m \in Nat, NEW t,
         t = Append(s, [head |-> m, tail |-> m, up |-> 0])
  PROVE  /\ t \in Seq(WordNode) /\ Opened(s, t, m) /\ SameUps(s, t, Len(s))
<1>1. PICK n \in Nat : n = Len(s)
  BY Listed
<1>2. PICK r : r = [head |-> m, tail |-> m, up |-> 0]
  OBVIOUS
<1>3. r \in WordNode /\ r.head = m /\ r.tail = m
  BY <1>2 DEF WordNode
<1>4. t = Append(s, r)
  BY <1>2
<1>5. /\ t \in Seq(WordNode) /\ Len(t) = n + 1 /\ t[n + 1] = r
      /\ \A k \in 1..n : t[k] = s[k]
  BY <1>1, <1>3, <1>4
<1> QED BY <1>1, <1>3, <1>5 DEF Opened, SameBounds, SameUps

LEMMA JoinedLeft == LabelsInv => Joined <= Len(words)
<1> QED BY Sizes DEF Joined

LEMMA StepMora == ASSUME LabelsInv, NEW token \in {"v", "cv"}, TakeMora(token) PROVE LabelsInv'
<1>1. PICK n, m, q, sounds : n = Len(phonemes) /\ m = Len(moras) /\ q = PauseDue /\ sounds = SoundsOf(token)
  OBVIOUS
<1>2. n \in Nat /\ m \in Nat /\ phonemes \in Seq(PhonemeType) /\ moras \in Seq(MoraType)
      /\ words \in Seq(WordNode) /\ (n = 0 <=> phonemes = <<>>)
  BY <1>1, Listed DEF LabelsInv, TypeOK
<1>3. PICK d : d = Len(q)
  OBVIOUS
<1>4. /\ d \in {0, 1} /\ q \in Seq(PhonemeType) /\ (d = 1 => n # 0 /\ q[1].up = 0 /\ q[1].sound = "pau")
  <2>1. q = <<>> \/ (q = <<pau>> /\ n # 0)
    BY <1>1, <1>2 DEF PauseDue
  <2>2. pau \in PhonemeType /\ pau.up = 0 /\ pau.sound = "pau"
    BY DEF pau, PhonemeType
  <2>3. \A S, x : x \in S => <<x>> \in Seq(S) /\ Len(<<x>>) = 1 /\ <<x>>[1] = x
    OBVIOUS
  <2>4. \A S : <<>> \in Seq(S) /\ Len(<<>>) = 0
    OBVIOUS
  <2>5. CASE q = <<>>
    BY <1>3, <2>4, <2>5
  <2>6. CASE q = <<pau>> /\ n # 0
    BY <1>3, <2>2, <2>3, <2>6
  <2> QED BY <2>1, <2>5, <2>6
<1>5. PICK c : c = Len(sounds)
  OBVIOUS
<1>6. /\ c \in {1, 2} /\ DOMAIN sounds = 1..c /\ \A k \in 1..c : sounds[k] \in {"k", "a"}
  <2>1. CASE token = "v"
    <3>1. sounds = <<"a">>
      BY <1>1, <2>1 DEF SoundsOf
    <3>2. c = 1 /\ DOMAIN sounds = 1..1 /\ sounds[1] = "a"
      BY <1>5, <3>1
    <3> QED BY <3>2
  <2>2. CASE token # "v"
    <3>1. sounds = <<"k", "a">>
      BY <1>1, <2>2 DEF SoundsOf
    <3>2. c = 2 /\ DOMAIN sounds = 1..2 /\ sounds[1] = "k" /\ sounds[2] = "a"
      BY <1>5, <3>1
    <3> QED BY <3>2
  <2> QED BY <2>1, <2>2
<1>7. PICK a : a = [k \in DOMAIN sounds |-> [sound |-> sounds[k], up |-> m + 1]]
  OBVIOUS
<1>8. a \in Seq(PhonemeType) /\ Len(a) = c /\ \A k \in 1..c : a[k].up = m + 1 /\ a[k].sound # "pau"
  <2>1. c \in Nat /\ a = [k \in 1..c |-> [sound |-> sounds[k], up |-> m + 1]]
    BY <1>6, <1>7
  <2>2. ASSUME NEW k \in 1..c PROVE a[k] \in PhonemeType /\ a[k].up = m + 1 /\ a[k].sound # "pau"
    <3>1. a[k] = [sound |-> sounds[k], up |-> m + 1] /\ sounds[k] \in {"k", "a"} /\ m + 1 \in Nat
      BY <1>2, <1>6, <2>1
    <3> QED BY <3>1 DEF PhonemeType
  <2>3. a \in Seq(PhonemeType) /\ Len(a) = c
    <3> HIDE DEF PhonemeType
    <3>1. a = [k \in 1..c |-> a[k]]
      BY <2>1
    <3>2. \A k \in 1..c : a[k] \in PhonemeType
      BY <2>2
    <3> QED BY <2>1, <3>1, <3>2
  <2> QED BY <2>2, <2>3
<1>9. /\ phonemes' = phonemes \o q \o a
      /\ moras' = Append(moras, [head |-> n + d + 1, tail |-> n + d + 1 + c - 1,
                                 up |-> IF first THEN Len(words) + 1 ELSE Len(words)])
      /\ words' = IF first THEN Append(words, [head |-> m + 1, tail |-> m + 1, up |-> 0])
                  ELSE [words EXCEPT ![Len(words)].tail = m + 1]
      /\ shortPause' = (shortPause /\ EndsWithPause) /\ first' = FALSE
      /\ status = "word" /\ word.pron # <<>> /\ word' = [word EXCEPT !.pron = Tail(@)]
      /\ UNCHANGED <<accents, breaths, status, pushed>>
  BY <1>1, <1>3, <1>5, <1>7 DEF TakeMora, Take
<1>10. PICK new : new = phonemes'
  OBVIOUS
<1>11. /\ new \in Seq(PhonemeType) /\ Len(new) = n + d + c
       /\ \A k \in 1..n : new[k] = phonemes[k]
       /\ \A k \in 1..d : new[n + k] = q[k]
       /\ \A k \in 1..c : new[n + d + k] = a[k]
  <2>1. PICK pq : pq = phonemes \o q
    OBVIOUS
  <2>3. Chained(pq, phonemes, q) /\ Chained(new, pq, a)
    BY <1>9, <1>10, <2>1 DEF Chained
  <2>4. Len(a) = c /\ Len(q) = d /\ Len(phonemes) = n
    BY <1>1, <1>3, <1>8
  <2>2. /\ new \in Seq(PhonemeType) /\ Len(new) = Len(phonemes) + Len(q) + Len(a)
        /\ \A k \in 1..Len(phonemes) : new[k] = phonemes[k]
        /\ \A k \in 1..Len(q) : new[Len(phonemes) + k] = q[k]
        /\ \A k \in 1..Len(a) : new[Len(phonemes) + Len(q) + k] = a[k]
    BY <1>2, <1>4, <1>8, <2>3, ThreeParts, SMTT(30)
  <2> QED BY <2>2, <2>4
<1>12. /\ moras' \in Seq(MoraType) /\ Len(moras') = m + 1
       /\ \A k \in 1..m : moras'[k] = moras[k]
       /\ moras'[m + 1].head = n + d + 1 /\ moras'[m + 1].tail = n + d + c
       /\ moras'[m + 1].up = IF first THEN Len(words) + 1 ELSE Len(words)
  <2>1. PICK r : r = [head |-> n + d + 1, tail |-> n + d + 1 + c - 1,
                      up |-> IF first THEN Len(words) + 1 ELSE Len(words)]
    OBVIOUS
  <2>2. n + d + 1 \in Nat /\ n + d + 1 + c - 1 \in Nat /\ n + d + 1 + c - 1 = n + d + c
    BY <1>2, <1>4, <1>6
  <2>3. (IF first THEN Len(words) + 1 ELSE Len(words)) \in Nat
    BY <1>2, Listed
  <2>4. /\ r \in MoraType /\ r.head = n + d + 1 /\ r.tail = n + d + c
        /\ r.up = IF first THEN Len(words) + 1 ELSE Len(words)
    BY <2>1, <2>2, <2>3 DEF MoraType
  <2>5. moras' = Append(moras, r)
    BY <1>9, <2>1
  <2>6. /\ moras' \in Seq(MoraType) /\ Len(moras') = m + 1 /\ moras'[m + 1] = r
        /\ \A k \in 1..m : moras'[k] = moras[k]
    BY <1>1, <1>2, <2>4, <2>5
  <2> QED BY <2>4, <2>6
<1>13. SoundsInv'
  <2>1. \A p \in 1..n : phonemes'[p].up = phonemes[p].up /\ phonemes'[p].sound = phonemes[p].sound
    BY <1>10, <1>11
  <2>2. d = 1 => n # 0 /\ phonemes'[n + 1].up = 0 /\ phonemes'[n + 1].sound = "pau"
    <3>1. d = 1 => new[n + 1] = q[1]
      BY <1>11
    <3> QED BY <1>4, <1>10, <3>1
  <2>3. ASSUME NEW p \in n + d + 1..n + d + c PROVE phonemes'[p].up = m + 1 /\ phonemes'[p].sound # "pau"
    <3>1. PICK k : k = p - (n + d)
      OBVIOUS
    <3>2. k \in 1..c /\ n + d + k = p
      BY <1>2, <1>4, <1>6, <3>1
    <3>3. new[p] = a[k]
      BY <1>11, <3>2
    <3> QED BY <1>8, <1>10, <3>2, <3>3
  <2>4. \A k \in 1..m : moras'[k].head = moras[k].head /\ moras'[k].tail = moras[k].tail
    BY <1>12
  <2>5. Sounded(n, m, d, c)
    BY <1>1, <1>10, <1>11, <1>12, <2>1, <2>2, <2>3, <2>4 DEF Sounded
  <2> QED BY <1>2, <1>4, <1>6, <2>5, SoundsMore
<1>14. /\ words' \in Seq(WordNode) /\ SameUps(words, words', Len(words))
       /\ \/ /\ words # <<>> /\ Longer(words, words', m + 1)
             /\ moras'[m + 1].up = Len(words)
          \/ /\ Opened(words, words', m + 1)
             /\ moras'[m + 1].up = Len(words) + 1
       /\ words' # <<>> /\ Joined' = Joined
  <2>0. PICK w, low : w = words' /\ low = m + 1 /\ low \in Nat
    BY <1>2
  <2>1. CASE first
    <3>1. w = Append(words, [head |-> low, tail |-> low, up |-> 0])
      BY <1>9, <2>0, <2>1
    <3>2. w \in Seq(WordNode) /\ Opened(words, w, low) /\ SameUps(words, w, Len(words))
      BY <1>2, <2>0, <3>1, WordOpened
    <3>3. Len(w) = Len(words) + 1 /\ Len(words) \in Nat
      BY <1>2, <3>2, Listed DEF Opened
    <3>4. w # <<>> /\ Len(w) - 1 = Len(words)
      BY <3>2, <3>3, Listed
    <3>5. Joined' = Len(w) - 1 /\ Joined = Len(words)
      BY <1>9, <2>0, <2>1 DEF Joined, Open
    <3> QED BY <1>12, <2>0, <2>1, <3>2, <3>4, <3>5
  <2>2. CASE ~first
    <3>1. w = [words EXCEPT ![Len(words)].tail = low] /\ words # <<>>
      BY <1>9, <2>0, <2>2 DEF LabelsInv, Open
    <3>2. w \in Seq(WordNode) /\ Longer(words, w, low) /\ SameUps(words, w, Len(words))
      BY <1>2, <2>0, <3>1, WordLonger
    <3>3. Len(w) = Len(words) /\ w # <<>>
      BY <1>2, <3>1, <3>2, Listed DEF Longer
    <3>4. Joined' = Len(w) - 1 /\ Joined = Len(words) - 1
      BY <1>9, <2>0, <2>2 DEF Joined, Open
    <3> QED BY <1>12, <2>0, <2>2, <3>1, <3>2, <3>3, <3>4, ZenonT(60)
  <2> QED BY <2>1, <2>2
<1>15. /\ Level(words', moras', Len(moras')) /\ Level(accents', words', Joined')
       /\ Level(breaths', accents', Len(accents'))
  <2>1. SameUps(moras, moras', Len(moras))
    BY <1>1, <1>12 DEF SameUps
  <2>2. SameUps(words, words', Joined)
    BY <1>14, JoinedLeft, Sizes DEF SameUps
  <2>3. UNCHANGED <<accents, breaths>>
    BY <1>9
  <2> QED BY <1>1, <1>12, <1>14, <2>1, <2>2, <2>3, MoraMore
<1>16. TypeOK'
  <2>1. word' \in WordType
    BY <1>9, WordTyped DEF LabelsInv, TypeOK
  <2>2. shortPause' \in BOOLEAN
    BY <1>9 DEF LabelsInv, TypeOK
  <2> QED BY <1>9, <1>10, <1>11, <1>12, <1>14, <2>1, <2>2 DEF LabelsInv, TypeOK
<1> QED BY <1>13, <1>14, <1>15, <1>16 DEF LabelsInv

\* The last element of a list is under the last one of the list above.
LEMMA LastUnderLast ==
  ASSUME NEW S, NEW upper \in Seq(S), NEW lower, NEW n \in Nat \ {0}, Level(upper, lower, n)
  PROVE  upper # <<>> /\ lower[n].up = Len(upper)
<1>1. upper # <<>>
  BY DEF Level, Tiles
<1>2. PICK L : L = Len(upper) /\ L \in Nat \ {0} /\ L \in 1..L /\ DOMAIN upper = 1..L
  BY <1>1, Listed
<1>3. /\ upper[L].tail = n /\ upper[L].head <= upper[L].tail
      /\ upper[L].head \in Nat
  BY <1>1, <1>2 DEF Level, Tiles
<1>4. n \in upper[L].head..upper[L].tail
  BY <1>3
<1> QED BY <1>1, <1>2, <1>4 DEF Level, Parents

LEMMA StepLong == LabelsInv /\ TakeLong => LabelsInv'
<1> SUFFICES ASSUME LabelsInv, TakeLong PROVE LabelsInv'
  OBVIOUS
<1>1. PICK n, m : n = Len(phonemes) /\ m = Len(moras)
  OBVIOUS
<1>2. n \in Nat /\ m \in Nat /\ phonemes \in Seq(PhonemeType) /\ moras \in Seq(MoraType)
      /\ words \in Seq(WordNode) /\ n # 0
  BY <1>1, Listed DEF LabelsInv, TypeOK, TakeLong, CanProlong
<1>3. /\ phonemes[n].up \in 1..m /\ phonemes[n].sound # "pau"
      /\ phonemes[n].sound \in {"a", "k", "A", "pau"}
  <2>1. phonemes # <<>> /\ n \in 1..n
    BY <1>1, <1>2, Listed
  <2>2. Sounding(n)
    BY <1>1, <2>1 DEF LabelsInv, SoundsInv
  <2>3. phonemes[n].up \in 1..m /\ phonemes[n].up # 0
    BY <1>1, <2>1, <2>2 DEF LabelsInv, SoundsInv, Sounding
  <2>4. phonemes[n].up = 0 <=> phonemes[n].sound = "pau"
    BY <1>1, <2>1 DEF LabelsInv, SoundsInv
  <2>5. phonemes[n] \in PhonemeType
    BY <1>1, <1>2, <2>1
  <2> QED BY <2>3, <2>4, <2>5 DEF PhonemeType
<1>4. m # 0 /\ words # <<>> /\ moras[m].up = Len(words) /\ Len(words) \in Nat
  <2>1. m \in Nat \ {0}
    BY <1>2, <1>3
  <2>2. Level(words, moras, m)
    BY <1>1 DEF LabelsInv
  <2> QED BY <1>2, <2>1, <2>2, LastUnderLast, Listed
<1>5. /\ phonemes' = Append(phonemes, [sound |-> phonemes[n].sound, up |-> m + 1])
      /\ moras' = Append(moras, [head |-> n + 1, tail |-> n + 1, up |-> Len(words)])
      /\ words' = [words EXCEPT ![Len(words)].tail = m + 1]
      /\ UNCHANGED <<shortPause, first, accents, breaths, status, pushed>>
      /\ word.pron # <<>> /\ word' = [word EXCEPT !.pron = Tail(@)]
  <2>1. (n + 1) - 1 = n /\ (m + 1) - 1 = m
    BY <1>2
  <2> QED BY <1>1, <1>4, <2>1 DEF TakeLong, Take
<1>6. /\ phonemes' \in Seq(PhonemeType) /\ Len(phonemes') = n + 1
      /\ \A k \in 1..n : phonemes'[k] = phonemes[k]
      /\ phonemes'[n + 1].up = m + 1 /\ phonemes'[n + 1].sound # "pau"
  <2>1. PICK r : r = [sound |-> phonemes[n].sound, up |-> m + 1]
    OBVIOUS
  <2>2. r \in PhonemeType /\ r.up = m + 1 /\ r.sound # "pau"
    BY <1>2, <1>3, <2>1 DEF PhonemeType
  <2>3. phonemes' = Append(phonemes, r)
    BY <1>5, <2>1
  <2>4. /\ phonemes' \in Seq(PhonemeType) /\ Len(phonemes') = n + 1 /\ phonemes'[n + 1] = r
        /\ \A k \in 1..n : phonemes'[k] = phonemes[k]
    BY <1>1, <1>2, <2>2, <2>3
  <2> QED BY <2>2, <2>4
<1>7. /\ moras' \in Seq(MoraType) /\ Len(moras') = m + 1
      /\ \A k \in 1..m : moras'[k] = moras[k]
      /\ moras'[m + 1].head = n + 1 /\ moras'[m + 1].tail = n + 1
      /\ moras'[m + 1].up = Len(words)
  <2>1. PICK r : r = [head |-> n + 1, tail |-> n + 1, up |-> Len(words)]
    OBVIOUS
  <2>2. r \in MoraType /\ r.head = n + 1 /\ r.tail = n + 1 /\ r.up = Len(words)
    BY <1>2, <1>4, <2>1 DEF MoraType
  <2>3. moras' = Append(moras, r)
    BY <1>5, <2>1
  <2>4. /\ moras' \in Seq(MoraType) /\ Len(moras') = m + 1 /\ moras'[m + 1] = r
        /\ \A k \in 1..m : moras'[k] = moras[k]
    BY <1>1, <1>2, <2>2, <2>3
  <2> QED BY <2>2, <2>4
<1>8. SoundsInv'
  <2>1. \A p \in n + 0 + 1..n + 0 + 1 : p = n + 1
    BY <1>2
  <2>2. n + 0 + 1 = n + 1
    BY <1>2
  <2>3. Sounded(n, m, 0, 1)
    BY <1>1, <1>6, <1>7, <2>1, <2>2 DEF Sounded
  <2> QED BY <1>2, <2>3, SoundsMore
<1>9. /\ words' \in Seq(WordNode) /\ SameUps(words, words', Len(words))
      /\ Longer(words, words', m + 1) /\ words' # <<>> /\ Joined' = Joined
  <2>0. PICK w, low : w = words' /\ low = m + 1 /\ low \in Nat
    BY <1>2
  <2>1. w = [words EXCEPT ![Len(words)].tail = low]
    BY <1>5, <2>0
  <2>2. w \in Seq(WordNode) /\ Longer(words, w, low) /\ SameUps(words, w, Len(words))
    BY <1>2, <1>4, <2>0, <2>1, WordLonger
  <2>3. Len(w) = Len(words) /\ w # <<>>
    BY <1>2, <1>4, <2>2, Listed DEF Longer
  <2>4. Joined' = Joined
    BY <1>5, <2>0, <2>3 DEF Joined, Open
  <2> QED BY <2>0, <2>2, <2>3, <2>4
<1>10. /\ Level(words', moras', Len(moras')) /\ Level(accents', words', Joined')
       /\ Level(breaths', accents', Len(accents'))
  <2>1. SameUps(moras, moras', Len(moras))
    BY <1>1, <1>7 DEF SameUps
  <2>2. SameUps(words, words', Joined)
    BY <1>9, JoinedLeft, Sizes DEF SameUps
  <2>3. UNCHANGED <<accents, breaths>>
    BY <1>5
  <2> QED BY <1>1, <1>4, <1>7, <1>9, <2>1, <2>2, <2>3, MoraMore
<1>11. TypeOK'
  <2>1. word' \in WordType
    BY <1>5, WordTyped DEF LabelsInv, TypeOK
  <2> QED BY <1>5, <1>6, <1>7, <1>9, <2>1 DEF LabelsInv, TypeOK
<1> QED BY <1>8, <1>9, <1>10, <1>11 DEF LabelsInv

LEMMA StepUnvoice == LabelsInv /\ TakeUnvoice => LabelsInv'
<1> SUFFICES ASSUME LabelsInv, TakeUnvoice PROVE LabelsInv'
  OBVIOUS
<1>1. PICK n : n = Len(phonemes)
  OBVIOUS
<1>2. /\ n \in Nat /\ phonemes \in Seq(PhonemeType) /\ (phonemes # <<>> => n \in 1..n)
      /\ Last(phonemes) = phonemes[n]
  BY <1>1, Listed DEF LabelsInv, TypeOK, Last
<1>3. /\ UNCHANGED <<moras, words, accents, breaths, shortPause, first, status, pushed>>
      /\ word.pron # <<>> /\ word' = [word EXCEPT !.pron = Tail(@)]
      /\ \/ phonemes' = phonemes
         \/ /\ phonemes # <<>> /\ phonemes[n].sound = "a"
            /\ phonemes' = [phonemes EXCEPT ![n].sound = "A"]
  BY <1>1, <1>2 DEF TakeUnvoice, Take
<1>4. /\ phonemes' \in Seq(PhonemeType) /\ Len(phonemes') = n
      /\ \A k \in 1..n : phonemes'[k].up = phonemes[k].up
                         /\ (phonemes'[k].sound = "pau" <=> phonemes[k].sound = "pau")
  <2>1. CASE phonemes' = phonemes
    BY <1>1, <1>2, <2>1
  <2>2. CASE /\ phonemes # <<>> /\ phonemes[n].sound = "a"
             /\ phonemes' = [phonemes EXCEPT ![n].sound = "A"]
    <3>1. PICK r, new : r = [phonemes[n] EXCEPT !.sound = "A"] /\ new = phonemes'
      OBVIOUS
    <3>2. phonemes[n] \in PhonemeType
      BY <1>1, <1>2, <2>2
    <3>3. r \in PhonemeType /\ r.sound = "A" /\ r.up = phonemes[n].up
      BY <3>1, <3>2 DEF PhonemeType
    <3>4. new = [phonemes EXCEPT ![n] = r]
      BY <2>2, <3>1
    <3>5. /\ new \in Seq(PhonemeType) /\ Len(new) = n
          /\ new[n] = r /\ \A k \in 1..n : k # n => new[k] = phonemes[k]
      BY <1>1, <1>2, <2>2, <3>3, <3>4, LastChanged
    <3> QED BY <2>2, <3>1, <3>3, <3>5
  <2> QED BY <1>3, <2>1, <2>2
<1>5. SoundsInv'
  <2>1. PICK new : new = phonemes'
    OBVIOUS
  <2>2. /\ Len(new) = n /\ (new # <<>> => phonemes # <<>>)
        /\ \A k \in 1..n : new[k].up = phonemes[k].up
                           /\ (new[k].sound = "pau" <=> phonemes[k].sound = "pau")
    BY <1>1, <1>2, <1>4, <2>1, Listed
  <2>3. \A p \in 1..n : new[p].up = 0 <=> new[p].sound = "pau"
    BY <1>1, <2>2 DEF LabelsInv, SoundsInv
  <2>4. \A p \in 1..n : new[p].up # 0 => new[p].up \in 1..Len(moras)
    BY <1>1, <2>2 DEF LabelsInv, SoundsInv, Sounding
  <2>5. new # <<>> => new[1].up # 0 /\ new[n].up # 0
    <3>1. new # <<>> => 1 \in 1..n /\ n \in 1..n
      BY <1>2, <2>2
    <3> QED BY <1>1, <2>2, <3>1 DEF LabelsInv, SoundsInv, Sounding
  <2>6. \A p \in 1..n : p + 1 \in 1..n => new[p].up # 0 \/ new[p + 1].up # 0
    BY <1>1, <2>2 DEF LabelsInv, SoundsInv, Sounding
  <2>7. ASSUME NEW m \in 1..Len(moras)
        PROVE  /\ 1 <= moras[m].head /\ moras[m].head <= moras[m].tail /\ moras[m].tail <= n
               /\ \A x \in moras[m].head..moras[m].tail : new[x].up = m
    <3>1. /\ 1 <= moras[m].head /\ moras[m].head <= moras[m].tail /\ moras[m].tail <= n
          /\ \A x \in moras[m].head..moras[m].tail : phonemes[x].up = m
      BY <1>1 DEF LabelsInv, SoundsInv
    <3>2. moras[m].head \in Nat /\ moras[m].tail \in Nat
      <4>1. moras[m] \in MoraType
        BY DEF LabelsInv, TypeOK
      <4> QED BY <4>1 DEF MoraType
    <3>3. \A x \in moras[m].head..moras[m].tail : x \in 1..n
      BY <1>2, <3>1, <3>2
    <3> QED BY <2>2, <3>1, <3>3
  <2> QED BY <1>3, <2>1, <2>2, <2>3, <2>4, <2>5, <2>6, <2>7 DEF SoundsInv, Sounding
<1>6. TypeOK'
  <2>1. word' \in WordType
    BY <1>3, WordTyped DEF LabelsInv, TypeOK
  <2> QED BY <1>3, <1>4, <2>1 DEF LabelsInv, TypeOK
<1>7. Joined' = Joined /\ (Open' => Open)
  BY <1>3 DEF Joined, Open
<1> QED BY <1>3, <1>5, <1>6, <1>7 DEF LabelsInv, Level, Tiles, Parents

\* A word that has a mora joins the lists above: what all ways of it share.
JoinFacts(u) ==
  /\ words # <<>> /\ Joined = Len(words) - 1 /\ Joined' = Len(words) /\ ~Open'
  /\ words' \in Seq(WordNode) /\ Len(words') = Len(words) /\ words'[Len(words)].up = u
  /\ SameUps(words, words', Joined)
  /\ SoundsInv' /\ Level(words', moras', Len(moras'))

LEMMA WordJoins ==
  ASSUME LabelsInv, Finish, ~NothingPushed, Attached, NEW u \in Nat, Under(u)
  PROVE  JoinFacts(u)
<1>1. /\ status = "word" /\ status' = "idle" /\ ~first /\ words # <<>>
      /\ UNCHANGED <<phonemes, moras, first>>
  BY NoPauseLast DEF Finish, NothingPushed, Attached, LabelsInv, Open
<1>2. PICK n \in Nat \ {0} : n = Len(words)
  BY <1>1, Sizes, Listed DEF LabelsInv, TypeOK
<1>3. words \in Seq(WordNode) /\ n \in 1..n /\ words[n] \in WordNode
  BY <1>2 DEF LabelsInv, TypeOK
<1>4. PICK r, new : r = [words[n] EXCEPT !.up = u] /\ new = words'
  OBVIOUS
<1>5. r \in WordNode /\ r.up = u /\ r.head = words[n].head /\ r.tail = words[n].tail
  BY <1>3, <1>4 DEF WordNode
<1>6. new = [words EXCEPT ![n] = r]
  BY <1>2, <1>4 DEF Under, Newest
<1>7. /\ new \in Seq(WordNode) /\ Len(new) = n
      /\ new[n] = r /\ \A k \in 1..n : k # n => new[k] = words[k]
  BY <1>2, <1>3, <1>5, <1>6, LastChanged
<1>8. Joined = n - 1 /\ Joined' = n /\ ~Open'
  BY <1>1, <1>2, <1>4, <1>7 DEF Joined, Open
<1>9. SoundsInv'
  BY <1>1 DEF LabelsInv, SoundsInv, Sounding
<1>10. SameUps(words, new, Joined)
  <2>1. \A x \in 1..n - 1 : x \in 1..n /\ x # n
    OBVIOUS
  <2> QED BY <1>7, <1>8, <2>1 DEF SameUps
<1>11. Level(new, moras, Len(moras))
  <2>1. SameBounds(words, new)
    BY <1>2, <1>5, <1>7 DEF SameBounds
  <2>2. SameUps(moras, moras, Len(moras))
    BY DEF SameUps
  <2>3. Level(words, moras, Len(moras)) /\ Len(moras) \in Nat
    BY Sizes DEF LabelsInv
  <2> QED BY <1>2, <1>3, <1>7, <2>1, <2>2, <2>3, LevelSame
<1> QED BY <1>1, <1>2, <1>4, <1>5, <1>7, <1>8, <1>9, <1>10, <1>11 DEF JoinFacts

\* The types after such a step.
LEMMA JoinTyped ==
  ASSUME LabelsInv, Finish, Attached, words' \in Seq(WordNode),
         accents' \in Seq(AccentNode), breaths' \in Seq(BreathNode)
  PROVE  TypeOK'
BY DEF LabelsInv, TypeOK, Finish, Attached

\* An accent phrase more, for the word that joins.
LEMMA AccentOpened ==
  ASSUME LabelsInv, NEW b \in Nat, accents' = NewAccent(b), JoinFacts(Len(accents) + 1)
  PROVE  /\ accents' \in Seq(AccentNode) /\ Len(accents') = Len(accents) + 1
         /\ SameUps(accents, accents', Len(accents)) /\ accents'[Len(accents) + 1].up = b
         /\ Level(accents', words', Joined')
<1>1. PICK n, a, j : n = Len(words) /\ a = Len(accents) /\ j = Joined
  OBVIOUS
<1>2. /\ n \in Nat /\ a \in Nat /\ j \in Nat /\ j + 1 = n
      /\ accents \in Seq(AccentNode) /\ words \in Seq(WordNode)
      /\ Level(accents, words, j)
  BY <1>1, Sizes DEF LabelsInv, TypeOK, JoinFacts
<1>3. PICK r : r = [head |-> n, tail |-> n, up |-> b, accent |-> word.accent, question |-> FALSE]
  OBVIOUS
<1>4. r \in AccentNode /\ r.head = n /\ r.tail = n /\ r.up = b
  <2>1. word.accent \in Nat
    BY DEF LabelsInv, TypeOK, WordType
  <2> QED BY <1>2, <1>3, <2>1 DEF AccentNode
<1>5. PICK new, low : new = accents' /\ low = words'
  OBVIOUS
<1>6. new = Append(accents, r)
  BY <1>1, <1>3, <1>5 DEF NewAccent, Newest
<1>7. /\ new \in Seq(AccentNode) /\ Len(new) = a + 1 /\ new[a + 1] = r
      /\ \A k \in 1..a : new[k] = accents[k]
  BY <1>1, <1>2, <1>4, <1>6
<1>8. Opened(accents, new, j + 1)
  BY <1>1, <1>2, <1>4, <1>7 DEF Opened, SameBounds
<1>9. SameUps(words, low, j) /\ low[j + 1].up = Len(accents) + 1
  BY <1>1, <1>2, <1>5 DEF JoinFacts
<1>10. Level(new, low, j + 1)
  BY <1>2, <1>7, <1>8, <1>9, LevelOpened
<1>11. Joined' = j + 1
  BY <1>1, <1>2 DEF JoinFacts
<1> QED BY <1>1, <1>4, <1>5, <1>7, <1>10, <1>11 DEF SameUps

LEMMA StepNewGroup == LabelsInv /\ NewGroup => LabelsInv'
<1> SUFFICES ASSUME LabelsInv, NewGroup PROVE LabelsInv'
  OBVIOUS
<1>1. PICK a, b : a = Len(accents) /\ b = Len(breaths) /\ a \in Nat /\ b \in Nat
  BY Sizes
<1>2. /\ Finish /\ ~NothingPushed /\ Attached /\ Under(a + 1) /\ accents' = NewAccent(b + 1)
      /\ breaths' = Append(breaths, [head |-> a + 1, tail |-> a + 1])
  BY <1>1 DEF NewGroup
<1>3. JoinFacts(a + 1)
  BY <1>1, <1>2, WordJoins
<1>4. /\ accents' \in Seq(AccentNode) /\ Len(accents') = a + 1
      /\ SameUps(accents, accents', a) /\ accents'[a + 1].up = b + 1
      /\ Level(accents', words', Joined')
  BY <1>1, <1>2, <1>3, AccentOpened
<1>5. PICK r, new, low : r = [head |-> a + 1, tail |-> a + 1] /\ new = breaths' /\ low = accents'
  OBVIOUS
<1>6. /\ new \in Seq(BreathNode) /\ Len(new) = b + 1 /\ new[b + 1] = r
      /\ \A k \in 1..b : new[k] = breaths[k]
  <2>1. r \in BreathNode /\ new = Append(breaths, r)
    BY <1>1, <1>2, <1>5 DEF BreathNode
  <2>2. breaths \in Seq(BreathNode)
    BY DEF LabelsInv, TypeOK
  <2> QED BY <1>1, <2>1, <2>2
<1>7. r.head = a + 1 /\ r.tail = a + 1
  BY <1>5
<1>8. Opened(breaths, new, a + 1)
  BY <1>1, <1>6, <1>7 DEF Opened, SameBounds
<1>9. SameUps(accents, low, a) /\ low[a + 1].up = Len(breaths) + 1
  BY <1>1, <1>4, <1>5
<1>10. breaths \in Seq(BreathNode) /\ Level(breaths, accents, a)
  BY <1>1 DEF LabelsInv, TypeOK
<1>11. Level(new, low, a + 1)
  BY <1>1, <1>6, <1>8, <1>9, <1>10, LevelOpened
<1>12. TypeOK'
  BY <1>2, <1>3, <1>4, <1>5, <1>6, JoinTyped DEF JoinFacts
<1> QED BY <1>3, <1>4, <1>5, <1>11, <1>12 DEF LabelsInv, JoinFacts

\* The first word opens the first phrase and the first group.
LEMMA StepFirstWord == LabelsInv /\ FirstWord => LabelsInv'
<1> SUFFICES ASSUME LabelsInv, FirstWord PROVE LabelsInv'
  OBVIOUS
<1>1. /\ Finish /\ ~NothingPushed /\ Attached /\ Under(1) /\ accents' = NewAccent(1)
      /\ breaths' = << [head |-> 1, tail |-> 1] >> /\ Len(words) = 1
  BY DEF FirstWord, Newest
<1>2. JoinFacts(1)
  BY <1>1, WordJoins
<1>3. accents \in Seq(AccentNode) /\ breaths \in Seq(BreathNode) /\ words \in Seq(WordNode)
  BY DEF LabelsInv, TypeOK
<1>4. accents = <<>> /\ breaths = <<>>
  <2>1. Joined = 0
    BY <1>1, <1>2 DEF JoinFacts
  <2>2. ASSUME NEW S, NEW upper \in Seq(S), NEW lower, Level(upper, lower, 0) PROVE upper = <<>>
    <3>1. SUFFICES ASSUME upper # <<>> PROVE FALSE
      OBVIOUS
    <3>2. 1 \in 1..Len(upper)
      BY <3>1, Listed
    <3>3. /\ upper[1].head \in Nat /\ upper[1].tail \in Nat /\ 1 <= upper[1].head
          /\ upper[1].tail <= 0 /\ upper[1].head <= upper[1].tail
      BY <2>2, <3>1, <3>2, Listed DEF Level, Tiles
    <3> QED BY <3>3
  <2>3. accents = <<>>
    BY <1>3, <2>1, <2>2 DEF LabelsInv
  <2>4. Level(breaths, accents, 0)
    BY <2>3 DEF LabelsInv
  <2> QED BY <1>3, <2>2, <2>3, <2>4
<1>5. /\ accents' \in Seq(AccentNode) /\ Len(accents') = 1 /\ accents'[1].up = 1
      /\ Level(accents', words', Joined')
  <2>1. Len(accents) = 0 /\ 0 + 1 = 1
    BY <1>4
  <2>2. JoinFacts(Len(accents) + 1) /\ 1 \in Nat
    BY <1>2, <2>1
  <2>3. /\ accents' \in Seq(AccentNode) /\ Len(accents') = Len(accents) + 1
        /\ accents'[Len(accents) + 1].up = 1
        /\ Level(accents', words', Joined')
    BY <1>1, <2>2, AccentOpened
  <2> QED BY <2>1, <2>3
<1>6. PICK r, new, low : r = [head |-> 1, tail |-> 1] /\ new = breaths' /\ low = accents'
  OBVIOUS
<1>7. new \in Seq(BreathNode) /\ Len(new) = 1 /\ new[1] = r /\ r.head = 1 /\ r.tail = 1
  <2>1. r \in BreathNode /\ r.head = 1 /\ r.tail = 1 /\ new = <<r>>
    BY <1>1, <1>6 DEF BreathNode
  <2> QED BY <2>1
<1>8. Opened(breaths, new, 0 + 1)
  BY <1>4, <1>7 DEF Opened, SameBounds
<1>9. SameUps(accents, low, 0) /\ low[0 + 1].up = Len(breaths) + 1
  BY <1>4, <1>5, <1>6 DEF SameUps
<1>10. Level(breaths, accents, 0) /\ 0 \in Nat
  BY <1>4 DEF LabelsInv
<1>11. Level(new, low, 0 + 1)
  BY <1>3, <1>7, <1>8, <1>9, <1>10, LevelOpened
<1>12. TypeOK'
  BY <1>1, <1>2, <1>5, <1>6, <1>7, JoinTyped DEF JoinFacts
<1>13. Level(breaths', accents', Len(accents'))
  BY <1>5, <1>6, <1>11
<1> QED BY <1>2, <1>5, <1>12, <1>13 DEF LabelsInv, JoinFacts

\* Words before the newest, so phrases and groups.
LEMMA SomeBefore ==
  ASSUME LabelsInv, NEW u, JoinFacts(u), Newest # 1
  PROVE  /\ Joined \in Nat \ {0} /\ accents # <<>> /\ breaths # <<>>
         /\ Len(accents) \in Nat \ {0}
<1>1. Joined \in Nat \ {0}
  BY Sizes DEF JoinFacts, Newest
<1>2. accents # <<>> /\ accents \in Seq(AccentNode) /\ breaths \in Seq(BreathNode)
  BY <1>1, LastUnderLast DEF LabelsInv, TypeOK
<1>3. Len(accents) \in Nat \ {0}
  BY <1>2, Listed
<1> QED BY <1>1, <1>2, <1>3, LastUnderLast DEF LabelsInv

LEMMA StepChainWord == LabelsInv /\ ChainWord => LabelsInv'
<1> SUFFICES ASSUME LabelsInv, ChainWord PROVE LabelsInv'
  OBVIOUS
<1>1. PICK a, n, j : a = Len(accents) /\ n = Len(words) /\ j = Joined /\ a \in Nat /\ n \in Nat /\ j \in Nat
  BY Sizes
<1>2. /\ Finish /\ ~NothingPushed /\ Attached /\ Under(a) /\ Newest # 1
      /\ accents' = [accents EXCEPT ![a].tail = n] /\ breaths' = breaths
  BY <1>1 DEF ChainWord, Newest
<1>3. JoinFacts(a)
  BY <1>1, <1>2, WordJoins
<1>4. a # 0 /\ accents # <<>> /\ j + 1 = n /\ Joined' = j + 1
  BY <1>1, <1>2, <1>3, SomeBefore DEF JoinFacts
<1>5. /\ accents \in Seq(AccentNode) /\ breaths \in Seq(BreathNode) /\ words \in Seq(WordNode)
      /\ Level(accents, words, j) /\ Level(breaths, accents, a)
  BY <1>1 DEF LabelsInv, TypeOK
<1>6. PICK r, new, low : r = [accents[a] EXCEPT !.tail = n] /\ new = accents' /\ low = words'
  OBVIOUS
<1>7. a \in 1..Len(accents) /\ accents[a] \in AccentNode
  BY <1>1, <1>4, <1>5
<1>8. r \in AccentNode /\ r.head = accents[a].head /\ r.tail = n /\ r.up = accents[a].up
  BY <1>1, <1>6, <1>7 DEF AccentNode
<1>9. new = [accents EXCEPT ![a] = r]
  BY <1>2, <1>6
<1>10. /\ new \in Seq(AccentNode) /\ Len(new) = Len(accents)
       /\ new[a] = r /\ \A k \in 1..Len(accents) : k # a => new[k] = accents[k]
  BY <1>5, <1>7, <1>8, <1>9, LastChanged
<1>11. Longer(accents, new, j + 1) /\ SameUps(accents, new, a)
  BY <1>1, <1>4, <1>8, <1>10 DEF Longer, SameUps
<1>12. SameUps(words, low, j) /\ low[j + 1].up = Len(accents)
  BY <1>1, <1>3, <1>4, <1>6 DEF JoinFacts
<1>13. Level(new, low, j + 1)
  BY <1>1, <1>4, <1>5, <1>10, <1>11, <1>12, LevelLonger
<1>14. Level(breaths, new, a)
  <2>1. SameBounds(breaths, breaths)
    BY DEF SameBounds
  <2> QED BY <1>1, <1>5, <1>11, <2>1, LevelSame
<1>15. TypeOK'
  BY <1>2, <1>3, <1>5, <1>6, <1>10, JoinTyped DEF JoinFacts
<1>16. Level(accents', words', Joined') /\ Level(breaths', accents', Len(accents'))
  BY <1>1, <1>2, <1>4, <1>6, <1>10, <1>13, <1>14
<1> QED BY <1>3, <1>15, <1>16 DEF LabelsInv, JoinFacts

LEMMA StepNewPhrase == LabelsInv /\ NewPhrase => LabelsInv'
<1> SUFFICES ASSUME LabelsInv, NewPhrase PROVE LabelsInv'
  OBVIOUS
<1>1. PICK a, b : a = Len(accents) /\ b = Len(breaths) /\ a \in Nat /\ b \in Nat
  BY Sizes
<1>2. /\ Finish /\ ~NothingPushed /\ Attached /\ Under(a + 1) /\ Newest # 1
      /\ accents' = NewAccent(b) /\ breaths' = [breaths EXCEPT ![b].tail = a + 1]
  BY <1>1 DEF NewPhrase
<1>3. JoinFacts(a + 1)
  BY <1>1, <1>2, WordJoins
<1>4. /\ accents' \in Seq(AccentNode) /\ Len(accents') = a + 1
      /\ SameUps(accents, accents', a) /\ accents'[a + 1].up = b
      /\ Level(accents', words', Joined')
  BY <1>1, <1>2, <1>3, AccentOpened
<1>5. breaths \in Seq(BreathNode) /\ breaths # <<>> /\ Level(breaths, accents, a)
  BY <1>1, <1>2, <1>3, SomeBefore DEF LabelsInv, TypeOK
<1>6. PICK r, new, low : r = [breaths[b] EXCEPT !.tail = a + 1] /\ new = breaths' /\ low = accents'
  OBVIOUS
<1>7. b \in 1..Len(breaths) /\ breaths[b] \in BreathNode
  BY <1>1, <1>5
<1>8. r \in BreathNode /\ r.head = breaths[b].head /\ r.tail = a + 1
  BY <1>1, <1>6, <1>7 DEF BreathNode
<1>9. new = [breaths EXCEPT ![b] = r]
  BY <1>2, <1>6
<1>10. /\ new \in Seq(BreathNode) /\ Len(new) = Len(breaths)
       /\ new[b] = r /\ \A k \in 1..Len(breaths) : k # b => new[k] = breaths[k]
  BY <1>5, <1>7, <1>8, <1>9, LastChanged
<1>11. Longer(breaths, new, a + 1)
  BY <1>1, <1>8, <1>10 DEF Longer
<1>12. SameUps(accents, low, a) /\ low[a + 1].up = Len(breaths)
  BY <1>1, <1>4, <1>6
<1>13. Level(new, low, a + 1)
  BY <1>1, <1>5, <1>10, <1>11, <1>12, LevelLonger
<1>14. TypeOK'
  BY <1>2, <1>3, <1>4, <1>6, <1>10, JoinTyped DEF JoinFacts
<1> QED BY <1>3, <1>4, <1>6, <1>13, <1>14 DEF LabelsInv, JoinFacts

LEMMA LabelsStep == LabelAssumption /\ LabelsInv /\ [Next]_vars => LabelsInv'
<1> SUFFICES ASSUME LabelAssumption, LabelsInv, [Next]_vars PROVE LabelsInv'
  OBVIOUS
<1>1. CASE \E token \in {"v", "cv"} : TakeMora(token)
  BY <1>1, StepMora
<1>2. CASE UNCHANGED vars
  <2>1. TypeOK' /\ Joined' = Joined /\ (Open' => Open) /\ UNCHANGED lists
    BY <1>2 DEF vars, lists, LabelsInv, TypeOK, Joined, Open
  <2> QED BY <2>1, ListsKept
<1> QED BY <1>1, <1>2, StepPushPause, StepPushQuestion, StepPushWord, StepLong, StepUnvoice,
          StepQuiet, StepDropWord, StepFirstWord, StepChainWord, StepNewPhrase, StepNewGroup DEF Next

\* Whatever words, pauses and questions are pushed, and whatever their pron is
\* made of, the phonemes, moras, words, accent phrases and breath groups stay
\* nested between the calls of push_word, and JPCommonLabel_make finds what it
\* follows from every phoneme and from both sides of every pause.
THEOREM LabelsStayNested == Spec => []LabelsSound
<1>1. Init => LabelsInv
  BY LabelAssumption, LabelsStart
<1>2. LabelsInv /\ [Next]_vars => LabelsInv'
  BY LabelAssumption, LabelsStep
<1>3. LabelsInv => LabelsSound
  BY LabelsInvSound
<1> QED BY <1>1, <1>2, <1>3, PTL DEF Spec

-----------------------------------------------------------------------------
(* Kana are written.                                                       *)

\* Sequences of which one is followed by a mark, laid end to end.
IsMarked(plain, a, mark, marked) ==
  marked = [j \in 1..Len(plain) |-> plain[j] \o (IF a = j THEN <<mark>> ELSE <<>>)]
IsRest(plain, a, rest) == rest = [j \in 1..(Len(plain) - a) |-> plain[a + j]]

LEMMA MarkedJoin ==
  ASSUME NEW S, NEW plain \in Seq(Seq(S)), NEW a \in 1..Len(plain), NEW mark \in S,
         NEW marked, IsMarked(plain, a, mark, marked), NEW rest, IsRest(plain, a, rest)
  PROVE  /\ FlattenSeq(marked) = (Joint(plain, a) \o <<mark>>) \o FlattenSeq(rest)
         /\ Joint(plain, a) \in Seq(S) /\ FlattenSeq(rest) \in Seq(S)
<1>1. PICK N \in Nat : N = Len(plain)
  OBVIOUS
<1>2. a \in 1..N /\ \A n \in 1..N : plain[n] \in Seq(S)
  BY <1>1, ElementOfSeq
<1>3. <<mark>> \in Seq(S) /\ <<>> \in Seq(S)
  OBVIOUS
<1>4. /\ marked \in Seq(Seq(S)) /\ Len(marked) = N
      /\ \A n \in 1..N : n # a => marked[n] = plain[n]
      /\ marked[a] = plain[a] \o <<mark>>
  <2>1. ASSUME NEW n \in 1..N
        PROVE  /\ marked[n] \in Seq(S)
               /\ n # a => marked[n] = plain[n]
               /\ n = a => marked[n] = plain[n] \o <<mark>>
    <3>1. PICK q \in Seq(S) : q = plain[n]
      BY <1>2
    <3>2. q \o <<>> = q
      BY ConcatEmptySeq
    <3>3. marked[n] = q \o (IF a = n THEN <<mark>> ELSE <<>>)
      BY <1>1, <3>1 DEF IsMarked
    <3>4. q \o <<mark>> \in Seq(S)
      BY <1>3, ConcatProperties
    <3> QED BY <3>1, <3>2, <3>3, <3>4
  <2>2. marked \in [1..N -> Seq(S)]
    BY <1>1, <2>1 DEF IsMarked
  <2>3. marked \in Seq(Seq(S)) /\ Len(marked) = N
    <3>1. N \in Nat
      OBVIOUS
    <3> QED BY <2>2, <3>1
  <2> QED BY <1>2, <2>1, <2>3
<1>5. /\ rest \in Seq(Seq(S)) /\ Len(rest) = N - a /\ N - a \in Nat
      /\ \A n \in 1..(N - a) : rest[n] = plain[a + n]
  <2>1. N - a \in Nat
    BY <1>2
  <2>2. \A n \in 1..(N - a) : a + n \in 1..N
    BY <1>2
  <2>3. rest \in [1..(N - a) -> Seq(S)]
    BY <1>1, <1>2, <2>2 DEF IsRest
  <2> QED BY <1>1, <2>1, <2>3 DEF IsRest
<1>6. /\ \A n \in 0..N : Joint(plain, n) \in Seq(S)
      /\ Joint(plain, 0) = <<>>
      /\ \A n \in 1..N : Joint(plain, n) = Joint(plain, n - 1) \o plain[n]
  BY <1>1, JointStep, Zenon
<1>7. /\ Joint(marked, 0) = <<>> /\ Joint(marked, N) = FlattenSeq(marked)
      /\ \A n \in 1..N : Joint(marked, n) = Joint(marked, n - 1) \o marked[n]
  BY <1>4, JointStep, Zenon
<1>8. /\ \A n \in 0..(N - a) : Joint(rest, n) \in Seq(S)
      /\ Joint(rest, 0) = <<>> /\ Joint(rest, N - a) = FlattenSeq(rest)
      /\ \A n \in 1..(N - a) : Joint(rest, n) = Joint(rest, n - 1) \o rest[n]
  BY <1>5, JointStep, Zenon
<1> DEFINE P == {n \in Nat : n < a => Joint(marked, n) = Joint(plain, n)}
<1>9. P \in SUBSET Nat /\ 0 \in P
  BY <1>6, <1>7
<1>10. ASSUME NEW n \in P PROVE n + 1 \in P
  <2> SUFFICES ASSUME n + 1 < a PROVE Joint(marked, n + 1) = Joint(plain, n + 1)
    OBVIOUS
  <2>1. n \in Nat /\ n + 1 \in 1..N /\ (n + 1) - 1 = n /\ n < a /\ n + 1 # a
    BY <1>2
  <2>2. Joint(marked, n) = Joint(plain, n)
    BY <2>1
  <2>3. marked[n + 1] = plain[n + 1]
    BY <1>4, <2>1
  <2>4. Joint(marked, n + 1) = Joint(marked, n) \o marked[n + 1]
    BY <1>7, <2>1
  <2>5. Joint(plain, n + 1) = Joint(plain, n) \o plain[n + 1]
    BY <1>6, <2>1
  <2> QED BY <2>2, <2>3, <2>4, <2>5, Zenon
<1>11. Joint(marked, a - 1) = Joint(plain, a - 1)
  <2>1. a - 1 \in Nat /\ a - 1 < a
    BY <1>2
  <2>2. a - 1 \in P
    <3> HIDE DEF P
    <3> QED BY <1>9, <1>10, <2>1, Induction
  <2> QED BY <2>1, <2>2
<1>12. PICK head \in Seq(S) : head = Joint(plain, a)
  <2>1. a \in 0..N
    BY <1>2
  <2> QED BY <1>6, <2>1
<1>13. PICK front \in Seq(S) : front = head \o <<mark>>
  BY <1>3, ConcatProperties
<1>14. Joint(marked, a) = front
  <2>1. a - 1 \in 0..N
    BY <1>2
  <2>2. PICK j \in Seq(S) : j = Joint(plain, a - 1)
    BY <1>6, <2>1
  <2>3. PICK q \in Seq(S) : q = plain[a]
    BY <1>2
  <2>4. Joint(marked, a) = j \o (q \o <<mark>>)
    BY <1>2, <1>4, <1>7, <1>11, <2>2, <2>3
  <2>5. head = j \o q
    BY <1>2, <1>6, <1>12, <2>2, <2>3
  <2>6. (j \o q) \o <<mark>> = j \o (q \o <<mark>>)
    <3>1. PICK m \in Seq(S) : m = <<mark>>
      BY <1>3
    <3>2. (j \o q) \o m = j \o (q \o m)
      BY SMTT(30)
    <3> QED BY <3>1, <3>2
  <2> QED BY <1>13, <2>4, <2>5, <2>6, Zenon
<1> DEFINE Q == {n \in Nat : n <= N - a => Joint(marked, a + n) = front \o Joint(rest, n)}
<1>15. Q \in SUBSET Nat /\ 0 \in Q
  <2>1. front \o <<>> = front /\ a + 0 = a
    BY <1>2, ConcatEmptySeq
  <2> QED BY <1>8, <1>14, <2>1
<1>16. ASSUME NEW n \in Q PROVE n + 1 \in Q
  <2>0. n + 1 \in Nat
    OBVIOUS
  <2> SUFFICES ASSUME n + 1 <= N - a PROVE Joint(marked, a + (n + 1)) = front \o Joint(rest, n + 1)
    BY <2>0, Zenon
  <2>1. /\ n \in Nat /\ n \in 0..(N - a) /\ n + 1 \in 1..(N - a) /\ (n + 1) - 1 = n
        /\ a + (n + 1) \in 1..N /\ (a + (n + 1)) - 1 = a + n /\ a + (n + 1) # a /\ n <= N - a
    BY <1>2, <1>5
  <2>2. PICK j \in Seq(S) : j = Joint(rest, n)
    BY <1>8, <2>1
  <2>3. PICK q \in Seq(S) : q = plain[a + (n + 1)]
    BY <1>2, <2>1
  <2>4. Joint(marked, a + n) = front \o j
    BY <2>1, <2>2
  <2>5. rest[n + 1] = q
    BY <1>5, <2>1, <2>3
  <2>6. marked[a + (n + 1)] = q
    BY <1>4, <2>1, <2>3
  <2>7. Joint(marked, a + (n + 1)) = (front \o j) \o q
    BY <1>7, <2>1, <2>4, <2>6
  <2>8. Joint(rest, n + 1) = j \o q
    BY <1>8, <2>1, <2>2, <2>5
  <2>9. (front \o j) \o q = front \o (j \o q)
    BY SMTT(30)
  <2> QED BY <2>7, <2>8, <2>9, Zenon
<1>17. Joint(marked, N) = front \o FlattenSeq(rest)
  <2>1. N - a \in Q
    <3> HIDE DEF Q
    <3> QED BY <1>5, <1>15, <1>16, Induction
  <2>2. a + (N - a) = N /\ N - a <= N - a
    BY <1>2
  <2> QED BY <1>5, <1>8, <2>1, <2>2
<1>18. FlattenSeq(rest) \in Seq(S)
  <2>1. N - a \in 0..(N - a)
    BY <1>5
  <2> QED BY <1>8, <2>1
<1> QED BY <1>7, <1>12, <1>13, <1>17, <1>18, Zenon

\* Sequences that end in a delimiter, and have none before, are cut there.
Parted(D, pieces) ==
  /\ \A p \in 1..Len(pieces) :
       Len(pieces[p]) >= 1 /\ \A k \in 1..(Len(pieces[p]) - 1) : pieces[p][k] \notin D
  /\ \A p \in 1..(Len(pieces) - 1) : pieces[p][Len(pieces[p])] \in D

\* The last places of the parts, and what is cut there.
AreEnds(pieces, ends) == ends = [p \in 1..Len(pieces) |-> Len(Joint(pieces, p))]
IsCut(S, D, pieces, tokens, ends) ==
  /\ tokens \in Seq(S)
  /\ \A p \in 1..Len(pieces) :
       /\ ends[p] \in 1..Len(tokens) /\ (ends[p] = Len(tokens) \/ tokens[ends[p]] \in D)
       /\ SubSeq(tokens, IF p = 1 THEN 1 ELSE ends[p - 1] + 1, ends[p]) = pieces[p]
  /\ \A p \in 2..Len(pieces) : ends[p - 1] < ends[p]
  /\ \A x \in 1..Len(tokens) :
       x = Len(tokens) \/ tokens[x] \in D => \E p \in 1..Len(pieces) : x = ends[p]

LEMMA CutThere ==
  ASSUME NEW S, NEW pieces \in Seq(Seq(S)), NEW D, Parted(D, pieces), Len(pieces) # 0,
         NEW tokens, tokens = FlattenSeq(pieces), NEW ends, AreEnds(pieces, ends)
  PROVE  IsCut(S, D, pieces, tokens, ends)
<1>1. PICK N \in Nat : N = Len(pieces)
  OBVIOUS
<1>2. N \in 1..N /\ \A p \in 1..N : pieces[p] \in Seq(S) /\ p - 1 \in 0..N /\ p \in 0..N
  BY <1>1, ElementOfSeq
<1>3. /\ \A n \in 0..N : Joint(pieces, n) \in Seq(S)
      /\ Joint(pieces, 0) = <<>> /\ Joint(pieces, N) = tokens
      /\ \A n \in 1..N : Joint(pieces, n) = Joint(pieces, n - 1) \o pieces[n]
  BY <1>1, JointStep, Zenon
<1> DEFINE L(n) == Len(Joint(pieces, n))
<1>4. /\ tokens \in Seq(S)
      /\ \A p \in 1..N : \A k \in 1..Len(pieces[p]) :
           L(p - 1) + k \in 1..Len(tokens) /\ tokens[L(p - 1) + k] = pieces[p][k]
      /\ \A x \in 1..Len(tokens) :
           \E p \in 1..N : \E k \in 1..Len(pieces[p]) : x = L(p - 1) + k
  <2>1. /\ FlattenSeq(pieces) \in Seq(S)
        /\ \A p \in 1..Len(pieces) : \A k \in 1..Len(pieces[p]) :
             /\ Len(Joint(pieces, p - 1)) + k \in 1..Len(FlattenSeq(pieces))
             /\ FlattenSeq(pieces)[Len(Joint(pieces, p - 1)) + k] = pieces[p][k]
        /\ \A x \in 1..Len(FlattenSeq(pieces)) :
             \E p \in 1..Len(pieces) : \E k \in 1..Len(pieces[p]) : x = Len(Joint(pieces, p - 1)) + k
    BY JointPlaces, Zenon
  <2> QED BY <1>1, <2>1, Zenon
<1>5. ASSUME NEW p \in 1..N
      PROVE  L(p - 1) \in Nat /\ L(p) = L(p - 1) + Len(pieces[p]) /\ Len(pieces[p]) \in Nat \ {0}
  <2>1. PICK j \in Seq(S) : j = Joint(pieces, p - 1)
    BY <1>2, <1>3
  <2>2. PICK q \in Seq(S) : q = pieces[p]
    BY <1>2
  <2>3. Joint(pieces, p) = j \o q
    BY <1>3, <2>1, <2>2
  <2>4. Len(j) \in Nat /\ Len(q) \in Nat /\ Len(j \o q) = Len(j) + Len(q)
    OBVIOUS
  <2>5. Len(q) >= 1
    BY <1>1, <2>2 DEF Parted
  <2> QED BY <2>1, <2>2, <2>3, <2>4, <2>5
<1>6. L(0) = 0 /\ L(N) = Len(tokens)
  <2>1. Len(<<>>) = 0
    OBVIOUS
  <2> QED BY <1>3, <2>1
<1>7. \A p \in 1..N : ends[p] = L(p)
  BY <1>1 DEF AreEnds
<1> HIDE DEF L
<1>8. ASSUME NEW p \in 1..N
      PROVE  /\ ends[p] \in 1..Len(tokens) /\ (ends[p] = Len(tokens) \/ tokens[ends[p]] \in D)
             /\ SubSeq(tokens, IF p = 1 THEN 1 ELSE ends[p - 1] + 1, ends[p]) = pieces[p]
  <2>1. PICK q \in Seq(S) : q = pieces[p]
    BY <1>2
  <2>2. PICK l \in Nat \ {0} : l = Len(q)
    BY <1>5, <2>1
  <2>3. PICK s \in Nat : s = L(p - 1)
    BY <1>5
  <2>4. /\ l \in 1..l /\ ends[p] = s + l
        /\ \A k \in 1..l : s + k \in 1..Len(tokens) /\ tokens[s + k] = q[k]
    <3>1. l \in 1..l
      BY <2>2
    <3>2. ends[p] = s + l
      BY <1>5, <1>7, <2>1, <2>2, <2>3
    <3>3. \A k \in 1..Len(pieces[p]) : L(p - 1) + k \in 1..Len(tokens) /\ tokens[L(p - 1) + k] = pieces[p][k]
      BY <1>4
    <3> QED BY <2>1, <2>2, <2>3, <3>1, <3>2, <3>3
  <2>5. ends[p] = Len(tokens) \/ tokens[ends[p]] \in D
    <3>1. CASE p = N
      BY <1>6, <1>7, <3>1
    <3>2. CASE p # N
      <4>1. p \in 1..(N - 1)
        BY <3>2
      <4>2. q[l] \in D
        BY <1>1, <2>1, <2>2, <4>1 DEF Parted
      <4> QED BY <2>4, <4>2
    <3> QED BY <3>1, <3>2
  <2>6. (IF p = 1 THEN 1 ELSE ends[p - 1] + 1) = s + 1
    <3>1. CASE p = 1
      BY <1>6, <2>3, <3>1
    <3>2. CASE p # 1
      <4>1. p - 1 \in 1..N
        BY <3>2
      <4> QED BY <1>7, <2>3, <3>2, <4>1
    <3> QED BY <3>1, <3>2
  <2>7. SubSeq(tokens, s + 1, s + l) = q
    <3>1. \A n \in (s + 1)..(s + l) : tokens[n] \in S
      <4>1. \A n \in (s + 1)..(s + l) : n - s \in 1..l /\ s + (n - s) = n
        BY <2>2, <2>3
      <4>2. \A k \in 1..l : q[k] \in S
        BY <2>2, ElementOfSeq
      <4> QED BY <2>4, <4>1, <4>2
    <3>2. PICK sub : sub = SubSeq(tokens, s + 1, s + l)
      OBVIOUS
    <3>3. /\ sub \in Seq(S) /\ Len(sub) = IF s + 1 <= s + l THEN (s + l) - (s + 1) + 1 ELSE 0
          /\ \A n \in 1..((s + l) - (s + 1) + 1) : sub[n] = tokens[(s + 1) + n - 1]
      <4>1. s + 1 \in Int /\ s + l \in Int
        BY <2>2, <2>3
      <4>2. PICK from \in Int : from = s + 1
        BY <4>1
      <4>3. PICK to \in Int : to = s + l
        BY <4>1
      <4>4. /\ SubSeq(tokens, from, to) \in Seq(S)
            /\ Len(SubSeq(tokens, from, to)) = IF from <= to THEN to - from + 1 ELSE 0
            /\ \A n \in 1..(to - from + 1) : SubSeq(tokens, from, to)[n] = tokens[from + n - 1]
        BY <3>1, <4>2, <4>3, SubSeqProperties, SMTT(30)
      <4> QED BY <3>2, <4>2, <4>3, <4>4, Zenon
    <3>4. Len(sub) = l
      BY <2>2, <2>3, <3>3
    <3>5. \A n \in 1..l : sub[n] = q[n]
      <4>1. \A n \in 1..l : n \in 1..((s + l) - (s + 1) + 1) /\ (s + 1) + n - 1 = s + n
        BY <2>2, <2>3
      <4> QED BY <2>4, <3>3, <4>1
    <3> QED BY <2>2, <3>2, <3>3, <3>4, <3>5, SeqEqual
  <2> QED BY <1>2, <2>1, <2>2, <2>4, <2>5, <2>6, <2>7
<1>9. ASSUME NEW p \in 2..N PROVE ends[p - 1] < ends[p]
  <2>1. p \in 1..N /\ p - 1 \in 1..N
    BY <1>1
  <2>2. ends[p] = L(p) /\ ends[p - 1] = L(p - 1)
    BY <1>7, <2>1
  <2>3. L(p) = L(p - 1) + Len(pieces[p]) /\ L(p - 1) \in Nat /\ Len(pieces[p]) \in Nat \ {0}
    BY <1>5, <2>1, Zenon
  <2> QED BY <2>2, <2>3
<1>10. ASSUME NEW x \in 1..Len(tokens), x = Len(tokens) \/ tokens[x] \in D
       PROVE  \E p \in 1..N : x = ends[p]
  <2>1. CASE x = Len(tokens)
    BY <1>2, <1>6, <1>7, <2>1
  <2>2. CASE tokens[x] \in D
    <3>1. PICK p \in 1..N : \E k \in 1..Len(pieces[p]) : x = L(p - 1) + k
      BY <1>4
    <3>2. PICK k \in 1..Len(pieces[p]) : x = L(p - 1) + k
      BY <3>1
    <3>3. pieces[p][k] \in D
      BY <1>4, <2>2, <3>1, <3>2
    <3>4. k \notin 1..(Len(pieces[p]) - 1)
      BY <1>1, <3>1, <3>3 DEF Parted
    <3>5. k = Len(pieces[p])
      <4>1. Len(pieces[p]) \in Nat \ {0}
        BY <1>5, <3>1
      <4> QED BY <3>2, <3>4, <4>1
    <3>6. x = ends[p]
      BY <1>5, <1>7, <3>1, <3>2, <3>5
    <3> QED BY <3>1, <3>6
  <2> QED BY <1>10, <2>1, <2>2
<1> QED BY <1>1, <1>4, <1>8, <1>9, <1>10 DEF IsCut

Char == Kana \cup {Accent, Unvoice}
Sign == {Pause, Nopause, Ask}

LEMMA MoraReads ==
  ASSUME NEW m \in Mora
  PROVE  MoraNotation(m) \in Seq(Char)
<1>1. m.text \in Texts
  BY DEF Mora
<1>2. m.text \in Seq(Kana)
  BY <1>1, KanaAssumption
<1>3. m.text \in Seq(Char)
  BY <1>2, SeqMonotonic DEF Char
<1>4. <<Unvoice>> \in Seq(Char) /\ <<>> \in Seq(Char)
  BY DEF Char
<1>5. PICK front \in Seq(Char) : front = IF m.silent THEN <<Unvoice>> ELSE <<>>
  BY <1>4
<1>6. front \o m.text \in Seq(Char)
  BY <1>3, ConcatProperties
<1> QED BY <1>5, <1>6 DEF MoraNotation

\* What is written of a phrase: its text, and a sign if it asks.
AskSign(phrase) == IF phrase.ask THEN <<Ask>> ELSE <<>>

LEMMA PhraseReads ==
  ASSUME NEW phrase \in Phrase, phrase.accent \in 1..Len(phrase.moras)
  PROVE  /\ PhraseText(phrase) \in Seq(Char) /\ Len(PhraseText(phrase)) >= 1
         /\ PhraseNotation(phrase) = PhraseText(phrase) \o AskSign(phrase)
<1>1. PICK ms : ms = phrase.moras
  OBVIOUS
<1>2. PICK a : a = phrase.accent
  OBVIOUS
<1>3. ms \in Seq(Mora) /\ a \in Nat
  <2>1. phrase.moras \in Seq(Mora) /\ phrase.accent \in Nat
    <3> HIDE DEF Mora
    <3> QED BY Zenon DEF Phrase
  <2> QED BY <1>1, <1>2, <2>1
<1>4. PICK N \in Nat : N = Len(ms)
  BY <1>3
<1>5. a \in 1..N /\ DOMAIN ms = 1..N /\ \A n \in 1..N : ms[n] \in Mora
  BY <1>1, <1>2, <1>3, <1>4
<1>6. PICK plain : plain = [j \in 1..N |-> MoraNotation(ms[j])]
  OBVIOUS
<1>7. /\ plain \in Seq(Seq(Char)) /\ Len(plain) = N
      /\ \A n \in 1..N : plain[n] = MoraNotation(ms[n])
  <2>1. \A n \in 1..N : MoraNotation(ms[n]) \in Seq(Char)
    BY <1>5, MoraReads
  <2>2. plain \in [1..N -> Seq(Char)]
    BY <1>6, <2>1
  <2> QED BY <1>6, <2>2
<1>8. PICK marked : marked = [j \in 1..N |-> MoraNotation(ms[j]) \o (IF a = j THEN <<Accent>> ELSE <<>>)]
  OBVIOUS
<1>9. IsMarked(plain, a, Accent, marked)
  <2>1. \A j \in 1..N : MoraNotation(ms[j]) \o (IF a = j THEN <<Accent>> ELSE <<>>)
                          = plain[j] \o (IF a = j THEN <<Accent>> ELSE <<>>)
    BY <1>7
  <2> QED BY <1>7, <1>8, <2>1 DEF IsMarked
<1>10. PICK rest : rest = [j \in 1..(N - a) |-> MoraNotation(ms[a + j])]
  OBVIOUS
<1>11. IsRest(plain, a, rest)
  <2>1. \A j \in 1..(N - a) : a + j \in 1..N
    BY <1>5
  <2>2. \A j \in 1..(N - a) : plain[a + j] = MoraNotation(ms[a + j])
    BY <1>7, <2>1
  <2> QED BY <1>7, <1>10, <2>2 DEF IsRest
<1>12. /\ FlattenSeq(marked) = (Joint(plain, a) \o <<Accent>>) \o FlattenSeq(rest)
       /\ Joint(plain, a) \in Seq(Char) /\ FlattenSeq(rest) \in Seq(Char)
  <2>1. Accent \in Char /\ a \in 1..Len(plain)
    BY <1>5, <1>7 DEF Char
  <2> QED BY <1>7, <1>9, <1>11, <2>1, MarkedJoin
<1>13. MoraText(phrase, 1, phrase.accent) = Joint(plain, a)
  <2>1. (a - 1) + 1 = a /\ \A j \in 1..a : 1 + (j - 1) = j /\ j \in 1..N
    BY <1>5
  <2>2. PICK front : front = [j \in 1..((a - 1) + 1) |-> MoraNotation(ms[1 + (j - 1)])]
    OBVIOUS
  <2>3. front = SubSeq(plain, 1, a)
    <3>1. front = [j \in 1..a |-> MoraNotation(ms[j])]
      BY <2>1, <2>2
    <3>2. a \in Nat /\ a <= N /\ \A n \in 1..a : plain[n] \in Seq(Char)
      BY <1>5, <1>7, ElementOfSeq
    <3>3. /\ SubSeq(plain, 1, a) \in Seq(Seq(Char)) /\ Len(SubSeq(plain, 1, a)) = a
          /\ \A n \in 1..a : SubSeq(plain, 1, a)[n] = plain[n]
      BY <1>5, <3>2, SubSeqProperties
    <3>4. \A n \in 1..a : front[n] = plain[n]
      BY <1>7, <2>1, <3>1
    <3>5. front \in Seq(Seq(Char)) /\ Len(front) = a
      <4>1. front \in [1..a -> Seq(Char)]
        BY <3>1, <3>2, <3>4
      <4> QED BY <3>2, <4>1
    <3> QED BY <3>3, <3>4, <3>5, SeqEqual
  <2>4. front = [j \in 1..((phrase.accent - 1) + 1) |-> MoraNotation(phrase.moras[1 + (j - 1)])]
    BY <1>1, <1>2, <2>2, Zenon
  <2>5. MoraText(phrase, 1, phrase.accent) = FlattenSeq(front)
    <3>1. MoraText(phrase, 1, phrase.accent)
            = FlattenSeq([j \in 1..((phrase.accent - 1) + 1) |-> MoraNotation(phrase.moras[1 + (j - 1)])])
      BY DEF MoraText
    <3> QED BY <2>4, <3>1
  <2> QED BY <2>3, <2>5, Zenon DEF Joint
<1>14. MoraText(phrase, phrase.accent + 1, Len(phrase.moras)) = FlattenSeq(rest)
  <2>1. (N - (a + 1)) + 1 = N - a /\ \A j \in 1..(N - a) : (a + 1) + (j - 1) = a + j
    BY <1>5
  <2>2. rest = [j \in 1..((N - (a + 1)) + 1) |-> MoraNotation(ms[(a + 1) + (j - 1)])]
    BY <1>10, <2>1
  <2>3. PICK from : from = a + 1
    OBVIOUS
  <2>4. rest = [j \in 1..((N - from) + 1) |-> MoraNotation(phrase.moras[from + (j - 1)])]
    BY <1>1, <2>2, <2>3, Zenon
  <2>5. MoraText(phrase, from, N)
          = FlattenSeq([j \in 1..((N - from) + 1) |-> MoraNotation(phrase.moras[from + (j - 1)])])
    BY DEF MoraText
  <2>6. MoraText(phrase, phrase.accent + 1, Len(phrase.moras)) = MoraText(phrase, from, N)
    BY <1>1, <1>2, <1>4, <2>3
  <2> QED BY <2>4, <2>5, <2>6
<1>15. PhraseText(phrase) = FlattenSeq(marked)
  BY <1>12, <1>13, <1>14 DEF PhraseText
<1>16. PhraseNotation(phrase) = FlattenSeq(marked) \o AskSign(phrase)
  <2>1. marked = [j \in DOMAIN phrase.moras |->
           MoraNotation(phrase.moras[j]) \o (IF phrase.accent = j THEN <<Accent>> ELSE <<>>)]
    BY <1>1, <1>2, <1>5, <1>8
  <2> QED BY <2>1 DEF PhraseNotation, AskSign
<1>17. PhraseText(phrase) \in Seq(Char) /\ Len(PhraseText(phrase)) >= 1
  <2>1. PICK x \in Seq(Char) : x = Joint(plain, a)
    BY <1>12
  <2>2. PICK y \in Seq(Char) : y = FlattenSeq(rest)
    BY <1>12
  <2>3. PICK z : z = <<Accent>>
    OBVIOUS
  <2>4. z \in Seq(Char) /\ Len(z) = 1
    BY <2>3 DEF Char
  <2>5. (x \o z) \o y \in Seq(Char) /\ Len((x \o z) \o y) = Len(x) + 1 + Len(y)
    <3>1. PICK xz : xz = x \o z
      OBVIOUS
    <3>2. xz \in Seq(Char) /\ Len(xz) = Len(x) + 1
      <4>1. x \o z \in Seq(Char) /\ Len(x \o z) = Len(x) + Len(z)
        BY <2>4, ConcatProperties, Zenon
      <4> QED BY <2>4, <3>1, <4>1
    <3>3. xz \o y \in Seq(Char) /\ Len(xz \o y) = Len(xz) + Len(y)
      BY <3>2, ConcatProperties
    <3> QED BY <3>1, <3>2, <3>3
  <2>6. PhraseText(phrase) = (x \o z) \o y
    BY <1>12, <1>15, <2>1, <2>2, <2>3
  <2>7. Len(x) \in Nat /\ Len(y) \in Nat
    OBVIOUS
  <2> QED BY <2>5, <2>6, <2>7
<1> QED BY <1>15, <1>16, <1>17

Told(phrase, sign, piece) ==
  LET body == PhraseText(phrase)
  IN /\ phrase.ask <=> \E x \in DOMAIN piece : piece[x] = Ask
     /\ sign # <<>> => piece[Len(piece)] = sign[1]
     /\ Len(body) <= Len(piece) /\ SubSeq(piece, 1, Len(body)) = body
     /\ \A x \in (Len(body) + 1)..Len(piece) : piece[x] \in Sign

\* What is written of a phrase with the delimiter behind it.
LEMMA PieceReads ==
  ASSUME NEW phrase \in Phrase, phrase.accent \in 1..Len(phrase.moras),
         NEW sign \in {<<>>, <<Pause>>, <<Nopause>>},
         NEW piece, Chained(piece, PhraseNotation(phrase), sign)
  PROVE  /\ piece \in Seq(Char \cup Sign) /\ Len(piece) >= 1
         /\ \A k \in 1..(Len(piece) - 1) : piece[k] \notin {Pause, Nopause}
         /\ Told(phrase, sign, piece)
<1>1. PICK body : body = PhraseText(phrase)
  OBVIOUS
<1>2. PICK n : n = Len(body)
  OBVIOUS
<1>3. body \in Seq(Char) /\ n \in Nat /\ n >= 1 /\ PhraseNotation(phrase) = body \o AskSign(phrase)
  <2>1. /\ PhraseText(phrase) \in Seq(Char) /\ Len(PhraseText(phrase)) >= 1
        /\ PhraseNotation(phrase) = PhraseText(phrase) \o AskSign(phrase)
    BY PhraseReads, Zenon
  <2>2. body \in Seq(Char) /\ n >= 1 /\ PhraseNotation(phrase) = body \o AskSign(phrase)
    BY <1>1, <1>2, <2>1, Zenon
  <2>3. n \in Nat
    BY <1>2, <2>2, LenProperties, Zenon
  <2> QED BY <2>2, <2>3
<1>4. Char \cap Sign = {}
  BY KanaAssumption DEF Char, Sign, Accent, Unvoice, Pause, Nopause, Ask
<1>5. PICK ask : ask = AskSign(phrase)
  OBVIOUS
<1>6. PICK S : S = Char \cup Sign
  OBVIOUS
<1>7. /\ body \in Seq(S) /\ ask \in Seq(S) /\ sign \in Seq(S)
  <2>1. Char \subseteq S /\ Ask \in S /\ Pause \in S /\ Nopause \in S
    BY <1>6 DEF Sign
  <2>2. body \in Seq(S)
    BY <1>3, <2>1, SeqMonotonic
  <2>3. <<>> \in Seq(S) /\ <<Ask>> \in Seq(S) /\ <<Pause>> \in Seq(S) /\ <<Nopause>> \in Seq(S)
    BY <2>1
  <2>4. ask \in Seq(S)
    BY <1>5, <2>3, Zenon DEF AskSign
  <2>5. sign \in Seq(S)
    BY <2>3, Zenon
  <2> QED BY <2>2, <2>4, <2>5
<1>8. PICK m : m = Len(ask)
  OBVIOUS
<1>9. m \in {0, 1} /\ (phrase.ask <=> m = 1) /\ (m = 1 => ask[1] = Ask)
  BY <1>5, <1>8 DEF AskSign
<1>10. PICK l : l = Len(sign)
  OBVIOUS
<1>11. l \in {0, 1} /\ (sign # <<>> <=> l = 1) /\ (l = 1 => sign[1] \in {Pause, Nopause})
  BY <1>10
<1>12. /\ piece \in Seq(S) /\ Len(piece) = n + m + l
       /\ \A k \in 1..n : piece[k] = body[k]
       /\ \A k \in 1..m : piece[n + k] = ask[k]
       /\ \A k \in 1..l : piece[n + m + k] = sign[k]
  <2>1. PICK front : Chained(front, body, ask)
    BY DEF Chained
  <2>2. Chained(piece, front, sign)
    BY <1>3, <1>5, <2>1 DEF Chained
  <2>3. /\ front \in Seq(S) /\ Len(front) = Len(body) + Len(ask)
        /\ \A k \in 1..Len(body) : front[k] = body[k]
        /\ \A k \in 1..Len(ask) : front[Len(body) + k] = ask[k]
    BY <1>7, <2>1 DEF Chained
  <2>4. /\ piece \in Seq(S) /\ Len(piece) = Len(front) + Len(sign)
        /\ \A k \in 1..Len(front) : piece[k] = front[k]
        /\ \A k \in 1..Len(sign) : piece[Len(front) + k] = sign[k]
    <3>1. front \in Seq(S) /\ sign \in Seq(S)
      BY <1>7, <2>3
    <3>2. /\ front \o sign \in Seq(S) /\ Len(front \o sign) = Len(front) + Len(sign)
          /\ \A k \in 1..Len(front) : (front \o sign)[k] = front[k]
          /\ \A k \in 1..Len(sign) : (front \o sign)[Len(front) + k] = sign[k]
      BY <3>1
    <3> QED BY <2>2, <3>2, Zenon DEF Chained
  <2>5. Len(front) = n + m
    BY <1>2, <1>8, <2>3
  <2>6. \A k \in 1..n : k \in 1..Len(front)
    BY <1>3, <1>9, <2>5
  <2>7. \A k \in 1..m : n + k \in 1..Len(front)
    BY <1>3, <1>9, <2>5
  <2> QED BY <1>2, <1>8, <1>10, <2>3, <2>4, <2>5, <2>6, <2>7
<1>13. /\ \A k \in 1..n : piece[k] \in Char
       /\ m = 1 => piece[n + 1] = Ask
       /\ l = 1 => piece[n + m + 1] = sign[1] /\ piece[n + m + 1] \in {Pause, Nopause}
  <2>1. \A k \in 1..n : body[k] \in Char
    BY <1>2, <1>3, ElementOfSeq
  <2>2. m = 1 => 1 \in 1..m
    OBVIOUS
  <2>3. l = 1 => 1 \in 1..l
    OBVIOUS
  <2> QED BY <1>9, <1>11, <1>12, <2>1, <2>2, <2>3
<1>14. \A x \in 1..(n + m + l) :
          \/ x \in 1..n
          \/ x = n + 1 /\ m = 1
          \/ x = n + m + 1 /\ l = 1 /\ x = n + m + l
  BY <1>3, <1>9, <1>11
<1>15. Len(piece) >= 1 /\ DOMAIN piece = 1..(n + m + l)
  BY <1>3, <1>9, <1>11, <1>12
<1>16. \A k \in 1..(Len(piece) - 1) : piece[k] \notin {Pause, Nopause}
  <2> SUFFICES ASSUME NEW k \in 1..(Len(piece) - 1) PROVE piece[k] \notin {Pause, Nopause}
    OBVIOUS
  <2>1. k \in 1..n \/ (k = n + 1 /\ m = 1)
    <3>1. k \in 1..(n + m + l) /\ k # n + m + l
      BY <1>3, <1>9, <1>11, <1>12
    <3> QED BY <1>14, <3>1
  <2>2. CASE k \in 1..n
    BY <1>4, <1>13, <2>2 DEF Sign
  <2>3. CASE k = n + 1 /\ m = 1
    BY <1>13, <2>3 DEF Ask, Pause, Nopause
  <2> QED BY <2>1, <2>2, <2>3
<1>17. phrase.ask <=> \E x \in DOMAIN piece : piece[x] = Ask
  <2>1. ASSUME phrase.ask PROVE \E x \in DOMAIN piece : piece[x] = Ask
    <3>1. n + 1 \in 1..(n + m + l) /\ piece[n + 1] = Ask
      <4>1. m = 1
        BY <1>9, <2>1
      <4>2. n + 1 \in 1..(n + m + l)
        BY <1>3, <1>11, <4>1
      <4> QED BY <1>13, <4>1, <4>2
    <3> QED BY <1>15, <3>1
  <2>2. ASSUME NEW x \in DOMAIN piece, piece[x] = Ask PROVE phrase.ask
    <3>1. ~(x \in 1..n)
      BY <1>4, <1>13, <2>2 DEF Sign
    <3>2. ~(l = 1 /\ x = n + m + 1)
      BY <1>13, <2>2 DEF Ask, Pause, Nopause
    <3> QED BY <1>9, <1>14, <1>15, <2>2, <3>1, <3>2
  <2> QED BY <2>1, <2>2
<1>18. sign # <<>> => piece[Len(piece)] = sign[1]
  <2> SUFFICES ASSUME sign # <<>> PROVE piece[Len(piece)] = sign[1]
    OBVIOUS
  <2>1. l = 1 /\ Len(piece) = n + m + 1
    BY <1>11, <1>12
  <2> QED BY <1>13, <2>1
<1>19. n <= Len(piece) /\ SubSeq(piece, 1, n) = body
  <2>1. n <= Len(piece)
    BY <1>3, <1>9, <1>11, <1>12
  <2>2. \A k \in 1..n : piece[k] \in S
    BY <1>6, <1>13
  <2>3. PICK sub : sub = SubSeq(piece, 1, n)
    OBVIOUS
  <2>4. sub \in Seq(S) /\ Len(sub) = n /\ \A k \in 1..n : sub[k] = piece[k]
    <3>1. PICK from \in Int : from = 1
      OBVIOUS
    <3>2. PICK to \in Int : to = n
      BY <1>3
    <3>3. /\ SubSeq(piece, from, to) \in Seq(S)
          /\ Len(SubSeq(piece, from, to)) = IF from <= to THEN to - from + 1 ELSE 0
          /\ \A k \in 1..(to - from + 1) : SubSeq(piece, from, to)[k] = piece[from + k - 1]
      <4>1. \A k \in from..to : piece[k] \in S
        BY <2>2, <3>1, <3>2
      <4> QED BY <4>1, SubSeqProperties
    <3>4. sub = SubSeq(piece, from, to)
      BY <2>3, <3>1, <3>2
    <3>5. sub \in Seq(S) /\ Len(sub) = n
      <4>1. from <= to /\ to - from + 1 = n
        BY <1>3, <3>1, <3>2
      <4> QED BY <3>3, <3>4, <4>1, Zenon
    <3>6. \A k \in 1..n : k \in 1..(to - from + 1) /\ from + k - 1 = k
      BY <1>3, <3>1, <3>2
    <3> QED BY <3>3, <3>4, <3>5, <3>6
  <2>5. sub = body
    <3>1. \A k \in 1..Len(sub) : sub[k] = body[k]
      BY <1>12, <2>4
    <3> QED BY <1>2, <1>7, <2>4, <3>1, SeqEqual
  <2> QED BY <2>1, <2>3, <2>5
<1>20. \A x \in (n + 1)..Len(piece) : piece[x] \in Sign
  <2> SUFFICES ASSUME NEW x \in (n + 1)..Len(piece) PROVE piece[x] \in Sign
    OBVIOUS
  <2>1. x \in 1..(n + m + l) /\ x \notin 1..n
    BY <1>3, <1>12
  <2> QED BY <1>13, <1>14, <2>1 DEF Sign
<1> QED BY <1>1, <1>2, <1>6, <1>12, <1>15, <1>16, <1>17, <1>18, <1>19, <1>20 DEF Told

\* The delimiter behind the k-th phrase.
Delimiter(list, k) ==
  IF k = Len(list) THEN <<>> ELSE IF list[k].pause THEN <<Pause>> ELSE <<Nopause>>

\* A notation is cut at the ends of its phrases, and nowhere else.
LEMMA NotationReads ==
  ASSUME NEW list \in PhraseLists, list # <<>>, NEW tokens, tokens = Notation(list)
  PROVE  \E ends \in [1..Len(list) -> Ends(tokens)] :
           /\ {ends[k] : k \in DOMAIN ends} = Ends(tokens)
           /\ \A k \in 2..Len(list) : ends[k - 1] < ends[k]
           /\ \A k \in 1..Len(list) : Told(list[k], Delimiter(list, k), Part(tokens, ends, k))
<1>1. list \in Seq(Phrase) /\ \A k \in DOMAIN list : list[k].accent \in 1..Len(list[k].moras)
  BY KanaAssumption
<1>2. PICK N \in Nat \ {0} : N = Len(list)
  BY <1>1, EmptySeq
<1>3. DOMAIN list = 1..N /\ \A k \in 1..N : list[k] \in Phrase /\ list[k].accent \in 1..Len(list[k].moras)
  BY <1>1, <1>2, LenProperties, ElementOfSeq
<1> DEFINE D == {Pause, Nopause}
           T == Char \cup Sign
<1>4. PICK pieces : pieces = [k \in 1..N |-> PhraseNotation(list[k]) \o Delimiter(list, k)]
  OBVIOUS
<1>5. ASSUME NEW k \in 1..N
      PROVE  /\ pieces[k] \in Seq(T) /\ Len(pieces[k]) >= 1
             /\ \A x \in 1..(Len(pieces[k]) - 1) : pieces[k][x] \notin D
             /\ Told(list[k], Delimiter(list, k), pieces[k])
  <2>1. list[k] \in Phrase /\ list[k].accent \in 1..Len(list[k].moras)
    BY <1>3
  <2>2. Delimiter(list, k) \in {<<>>, <<Pause>>, <<Nopause>>}
    BY DEF Delimiter
  <2>3. Chained(pieces[k], PhraseNotation(list[k]), Delimiter(list, k))
    BY <1>4 DEF Chained
  <2> QED BY <2>1, <2>2, <2>3, PieceReads
<1>6. pieces \in Seq(Seq(T)) /\ Len(pieces) = N
  <2>1. N \in Nat
    OBVIOUS
  <2>2. pieces \in [1..N -> Seq(T)]
    <3>1. \A k \in 1..N : pieces[k] \in Seq(T)
      BY <1>5
    <3> HIDE DEF T
    <3> QED BY <1>4, <3>1
  <2> HIDE DEF T
  <2> QED BY <2>1, <2>2
<1>7. ASSUME NEW k \in 1..(N - 1) PROVE pieces[k][Len(pieces[k])] \in D
  <2>1. k \in 1..N /\ k # Len(list)
    BY <1>2
  <2>2. Delimiter(list, k) # <<>> /\ Delimiter(list, k)[1] \in D
    BY <2>1 DEF Delimiter
  <2> QED BY <1>5, <2>1, <2>2 DEF Told
<1>8. Parted(D, pieces)
  <2> HIDE DEF D, T
  <2> QED BY <1>5, <1>6, <1>7 DEF Parted
<1>9. tokens = FlattenSeq(pieces)
  <2>1. pieces = [k \in DOMAIN list |-> PhraseNotation(list[k])
                    \o (IF k = Len(list) THEN <<>>
                        ELSE IF list[k].pause THEN <<Pause>> ELSE <<Nopause>>)]
    BY <1>3, <1>4 DEF Delimiter
  <2> QED BY <2>1 DEF Notation
<1>10. PICK ends : ends = [k \in 1..N |-> Len(Joint(pieces, k))]
  OBVIOUS
<1>11. /\ tokens \in Seq(T)
       /\ \A k \in 1..N :
            /\ ends[k] \in 1..Len(tokens) /\ (ends[k] = Len(tokens) \/ tokens[ends[k]] \in D)
            /\ SubSeq(tokens, IF k = 1 THEN 1 ELSE ends[k - 1] + 1, ends[k]) = pieces[k]
       /\ \A k \in 2..N : ends[k - 1] < ends[k]
       /\ \A x \in 1..Len(tokens) :
            x = Len(tokens) \/ tokens[x] \in D => \E k \in 1..N : x = ends[k]
  <2>1. Len(pieces) # 0
    BY <1>6
  <2> HIDE DEF D, T
  <2>2. AreEnds(pieces, ends)
    BY <1>6, <1>10 DEF AreEnds
  <2>3. IsCut(T, D, pieces, tokens, ends)
    BY <1>6, <1>8, <1>9, <2>1, <2>2, CutThere
  <2> QED BY <1>6, <2>3, Zenon DEF IsCut
<1>12. \A x : x \in Ends(tokens) <=> x \in 1..Len(tokens) /\ (x = Len(tokens) \/ tokens[x] \in D)
  BY DEF Ends
<1> HIDE DEF D, T
<1>13. ends \in [1..N -> Ends(tokens)]
  <2>1. \A k \in 1..N : ends[k] \in Ends(tokens)
    BY <1>11, <1>12, Zenon
  <2>2. ends = [k \in 1..N |-> ends[k]]
    BY <1>10
  <2> QED BY <2>1, <2>2
<1>14. {ends[k] : k \in DOMAIN ends} = Ends(tokens)
  <2>1. DOMAIN ends = 1..N
    BY <1>10
  <2>2. \A k \in 1..N : ends[k] \in Ends(tokens)
    BY <1>11, <1>12, Zenon
  <2>3. \A x \in Ends(tokens) : \E k \in 1..N : x = ends[k]
    BY <1>11, <1>12, Zenon
  <2> QED BY <2>1, <2>2, <2>3, Zenon
<1>15. \A k \in 1..N : Part(tokens, ends, k) = pieces[k]
  BY <1>11, Zenon DEF Part
<1>16. \A k \in 1..N : Told(list[k], Delimiter(list, k), Part(tokens, ends, k))
  BY <1>5, <1>15, Zenon
<1> QED BY <1>2, <1>11, <1>13, <1>14, <1>16, Zenon

LEMMA WrittenReadable ==
  ASSUME phrases \in PhraseLists, data = Notation(phrases)
  PROVE  NotationReadable
<1> SUFFICES ASSUME phrases # <<>>
             PROVE  \E ends \in [1..Len(phrases) -> Ends(data)] :
                      /\ {ends[k] : k \in DOMAIN ends} = Ends(data)
                      /\ \A k \in 2..Len(phrases) : ends[k - 1] < ends[k]
                      /\ \A k \in 1..Len(phrases) :
                           LET part == Part(data, ends, k)
                               body == PhraseText(phrases[k])
                           IN /\ phrases[k].ask <=> \E i \in DOMAIN part : part[i] = Ask
                              /\ k < Len(phrases) => (phrases[k].pause <=> Last(part) = Pause)
                              /\ Len(body) <= Len(part) /\ SubSeq(part, 1, Len(body)) = body
                              /\ \A i \in (Len(body) + 1)..Len(part) : part[i] \in {Pause, Nopause, Ask}
  BY DEF NotationReadable
<1>1. PICK ends \in [1..Len(phrases) -> Ends(data)] :
        /\ {ends[k] : k \in DOMAIN ends} = Ends(data)
        /\ \A k \in 2..Len(phrases) : ends[k - 1] < ends[k]
        /\ \A k \in 1..Len(phrases) : Told(phrases[k], Delimiter(phrases, k), Part(data, ends, k))
  BY NotationReads, Zenon
<1>2. ASSUME NEW k \in 1..Len(phrases), NEW part, part = Part(data, ends, k),
             NEW body, body = PhraseText(phrases[k])
      PROVE  /\ phrases[k].ask <=> \E i \in DOMAIN part : part[i] = Ask
             /\ k < Len(phrases) => (phrases[k].pause <=> Last(part) = Pause)
             /\ Len(body) <= Len(part) /\ SubSeq(part, 1, Len(body)) = body
             /\ \A i \in (Len(body) + 1)..Len(part) : part[i] \in {Pause, Nopause, Ask}
  <2>1. Told(phrases[k], Delimiter(phrases, k), part)
    BY <1>1, <1>2, Zenon
  <2>2. k < Len(phrases) => (phrases[k].pause <=> Last(part) = Pause)
    <3> SUFFICES ASSUME k < Len(phrases) PROVE phrases[k].pause <=> Last(part) = Pause
      OBVIOUS
    <3>1. k # Len(phrases)
      OBVIOUS
    <3>2. Delimiter(phrases, k) = IF phrases[k].pause THEN <<Pause>> ELSE <<Nopause>>
      BY <3>1 DEF Delimiter
    <3>3. PICK d : d = Delimiter(phrases, k)
      OBVIOUS
    <3>4. d # <<>> /\ d[1] = IF phrases[k].pause THEN Pause ELSE Nopause
      BY <3>2, <3>3
    <3>5. part[Len(part)] = d[1]
      BY <2>1, <3>3, <3>4, Zenon DEF Told
    <3>6. Pause # Nopause
      BY DEF Pause, Nopause
    <3> QED BY <3>4, <3>5, <3>6, Zenon DEF Last
  <2> QED BY <1>2, <2>1, <2>2, Zenon DEF Told, Sign
<1> QED BY <1>1, <1>2, ZenonT(50)

-----------------------------------------------------------------------------
(* Kana are read.                                                          *)

\* A mora is written with at least one character, and takes as many bytes.
LEMMA KeysWritten ==
  ASSUME NEW key \in Keys
  PROVE  /\ key \in Seq(Char) /\ Len(key) >= 1
         /\ Size(key) \in Nat /\ Size(key) >= Len(key)
<1>1. \A t \in Texts : t \in Seq(Char) /\ t # <<>>
  <2> SUFFICES ASSUME NEW t \in Texts PROVE t \in Seq(Char) /\ t # <<>>
    OBVIOUS
  <2>1. t \in Seq(Kana) /\ t # <<>>
    BY KanaAssumption
  <2> QED BY <2>1, SeqMonotonic DEF Char
<1>2. key \in Seq(Char) /\ key # <<>>
  <2>1. CASE key \in Texts
    BY <1>1, <2>1
  <2>2. CASE key \notin Texts
    <3>1. PICK t \in Voiceable : key = <<Unvoice>> \o t
      BY <2>2 DEF Keys
    <3>2. t \in Seq(Char)
      BY <1>1, KanaAssumption
    <3>3. <<Unvoice>> \in Seq(Char)
      BY DEF Char
    <3>4. PICK m \in Seq(Char) : m = <<Unvoice>>
      BY <3>3
    <3>5. Len(m) = 1
      BY <3>4
    <3>6. PICK u \in Seq(Char) : u = t
      BY <3>2
    <3>7. m \o u \in Seq(Char) /\ Len(m \o u) = Len(m) + Len(u) /\ Len(u) \in Nat
      OBVIOUS
    <3>8. key = m \o u
      BY <3>1, <3>4, <3>6
    <3>9. Len(key) # 0
      BY <3>5, <3>7, <3>8
    <3> QED BY <3>7, <3>8, <3>9
  <2> QED BY <2>1, <2>2
<1>3. PICK n \in Nat : n = Len(key)
  BY <1>2
<1>4. n >= 1
  BY <1>2, <1>3, EmptySeq
<1>5. PICK marks \in {0, 1} : marks = IF Head(key) = Unvoice THEN 1 ELSE 0
  OBVIOUS
<1>6. Size(key) = marks + 3 * (n - marks)
  BY <1>3, <1>5 DEF Size, KanaBytes
<1> QED BY <1>2, <1>3, <1>4, <1>5, <1>6

\* The characters up to the next accent mark.
LEMMA AheadReads ==
  ASSUME input \in Seq(Char), at \in Nat, at < Len(input)
  PROVE  /\ Ahead \in Seq(Char) /\ at + Len(Ahead) <= Len(input)
         /\ \A n \in 1..Len(Ahead) : Ahead[n] = input[at + n]
<1> DEFINE marks == {i \in at + 1..Len(input) : input[i] = Accent}
<1>1. PICK l \in Nat : l = Len(input)
  OBVIOUS
<1>2. PICK end \in Int :
        /\ end = IF marks = {} THEN Len(input) ELSE (CHOOSE i \in marks : \A j \in marks : i <= j) - 1
        /\ at <= end /\ end <= l
  <2>1. CASE marks = {}
    BY <1>1, <2>1
  <2>2. CASE marks # {}
    <3>1. marks \in SUBSET ((at + 1)..l)
      BY <1>1
    <3>2. at + 1 \in Int /\ l \in Int
      OBVIOUS
    <3>3. \E i \in marks : \A j \in marks : i <= j
      <4> HIDE DEF marks
      <4> QED BY <2>2, <3>1, <3>2, LeastPlace
    <3>4. PICK e : e = CHOOSE i \in marks : \A j \in marks : i <= j
      OBVIOUS
    <3>5. e \in marks
      <4> HIDE DEF marks
      <4> QED BY <3>3, <3>4
    <3>6. e - 1 \in Int /\ at <= e - 1 /\ e - 1 <= l
      BY <3>1, <3>5
    <3> HIDE DEF marks
    <3>7. e - 1 = IF marks = {} THEN Len(input) ELSE (CHOOSE i \in marks : \A j \in marks : i <= j) - 1
      BY <2>2, <3>4
    <3> QED BY <3>6, <3>7, Zenon
  <2> QED BY <2>1, <2>2
<1>3. Ahead = SubSeq(input, at + 1, end)
  BY <1>2 DEF Ahead
<1> HIDE DEF marks
<1>4. PICK from \in Int : from = at + 1
  OBVIOUS
<1>5. \A k \in from..end : input[k] \in Char
  <2>1. \A k \in from..end : k \in 1..Len(input)
    BY <1>1, <1>2, <1>4
  <2> QED BY <2>1, ElementOfSeq
<1>6. /\ SubSeq(input, from, end) \in Seq(Char)
      /\ Len(SubSeq(input, from, end)) = IF from <= end THEN end - from + 1 ELSE 0
      /\ \A n \in 1..(end - from + 1) : SubSeq(input, from, end)[n] = input[from + n - 1]
  BY <1>5, SubSeqProperties
<1>7. Ahead \in Seq(Char) /\ Len(Ahead) = end - at
  BY <1>2, <1>3, <1>4, <1>6
<1>8. ASSUME NEW n \in 1..Len(Ahead) PROVE Ahead[n] = input[at + n]
  <2>1. n \in 1..(end - from + 1) /\ from + n - 1 = at + n
    BY <1>2, <1>4, <1>7, SMTT(30)
  <2> QED BY <1>3, <1>4, <1>6, <2>1
<1> QED BY <1>1, <1>2, <1>7, <1>8, SMTT(30)

\* The longest beginning that is a mora stands in the input where it is read.
LEMMA MatchedReads ==
  ASSUME input \in Seq(Char), at \in Nat, at < Len(input), Matches # {}
  PROVE  /\ MatchedText \in Keys /\ at + Len(MatchedText) <= Len(input)
         /\ SubSeq(input, at + 1, at + 1 + Len(MatchedText) - 1) = MatchedText
<1>1. PICK ahead \in Seq(Char) : ahead = Ahead
  BY AheadReads
<1>2. PICK l \in Nat : l = Len(ahead)
  OBVIOUS
<1>3. at + l <= Len(input) /\ \A n \in 1..l : ahead[n] = input[at + n]
  BY <1>1, <1>2, AheadReads
<1>4. Matches = {n \in 1..l : SubSeq(ahead, 1, n) \in Keys}
  BY <1>1, <1>2 DEF Matches
<1>5. \E n \in Matches : \A k \in Matches : k <= n
  <2>1. PICK R : R = {r \in Int \X Int : r[1] >= r[2]}
    OBVIOUS
  <2>2. \A x, y \in Int : <<x, y>> \in R <=> x >= y
    BY <2>1
  <2>3. IsFiniteSet(Matches) /\ Matches \subseteq Int
    <3>1. Matches \subseteq 1..l
      BY <1>4
    <3>2. 1 \in Int /\ l \in Int /\ 1..l \subseteq Int
      OBVIOUS
    <3>3. IsFiniteSet(1..l)
      BY <3>2, FS_Interval
    <3> QED BY <3>1, <3>2, <3>3, FS_Subset, Zenon
  <2>4. /\ \A x, y \in Matches : <<x, y>> \in R \/ <<y, x>> \in R
        /\ \A x, y, z \in Matches : <<x, y>> \in R /\ <<y, z>> \in R => <<x, z>> \in R
    BY <2>2, <2>3
  <2>5. \E n \in Matches : \A k \in Matches : <<n, k>> \in R
    BY <2>3, <2>4, FirstExists
  <2> QED BY <2>2, <2>3, <2>5
<1>6. PICK n \in Matches : n = CHOOSE i \in Matches : \A k \in Matches : k <= i
  BY <1>5
<1>7. MatchedText = SubSeq(ahead, 1, n)
  BY <1>1, <1>6 DEF MatchedText
<1>8. n \in 1..l /\ SubSeq(ahead, 1, n) \in Keys
  BY <1>4
<1>9. PICK m \in Int : m = n
  BY <1>8
<1>10. PICK found : found = SubSeq(ahead, 1, m)
  OBVIOUS
<1>11. found \in Seq(Char) /\ Len(found) = m /\ \A k \in 1..m : found[k] = ahead[k]
  <2>1. \A k \in 1..m : ahead[k] \in Char
    BY <1>2, <1>8, <1>9, ElementOfSeq
  <2>2. /\ SubSeq(ahead, 1, m) \in Seq(Char)
        /\ Len(SubSeq(ahead, 1, m)) = IF 1 <= m THEN m - 1 + 1 ELSE 0
        /\ \A k \in 1..(m - 1 + 1) : SubSeq(ahead, 1, m)[k] = ahead[1 + k - 1]
    BY <2>1, SubSeqProperties
  <2>3. m >= 1 /\ m - 1 + 1 = m
    BY <1>8, <1>9
  <2>4. \A k \in 1..m : 1 + k - 1 = k
    OBVIOUS
  <2>5. \A k \in 1..m : found[k] = ahead[1 + k - 1]
    BY <1>10, <2>2, <2>3
  <2> QED BY <1>10, <2>2, <2>3, <2>4, <2>5
<1>12. PICK from \in Int : from = at + 1
  OBVIOUS
<1>13. PICK to \in Int : to = at + 1 + m - 1
  OBVIOUS
<1>14. to = at + m /\ to - from + 1 = m /\ from <= to
  BY <1>8, <1>9, <1>12, <1>13
<1>15. /\ SubSeq(input, from, to) \in Seq(Char)
       /\ Len(SubSeq(input, from, to)) = m
       /\ \A k \in 1..m : SubSeq(input, from, to)[k] = input[from + k - 1]
  <2>1. \A k \in from..to : input[k] \in Char
    <3>1. \A k \in from..to : k \in 1..Len(input)
      BY <1>2, <1>3, <1>8, <1>9, <1>12, <1>14
    <3> QED BY <3>1, ElementOfSeq
  <2>2. /\ SubSeq(input, from, to) \in Seq(Char)
        /\ Len(SubSeq(input, from, to)) = IF from <= to THEN to - from + 1 ELSE 0
        /\ \A k \in 1..(to - from + 1) : SubSeq(input, from, to)[k] = input[from + k - 1]
    BY <2>1, SubSeqProperties
  <2> QED BY <1>14, <2>2
<1>16. \A k \in 1..m : SubSeq(input, from, to)[k] = found[k]
  <2>1. \A k \in 1..m : k \in 1..l /\ from + k - 1 = at + k
    BY <1>8, <1>9, <1>12
  <2> QED BY <1>3, <1>11, <1>15, <2>1
<1>17. SubSeq(input, from, to) = found
  BY <1>11, <1>15, <1>16, SeqEqual
<1>18. MatchedText = found
  BY <1>7, <1>9, <1>10
<1>19. found \in Keys
  BY <1>8, <1>9, <1>10
<1>20. at + m <= Len(input)
  BY <1>3, <1>8, <1>9
<1> QED BY <1>11, <1>12, <1>13, <1>17, <1>18, <1>19, <1>20

\* A byte that every case takes leads to a state of the switch.
LEMMA StatesLead ==
  ASSUME NEW st \in Range(States), NEW byte,
         NEW results, results = [k \in DOMAIN CasesFrom(st) |-> Case(CasesFrom(st)[k], byte)],
         \A k \in DOMAIN results : results[k][1] # "fails"
  PROVE  Last(results)[1] \in Range(States)
<1>1. Range(States) = {"None", "Second", "Is0x80", "Is0x82", "Is0x83"} /\ Len(States) = 5
  BY DEF Range, States
<1>2. \A c : Case(c, byte)[1] \in Range(States) \cup {"fails"}
  BY <1>1 DEF Case
<1>3. PICK c \in DOMAIN States : c = CHOOSE k \in DOMAIN States : States[k] = st
  BY DEF Range
<1>4. c \in 1..5
  BY DEF States
<1>5. PICK cases : cases = CasesFrom(st)
  OBVIOUS
<1>6. PICK n \in Nat \ {0} : n = 5 - c + 1
  BY <1>4
<1>7. DOMAIN cases = 1..n
  BY <1>1, <1>3, <1>4, <1>5, <1>6 DEF CasesFrom, States
<1>8. results \in [1..n -> {Case(cases[k], byte) : k \in 1..n}]
  BY <1>5, <1>7
<1>9. Len(results) = n
  BY <1>8
<1>10. n \in DOMAIN results /\ results[n] = Case(cases[n], byte)
  BY <1>5, <1>7
<1>11. results[n][1] \in Range(States)
  BY <1>2, <1>10
<1> QED BY <1>9, <1>11 DEF Last

-----------------------------------------------------------------------------
(* One call.                                                               *)

\* Nothing has happened before the call.
Uncalled ==
  /\ phrases = <<>> /\ input = <<>> /\ at = 0 /\ state = "None"
  /\ kanaMoras = <<>> /\ accent = -1 /\ loops = 0 /\ what = "none"

\* Where reading goes on behind the mora at k: the characters it loses and the
\* accent are passed over.
GoesOn(mora, k) == mora[1] + Size(mora[2]) + (IF accent = k THEN 1 ELSE 0)

\* The moras read so far stand in the input, each where the one before it let
\* reading go on, and the accent where it was found.
MorasStand ==
  /\ kanaMoras \in Seq(Nat \X Seq(Char))
  /\ \A k \in 1..Len(kanaMoras) :
       /\ kanaMoras[k][1] \in 1..Len(input) /\ kanaMoras[k][2] \in Keys
       /\ SubSeq(input, kanaMoras[k][1], kanaMoras[k][1] + Len(kanaMoras[k][2]) - 1) = kanaMoras[k][2]
       /\ accent = k => input[kanaMoras[k][1] + Size(kanaMoras[k][2])] = Accent
       /\ k < Len(kanaMoras) => kanaMoras[k + 1][1] = GoesOn(kanaMoras[k], k)
       /\ k = Len(kanaMoras) /\ pc = "read" => at + 1 = GoesOn(kanaMoras[k], k)

\* What text_to_accent_phrase has read: the loop goes round at most once for
\* each character it has left behind, and once more than the limit lets moras
\* only by the accent.
ReadSoFar ==
  /\ input \in Seq(Char) /\ at \in Nat /\ loops \in Nat
  /\ MorasStand
  /\ accent = -1 \/ accent \in 1..Len(kanaMoras)
  /\ loops <= LoopLimit + (IF accent = -1 THEN 0 ELSE 1)
  /\ pc = "read" => loops <= at
  /\ pc = "returned" /\ input # <<>> => accent # -1
  /\ NoFalseAlarm

KanaInv ==
  /\ pc \in {"idle", "split", "read", "returned", "thrown", "overrun"}
  /\ pc = "idle" => Uncalled
  /\ phrases # <<>> => pc = "returned" /\ phrases \in PhraseLists /\ data = Notation(phrases)
  /\ state \in Range(States)
  /\ ReadSoFar

LEMMA KanaInvSound ==
  ASSUME KanaInv
  PROVE  KanaSound
<1>1. KanaTypeOK
  BY KanaAssumption, SMTT(30) DEF KanaInv, ReadSoFar, MorasStand, KanaTypeOK
<1>2. NotationReadable
  <2>1. CASE phrases = <<>>
    BY <2>1 DEF NotationReadable
  <2>2. CASE phrases # <<>>
    BY <2>2, WrittenReadable DEF KanaInv
  <2> QED BY <2>1, <2>2
<1>3. AccentOnMora
  BY DEF KanaInv, ReadSoFar, AccentOnMora
<1>4. ReadForwards
  <2>1. MorasStand
    BY DEF KanaInv, ReadSoFar
  <2>2. ASSUME NEW k \in 1..Len(kanaMoras)
        PROVE  LET begins == kanaMoras[k][1]
                   key == kanaMoras[k][2]
                   behind == begins + Len(key) + Lost(key)
               IN /\ SubSeq(input, begins, begins + Len(key) - 1) = key
                  /\ accent = k => input[behind] = Accent
                  /\ k < Len(kanaMoras) =>
                       kanaMoras[k + 1][1] = IF accent = k THEN behind + 1 ELSE behind
    <3> DEFINE begins == kanaMoras[k][1]
               key == kanaMoras[k][2]
               behind == begins + Len(key) + Lost(key)
    <3>1. /\ begins \in 1..Len(input) /\ key \in Keys
          /\ SubSeq(input, begins, begins + Len(key) - 1) = key
          /\ accent = k => input[begins + Size(key)] = Accent
          /\ k < Len(kanaMoras) => kanaMoras[k + 1][1] = GoesOn(kanaMoras[k], k)
      BY <2>1, Zenon DEF MorasStand
    <3>2. PICK size \in Nat : size = Size(key)
      BY <3>1, KeysWritten
    <3>3. PICK n \in Nat : n = Len(key)
      <4>1. key \in Seq(Char)
        BY <3>1, KeysWritten
      <4> QED BY <4>1
    <3>4. PICK x \in Int : x = begins
      BY <3>1
    <3>5. behind = x + size
      BY <3>2, <3>3, <3>4 DEF Lost
    <3>6. GoesOn(kanaMoras[k], k) = IF accent = k THEN behind + 1 ELSE behind
      BY <3>2, <3>4, <3>5 DEF GoesOn
    <3>7. begins + Size(key) = behind
      BY <3>2, <3>4, <3>5
    <3>8. accent = k => input[behind] = Accent
      <4> HIDE DEF begins, key, behind
      <4> QED BY <3>1, <3>7
    <3>9. k < Len(kanaMoras) =>
            kanaMoras[k + 1][1] = IF accent = k THEN behind + 1 ELSE behind
      <4> HIDE DEF behind
      <4> QED BY <3>1, <3>6
    <3> QED BY <3>1, <3>8, <3>9, Zenon
  <2> QED BY <2>2, Zenon DEF ReadForwards
<1>5. NoFalseAlarm
  BY DEF KanaInv, ReadSoFar
<1> QED BY <1>1, <1>2, <1>3, <1>4, <1>5 DEF KanaSound

\* An exception leaves what was read as it is.
LEMMA ThrownKeeps ==
  ASSUME KanaInv, NEW exception, Throw(exception), pc \in {"split", "read"},
         exception = "endless loop" => Len(input) > LoopLimit
  PROVE  KanaInv'
<1>1. pc' = "thrown" /\ phrases = <<>> /\ phrases' = <<>>
  BY DEF KanaInv, Throw
<1>2. input' = input /\ at' = at /\ loops' = loops /\ accent' = accent /\ state' = state
      /\ kanaMoras' = kanaMoras /\ what' = exception
  BY DEF Throw
<1>3. MorasStand'
  BY <1>1, <1>2 DEF KanaInv, ReadSoFar, MorasStand, GoesOn
<1>4. ReadSoFar'
  BY <1>1, <1>2, <1>3 DEF KanaInv, ReadSoFar, NoFalseAlarm
<1> QED BY <1>1, <1>2, <1>4 DEF KanaInv

\* Nor do steps outside text_to_accent_phrase touch it.
LEMMA OthersKeep ==
  ASSUME KanaInv, pc' \in {"split", "returned", "overrun"}, pc' = "returned" => input = <<>>,
         at' \in Nat, at' >= at,
         UNCHANGED <<input, kanaMoras, accent, loops, what>>
  PROVE  ReadSoFar'
<1>1. MorasStand'
  BY DEF KanaInv, ReadSoFar, MorasStand, GoesOn
<1> QED BY <1>1 DEF KanaInv, ReadSoFar, NoFalseAlarm

\* A mora is read: it stands where reading goes on, which the bytes it takes
\* move forwards by at least its characters.
LEMMA MoraIsRead ==
  ASSUME KanaInv, ReadMora
  PROVE  KanaInv'
<1>1. pc = "read" /\ at < Len(input) /\ input \in Seq(Char) /\ at \in Nat /\ loops \in Nat /\ loops <= at
  BY DEF ReadMora, Reading, KanaInv, ReadSoFar
<1>2. CASE Matches = {}
  <2>1. Throw("unknown kana")
    BY <1>2 DEF ReadMora
  <2> QED BY <1>1, <2>1, ThrownKeeps
<1>3. CASE Matches # {} /\ loops + 1 > LoopLimit
  <2>1. Throw("endless loop")
    BY <1>3 DEF ReadMora
  <2>2. Len(input) > LoopLimit
    <3>1. PICK l \in Nat : l = Len(input)
      BY <1>1
    <3> QED BY <1>1, <1>3, <3>1, KanaAssumption
  <2> QED BY <1>1, <2>1, <2>2, ThrownKeeps
<1>4. CASE Matches # {} /\ ~(loops + 1 > LoopLimit)
  <2>1. /\ kanaMoras' = Append(kanaMoras, <<at + 1, MatchedText>>)
        /\ at' = at + Size(MatchedText) /\ loops' = loops + 1
        /\ UNCHANGED <<pc, phrases, input, data, state, accent, what>>
    BY <1>4 DEF ReadMora
  <2>2. PICK key \in Keys : key = MatchedText
    BY <1>1, <1>4, MatchedReads
  <2>3. PICK m \in Seq(Char) : m = key
    BY KeysWritten
  <2>4. PICK n \in Nat : n = Len(m)
    OBVIOUS
  <2>5. PICK size \in Nat : size = Size(MatchedText)
    BY <2>2, KeysWritten
  <2>6. n >= 1 /\ size >= n
    <3>1. Len(key) >= 1 /\ Size(key) >= Len(key)
      BY KeysWritten
    <3> QED BY <2>2, <2>3, <2>4, <2>5, <3>1
  <2>7. PICK l \in Nat : l = Len(input)
    BY <1>1
  <2>8. at + n <= l /\ SubSeq(input, at + 1, at + 1 + n - 1) = m
    BY <1>1, <1>4, <2>2, <2>3, <2>4, <2>7, MatchedReads
  <2>9. PICK ms \in Seq(Nat \X Seq(Char)) : ms = kanaMoras
    BY DEF KanaInv, ReadSoFar, MorasStand
  <2>10. PICK new \in Nat \X Seq(Char) : new = <<at + 1, m>>
    <3>1. PICK a \in Nat : a = at + 1
      BY <1>1
    <3>2. <<a, m>> \in Nat \X Seq(Char)
      OBVIOUS
    <3> QED BY <3>1, <3>2, Zenon
  <2>11. PICK N \in Nat : N = Len(ms)
    OBVIOUS
  <2>12. PICK more : more = Append(ms, new)
    OBVIOUS
  <2>13. /\ more \in Seq(Nat \X Seq(Char)) /\ Len(more) = N + 1
         /\ \A k \in 1..N : more[k] = ms[k]
         /\ more[N + 1] = new
    BY <2>11, <2>12, AppendProperties
  <2>14. kanaMoras' = more
    BY <2>1, <2>2, <2>3, <2>9, <2>10, <2>12
  <2>15. new[1] = at + 1 /\ new[2] = m
    BY <2>10
  <2>16. at' = at + size
    BY <2>1, <2>5
  <2>17. accent' = accent /\ (accent = -1 \/ accent \in 1..N)
    BY <2>1, <2>9, <2>11 DEF KanaInv, ReadSoFar
  <2>18. ASSUME NEW k \in 1..N
         PROVE  /\ more[k][1] \in 1..Len(input) /\ more[k][2] \in Keys
                /\ SubSeq(input, more[k][1], more[k][1] + Len(more[k][2]) - 1) = more[k][2]
                /\ accent = k => input[more[k][1] + Size(more[k][2])] = Accent
                /\ more[k + 1][1] = GoesOn(more[k], k)
    <3>1. /\ ms[k][1] \in 1..Len(input) /\ ms[k][2] \in Keys
          /\ SubSeq(input, ms[k][1], ms[k][1] + Len(ms[k][2]) - 1) = ms[k][2]
          /\ accent = k => input[ms[k][1] + Size(ms[k][2])] = Accent
          /\ k < N => ms[k + 1][1] = GoesOn(ms[k], k)
          /\ k = N => at + 1 = GoesOn(ms[k], k)
      BY <1>1, <2>9, <2>11, Zenon DEF KanaInv, ReadSoFar, MorasStand
    <3>2. more[k] = ms[k]
      BY <2>13
    <3>3. more[k + 1][1] = GoesOn(ms[k], k)
      <4>1. CASE k = N
        BY <2>13, <2>15, <3>1, <4>1
      <4>2. CASE k # N
        <5>1. k < N /\ k + 1 \in 1..N
          BY <4>2
        <5> QED BY <2>13, <3>1, <5>1
      <4> QED BY <4>1, <4>2
    <3> QED BY <3>1, <3>2, <3>3, Zenon
  <2>19. /\ new[1] \in 1..Len(input) /\ new[2] \in Keys
         /\ SubSeq(input, new[1], new[1] + Len(new[2]) - 1) = new[2]
         /\ accent # N + 1
         /\ at' + 1 = GoesOn(new, N + 1)
    <3>1. at + 1 \in 1..l
      BY <1>1, <2>7
    <3>2. accent # N + 1
      BY <2>17
    <3>3. Size(new[2]) = size
      BY <2>2, <2>3, <2>5, <2>15
    <3>4. at' + 1 = GoesOn(new, N + 1)
      BY <1>1, <2>15, <2>16, <3>2, <3>3 DEF GoesOn
    <3> QED BY <2>3, <2>4, <2>7, <2>8, <2>15, <3>1, <3>2, <3>4
  <2>20. MorasStand'
    <3>1. ASSUME NEW k \in 1..(N + 1)
          PROVE  /\ more[k][1] \in 1..Len(input) /\ more[k][2] \in Keys
                 /\ SubSeq(input, more[k][1], more[k][1] + Len(more[k][2]) - 1) = more[k][2]
                 /\ accent = k => input[more[k][1] + Size(more[k][2])] = Accent
                 /\ k < N + 1 => more[k + 1][1] = GoesOn(more[k], k)
                 /\ k = N + 1 => at' + 1 = GoesOn(more[k], k)
      <4>1. CASE k = N + 1
        <5>1. more[k] = new /\ ~(k < N + 1) /\ accent # k
          BY <2>13, <2>19, <4>1
        <5> QED BY <2>19, <4>1, <5>1, Zenon
      <4>2. CASE k # N + 1
        <5>1. k \in 1..N
          BY <4>2
        <5> QED BY <2>18, <4>2, <5>1, Zenon
      <4> QED BY <4>1, <4>2
    <3>2. input' = input /\ accent' = accent
      BY <2>1
    <3>3. /\ kanaMoras' \in Seq(Nat \X Seq(Char))
          /\ \A k \in 1..Len(kanaMoras') :
               /\ kanaMoras'[k][1] \in 1..Len(input') /\ kanaMoras'[k][2] \in Keys
               /\ SubSeq(input', kanaMoras'[k][1], kanaMoras'[k][1] + Len(kanaMoras'[k][2]) - 1)
                    = kanaMoras'[k][2]
               /\ accent' = k => input'[kanaMoras'[k][1] + Size(kanaMoras'[k][2])] = Accent
               /\ k < Len(kanaMoras') => kanaMoras'[k + 1][1] = GoesOn(kanaMoras'[k], k)
               /\ k = Len(kanaMoras') => at' + 1 = GoesOn(kanaMoras'[k], k)
      BY <2>13, <2>14, <3>1, <3>2
    <3> QED BY <3>2, <3>3 DEF MorasStand, GoesOn
  <2>21. accent' = -1 \/ accent' \in 1..Len(kanaMoras')
    <3>1. accent' = accent /\ (accent = -1 \/ accent \in 1..N)
      BY <2>1, <2>9, <2>11 DEF KanaInv, ReadSoFar
    <3>2. Len(kanaMoras') = N + 1
      BY <2>13, <2>14
    <3> QED BY <3>1, <3>2
  <2>22. /\ at' \in Nat /\ loops' \in Nat /\ loops' <= at'
         /\ loops' <= LoopLimit + (IF accent' = -1 THEN 0 ELSE 1)
    BY <1>1, <1>4, <2>1, <2>6, <2>16, KanaAssumption
  <2>23. ReadSoFar'
    BY <1>1, <2>1, <2>20, <2>21, <2>22 DEF KanaInv, ReadSoFar, NoFalseAlarm
  <2> QED BY <1>1, <2>1, <2>23 DEF KanaInv
<1> QED BY <1>2, <1>3, <1>4

\* The accent is put on the mora before it.
LEMMA AccentIsTaken ==
  ASSUME KanaInv, TakeAccent
  PROVE  KanaInv'
<1>1. pc = "read" /\ at < Len(input) /\ input \in Seq(Char) /\ at \in Nat /\ loops \in Nat /\ loops <= at
  BY DEF TakeAccent, Reading, KanaInv, ReadSoFar
<1>2. CASE kanaMoras = <<>>
  <2>1. Throw("accent first")
    BY <1>2 DEF TakeAccent
  <2> QED BY <1>1, <2>1, ThrownKeeps
<1>3. CASE kanaMoras # <<>> /\ accent # -1
  <2>1. Throw("two accents")
    BY <1>3 DEF TakeAccent
  <2> QED BY <1>1, <2>1, ThrownKeeps
<1>4. CASE kanaMoras # <<>> /\ accent = -1
  <2>1. /\ accent' = Len(kanaMoras) /\ at' = at + 1 /\ loops' = loops + 1
        /\ UNCHANGED <<pc, phrases, input, data, state, kanaMoras, what>>
    BY <1>4 DEF TakeAccent
  <2>2. MorasStand'
    <3>1. MorasStand /\ kanaMoras' = kanaMoras /\ input' = input /\ input[at + 1] = Accent
      BY <1>4, <2>1 DEF TakeAccent, KanaInv, ReadSoFar
    <3>2. PICK N \in Nat : N = Len(kanaMoras)
      BY <3>1 DEF MorasStand
    <3>3. ASSUME NEW k \in 1..N
          PROVE  /\ accent' = k => input[kanaMoras[k][1] + Size(kanaMoras[k][2])] = Accent
                 /\ k < N => kanaMoras[k + 1][1] = GoesOn(kanaMoras[k], k)'
                 /\ k = N => at' + 1 = GoesOn(kanaMoras[k], k)'
      <4>1. /\ kanaMoras[k][1] \in 1..Len(input) /\ kanaMoras[k][2] \in Keys
            /\ k < N => kanaMoras[k + 1][1] = GoesOn(kanaMoras[k], k)
            /\ k = N => at + 1 = GoesOn(kanaMoras[k], k)
        BY <1>1, <3>1, <3>2, Zenon DEF MorasStand
      <4>2. PICK x \in Int : x = kanaMoras[k][1]
        BY <4>1
      <4>3. PICK size \in Nat : size = Size(kanaMoras[k][2])
        BY <4>1, KeysWritten
      <4>4. GoesOn(kanaMoras[k], k) = x + size
        BY <1>4, <4>2, <4>3 DEF GoesOn
      <4>5. GoesOn(kanaMoras[k], k)' = x + size + (IF N = k THEN 1 ELSE 0)
        BY <2>1, <3>1, <3>2, <4>2, <4>3 DEF GoesOn
      <4> QED BY <1>1, <2>1, <3>1, <3>2, <4>1, <4>2, <4>3, <4>4, <4>5
    <3>4. ASSUME NEW k \in 1..N
          PROVE  /\ kanaMoras[k][1] \in 1..Len(input) /\ kanaMoras[k][2] \in Keys
                 /\ SubSeq(input, kanaMoras[k][1], kanaMoras[k][1] + Len(kanaMoras[k][2]) - 1)
                      = kanaMoras[k][2]
      BY <3>1, <3>2, Zenon DEF MorasStand
    <3>5. kanaMoras' \in Seq(Nat \X Seq(Char))
      BY <3>1 DEF MorasStand
    <3> QED BY <3>1, <3>2, <3>3, <3>4, <3>5 DEF MorasStand
  <2>3. accent' \in 1..Len(kanaMoras')
    <3>1. PICK ms \in Seq(Nat \X Seq(Char)) : ms = kanaMoras
      BY DEF KanaInv, ReadSoFar, MorasStand
    <3>2. Len(ms) \in Nat /\ Len(ms) # 0
      BY <1>4, <3>1, EmptySeq
    <3>3. accent' = Len(ms) /\ Len(kanaMoras') = Len(ms)
      BY <2>1, <3>1
    <3> QED BY <3>2, <3>3
  <2>4. loops <= LoopLimit
    BY <1>1, <1>4, KanaAssumption DEF KanaInv, ReadSoFar
  <2>5. accent' # -1
    BY <2>3
  <2>6. /\ at' \in Nat /\ loops' \in Nat /\ loops' <= at'
        /\ loops' <= LoopLimit + (IF accent' = -1 THEN 0 ELSE 1)
    BY <1>1, <2>1, <2>4, <2>5, KanaAssumption
  <2>7. ReadSoFar'
    BY <1>1, <2>1, <2>2, <2>3, <2>6 DEF KanaInv, ReadSoFar, NoFalseAlarm
  <2> QED BY <1>1, <2>1, <2>7 DEF KanaInv
<1> QED BY <1>2, <1>3, <1>4

LEMMA KanaInvKept ==
  ASSUME KanaInv, [KanaNext]_kanaVars
  PROVE  KanaInv'
<1>1. CASE Write
  <2>1. /\ pc = "idle" /\ pc' = "returned"
        /\ phrases' \in PhraseLists /\ data' = Notation(phrases')
        /\ UNCHANGED <<input, at, state, kanaMoras, accent, loops, what>>
    BY <1>1 DEF Write
  <2>2. Uncalled /\ at \in Nat
    BY <2>1 DEF KanaInv, ReadSoFar
  <2>3. ReadSoFar'
    BY <2>1, <2>2, OthersKeep DEF Uncalled
  <2> QED BY <2>1, <2>3 DEF KanaInv
<1>2. CASE Parse
  <2>1. pc = "idle" /\ pc' = "split" /\ UNCHANGED <<phrases, input, at, state, kanaMoras, accent, loops, what>>
    BY <1>2 DEF Parse
  <2>2. Uncalled /\ at \in Nat
    BY <2>1 DEF KanaInv, ReadSoFar
  <2>3. ReadSoFar'
    BY <2>1, <2>2, OthersKeep
  <2> QED BY <2>1, <2>2, <2>3 DEF KanaInv, Uncalled
<1>3. CASE SkipBlank
  <2>1. pc = "split" /\ at' = at + 1 /\ UNCHANGED <<pc, phrases, input, data, state, kanaMoras, accent, loops, what>>
    BY <1>3 DEF SkipBlank
  <2>2. at \in Nat
    BY DEF KanaInv, ReadSoFar
  <2>3. ReadSoFar'
    BY <2>1, <2>2, OthersKeep
  <2> QED BY <2>1, <2>3 DEF KanaInv
<1>4. CASE SplitByte
  <2>1. PICK results : results = [k \in DOMAIN CasesFrom(state) |-> Case(CasesFrom(state)[k], text[at + 1])]
    OBVIOUS
  <2>2. pc = "split" /\ at \in Nat /\ state \in Range(States)
    BY <1>4 DEF SplitByte, KanaInv, ReadSoFar
  <2>3. CASE \E k \in DOMAIN results : results[k][1] = "fails"
    <3>1. Throw("ParseError")
      BY <1>4, <2>1, <2>3, Zenon DEF SplitByte
    <3> QED BY <2>2, <3>1, ThrownKeeps
  <2>4. CASE ~\E k \in DOMAIN results : results[k][1] = "fails"
    <3>1. /\ at' = at + 1 /\ state' = Last(results)[1]
          /\ UNCHANGED <<pc, phrases, input, kanaMoras, accent, loops, what>>
      BY <1>4, <2>1, <2>4, Zenon DEF SplitByte
    <3>2. state' \in Range(States)
      BY <2>1, <2>2, <2>4, <3>1, StatesLead, Zenon
    <3>3. ReadSoFar'
      BY <2>2, <3>1, OthersKeep
    <3> QED BY <2>2, <3>1, <3>2, <3>3 DEF KanaInv
  <2> QED BY <2>3, <2>4
<1>5. CASE SplitDone
  <2>1. pc = "split" /\ at \in Nat
    BY <1>5 DEF SplitDone, KanaInv, ReadSoFar
  <2>2. CASE text = <<>>
    <3>1. Throw("no accent")
      BY <1>5, <2>2 DEF SplitDone
    <3> QED BY <2>1, <3>1, ThrownKeeps
  <2>3. CASE text # <<>>
    <3>1. pc' = "overrun" /\ UNCHANGED <<phrases, input, data, at, state, kanaMoras, accent, loops, what>>
      BY <1>5, <2>3 DEF SplitDone
    <3>2. ReadSoFar'
      BY <2>1, <3>1, OthersKeep
    <3> QED BY <2>1, <3>1, <3>2 DEF KanaInv
  <2> QED BY <2>2, <2>3
<1>6. CASE Read
  <2>1. /\ pc = "idle" /\ pc' = "read"
        /\ UNCHANGED <<phrases, data, at, state, kanaMoras, accent, loops, what>>
    BY <1>6 DEF Read
  <2>2. Uncalled
    BY <2>1 DEF KanaInv
  <2>3. input' \in Seq(Char)
    <3>1. input' \in Seq(Kana \cup Marks)
      BY <1>6, KanaAssumption DEF Read
    <3> QED BY <3>1, SeqMonotonic DEF Char, Marks
  <2>4. MorasStand'
    BY <2>1, <2>2 DEF Uncalled, MorasStand
  <2>5. ReadSoFar'
    BY <2>1, <2>2, <2>3, <2>4, KanaAssumption DEF Uncalled, ReadSoFar, NoFalseAlarm
  <2> QED BY <2>1, <2>2, <2>5 DEF KanaInv, Uncalled
<1>7. CASE TakeAccent
  BY <1>7, AccentIsTaken
<1>8. CASE ReadMora
  BY <1>8, MoraIsRead
<1>9. CASE ReadDone
  <2>1. pc = "read"
    BY <1>9 DEF ReadDone
  <2>2. CASE accent = -1
    <3>1. Throw("no accent")
      BY <1>9, <2>2 DEF ReadDone
    <3> QED BY <2>1, <3>1, ThrownKeeps
  <2>3. CASE accent # -1
    <3>1. pc' = "returned" /\ UNCHANGED <<phrases, input, data, at, state, kanaMoras, accent, loops, what>>
      BY <1>9, <2>3 DEF ReadDone
    <3>2. MorasStand'
      BY <3>1 DEF KanaInv, ReadSoFar, MorasStand, GoesOn
    <3>3. ReadSoFar'
      BY <2>3, <3>1, <3>2 DEF KanaInv, ReadSoFar, NoFalseAlarm
    <3> QED BY <2>1, <3>1, <3>3 DEF KanaInv
  <2> QED BY <2>2, <2>3
<1>10. CASE UNCHANGED kanaVars
  BY <1>10 DEF kanaVars, KanaInv, Uncalled, ReadSoFar, MorasStand, GoesOn, NoFalseAlarm
<1> QED BY <1>1, <1>2, <1>3, <1>4, <1>5, <1>6, <1>7, <1>8, <1>9, <1>10, Zenon DEF KanaNext

\* What create_kana writes is unambiguous; and what text_to_accent_phrase reads
\* it reads forwards, losing exactly the characters behind a mora that its bytes
\* count too many, with the accent on one of the moras; and the guard against
\* endless loops stops no phrase that is not longer than its limit: for every
\* set of kana and of moras, and phrases of any length.
THEOREM KanaIsSound == KanaSpec => []KanaSound
<1>1. KanaInit => KanaInv
  <2> SUFFICES ASSUME KanaInit PROVE KanaInv
    OBVIOUS
  <2>1. MorasStand
    BY DEF KanaInit, MorasStand
  <2>2. ReadSoFar
    BY <2>1, KanaAssumption DEF KanaInit, ReadSoFar, NoFalseAlarm
  <2>3. state \in Range(States)
    BY DEF KanaInit, Range, States
  <2> QED BY <2>2, <2>3 DEF KanaInit, KanaInv, Uncalled
<1>2. KanaInv /\ [KanaNext]_kanaVars => KanaInv'
  BY KanaInvKept
<1>3. KanaInv => KanaSound
  BY KanaInvSound
<1> QED BY <1>1, <1>2, <1>3, PTL DEF KanaSpec

-----------------------------------------------------------------------------
(* The labels say the utterance.  What is said of a phrase, read off the    *)
(* lists that are given it, so that the lists before and after a step can   *)
(* be compared.                                                            *)
Sound == {"a", "k", "A", "pau"}

SoundsAt(ps, ms, m) ==
  [k \in 1..(ms[m].tail - ms[m].head + 1) |-> ps[ms[m].head + k - 1].sound]
PauseAt(ps, ms, m) == ms[m].head > 1 /\ ps[ms[m].head - 1] = pau

\* What the moras from n on say.
Said(ps, ms, n, count) == [k \in 1..count |-> SoundsAt(ps, ms, n + k - 1)]

ItemAt(ps, ms, n, m) ==
  (IF m > n /\ PauseAt(ps, ms, m) THEN << <<"pau">> >> ELSE <<>>) \o <<SoundsAt(ps, ms, m)>>
ItemsAt(ps, ms, n, count) == [k \in 1..count |-> ItemAt(ps, ms, n, n + k - 1)]

FirstAt(ws, as, a) == ws[as[a].head].head
CountAt(ws, as, a) == ws[as[a].tail].tail - ws[as[a].head].head + 1

PhraseAt(ps, ms, ws, as, a) ==
  [moras |-> FlattenSeq(ItemsAt(ps, ms, FirstAt(ws, as, a), CountAt(ws, as, a))),
   accent |-> as[a].accent, question |-> as[a].question]

GroupAt(ps, ms, ws, as, breath) ==
  [k \in 1..(breath.tail - breath.head + 1) |-> PhraseAt(ps, ms, ws, as, breath.head + k - 1)]

GroupsAt(ps, ms, ws, as, bs) == [b \in DOMAIN bs |-> GroupAt(ps, ms, ws, as, bs[b])]

-----------------------------------------------------------------------------
(* The invariant behind the refinement: moras follow one another with at    *)
(* most a pause between them, and that only before a word; and what of the  *)
(* word being pushed is in the lists is what was heard of it so far.        *)
Follow(ps, ms) ==
  /\ \A m \in 1..Len(ms) : m + 1 \in 1..Len(ms) =>
       ms[m + 1].head = ms[m].tail + (IF PauseAt(ps, ms, m + 1) THEN 2 ELSE 1)
  /\ ps # <<>> => ms # <<>> /\ ms[Len(ms)].tail = Len(ps)
  /\ ms # <<>> => ms[1].head = 1

PausesAtHeads(ps, ms, ws) ==
  \A m \in 1..Len(ms) : PauseAt(ps, ms, m) => ws[ms[m].up].head = m

IsRestOf(rest, pron, j) ==
  /\ Len(rest) = Len(pron) - j
  /\ \A k \in 1..Len(rest) : rest[k] = pron[j + k]

\* What a word says, and what the word being pushed has said.
WordSays(ps, ms, node) == Said(ps, ms, node.head, node.tail - node.head + 1)
SaidNow == IF first THEN <<>> ELSE WordSays(phonemes, moras, words[Len(words)])

\* j tokens of w are pushed, and a word ends early at an unknown character only.
HeardOf(w, j) ==
  /\ word.accent = w.accent /\ word.chain = w.chain
  /\ HeardBy(UpToUnknown(w.pron))[j] = SaidNow
  /\ IsRestOf(word.pron, w.pron, j) \/ (word.pron = <<>> /\ j = Len(UpToUnknown(w.pron)))

WordHeard ==
  status = "word" => \E w \in Words : \E j \in 0..Len(UpToUnknown(w.pron)) : HeardOf(w, j)

UtteranceInv ==
  /\ LabelsInv /\ Follow(phonemes, moras) /\ PausesAtHeads(phonemes, moras, words)
  /\ Open => ~shortPause /\ words[Len(words)].up = 0
  /\ WordHeard

-----------------------------------------------------------------------------
(* Phrases before and after a step.                                        *)
MorasIn(ps, ms) ==
  /\ ps \in Seq(PhonemeType) /\ ms \in Seq(MoraType)
  /\ \A m \in 1..Len(ms) :
       1 <= ms[m].head /\ ms[m].head <= ms[m].tail /\ ms[m].tail <= Len(ps)

\* What a mora sounds like.
LEMMA SoundsTyped ==
  ASSUME NEW ps, NEW ms, MorasIn(ps, ms), NEW m \in 1..Len(ms)
  PROVE  SoundsAt(ps, ms, m) \in Seq(Sound)
<1>1. PICK h \in Nat, t \in Nat, l \in Nat : h = ms[m].head /\ t = ms[m].tail /\ l = Len(ps)
  <2>1. ms[m] \in MoraType
    BY DEF MorasIn
  <2> QED BY <2>1, LenProperties DEF MorasIn, MoraType
<1>2. 1 <= h /\ h <= t /\ t <= l
  BY <1>1 DEF MorasIn
<1>3. ASSUME NEW k \in 1..t - h + 1 PROVE ps[h + k - 1].sound \in Sound
  <2>1. h + k - 1 \in 1..l
    BY <1>2
  <2>2. ps[h + k - 1] \in PhonemeType
    BY <1>1, <2>1, ElementOfSeq DEF MorasIn
  <2> QED BY <2>2 DEF PhonemeType, Sound
<1>4. t - h + 1 \in Nat
  BY <1>2
<1>5. PICK f : f = [k \in 1..t - h + 1 |-> ps[h + k - 1].sound]
  OBVIOUS
<1>6. f \in [1..t - h + 1 -> Sound]
  BY <1>3, <1>5
<1>7. f \in Seq(Sound)
  BY <1>4, <1>6
<1> QED BY <1>1, <1>5, <1>7 DEF SoundsAt

pauseMora == <<"pau">>

\* A pause counts as a mora of a phrase.
LEMMA PauseTyped == pauseMora \in Seq(Sound) /\ <<pauseMora>> \in Seq(Seq(Sound)) /\ <<>> \in Seq(Seq(Sound))
<1>1. "pau" \in Sound
  BY DEF Sound
<1>2. \A T, x : x \in T => <<x>> \in Seq(T)
  OBVIOUS
<1>3. pauseMora \in Seq(Sound)
  BY <1>1, <1>2 DEF pauseMora
<1> QED BY <1>2, <1>3, EmptySeq

\* What comes before the mora m of a phrase that begins with n.
BeforeAt(ps, ms, n, m) == IF m > n /\ PauseAt(ps, ms, m) THEN <<pauseMora>> ELSE <<>>

\* An item is a mora with the pause before it, if there is one.
LEMMA ItemIs ==
  ASSUME NEW ps, NEW ms, NEW n, NEW m
  PROVE  /\ ItemAt(ps, ms, n, m) = BeforeAt(ps, ms, n, m) \o <<SoundsAt(ps, ms, m)>>
         /\ BeforeAt(ps, ms, n, m) \in Seq(Seq(Sound))
BY PauseTyped DEF ItemAt, BeforeAt, pauseMora

\* The items of a run of moras, and what the moras say.
LEMMA ItemsTyped ==
  ASSUME NEW ps, NEW ms, MorasIn(ps, ms), NEW n \in Nat \ {0}, NEW c \in Nat,
         n + c - 1 <= Len(ms)
  PROVE  /\ ItemsAt(ps, ms, n, c) \in Seq(Seq(Seq(Sound))) /\ Len(ItemsAt(ps, ms, n, c)) = c
         /\ \A k \in 1..c : ItemsAt(ps, ms, n, c)[k] = ItemAt(ps, ms, n, n + k - 1)
         /\ Said(ps, ms, n, c) \in Seq(Seq(Sound)) /\ Len(Said(ps, ms, n, c)) = c
         /\ \A k \in 1..c : Said(ps, ms, n, c)[k] = SoundsAt(ps, ms, n + k - 1)
<1>1. ASSUME NEW k \in 1..c
      PROVE  /\ ItemAt(ps, ms, n, n + k - 1) \in Seq(Seq(Sound))
             /\ SoundsAt(ps, ms, n + k - 1) \in Seq(Sound)
  <2>1. n + k - 1 \in 1..Len(ms)
    <3>1. Len(ms) \in Nat
      BY LenProperties DEF MorasIn
    <3> QED BY <3>1
  <2>2. PICK x \in Seq(Sound) : x = SoundsAt(ps, ms, n + k - 1)
    BY <2>1, SoundsTyped
  <2>3. PICK one \in Seq(Seq(Sound)) : one = <<x>>
    <3>1. \A T, y : y \in T => <<y>> \in Seq(T)
      OBVIOUS
    <3> QED BY <3>1
  <2>4. PICK pre \in Seq(Seq(Sound)) : pre = BeforeAt(ps, ms, n, n + k - 1)
    BY ItemIs
  <2>5. ItemAt(ps, ms, n, n + k - 1) = pre \o one
    BY <2>2, <2>3, <2>4, ItemIs
  <2>6. pre \o one \in Seq(Seq(Sound))
    BY ConcatProperties
  <2> QED BY <2>2, <2>5, <2>6
<1>2. PICK f, g : f = ItemsAt(ps, ms, n, c) /\ g = Said(ps, ms, n, c)
  OBVIOUS
<1>3. /\ f = [k \in 1..c |-> ItemAt(ps, ms, n, n + k - 1)]
      /\ g = [k \in 1..c |-> SoundsAt(ps, ms, n + k - 1)]
  BY <1>2 DEF ItemsAt, Said
<1>4. f \in [1..c -> Seq(Seq(Sound))] /\ g \in [1..c -> Seq(Sound)]
  BY <1>1, <1>3
<1>5. f \in Seq(Seq(Seq(Sound))) /\ Len(f) = c /\ g \in Seq(Seq(Sound)) /\ Len(g) = c
  BY <1>4
<1> QED BY <1>2, <1>3, <1>5

\* The moras up to n are in both.
MorasKept(ps, ms, new, low, n) ==
  \A m \in 1..n : /\ SoundsAt(new, low, m) = SoundsAt(ps, ms, m)
                  /\ PauseAt(new, low, m) <=> PauseAt(ps, ms, m)

\* Moras that keep their bounds over phonemes that stay say what they said.
LEMMA KeptBelow ==
  ASSUME NEW ps, NEW ms, MorasIn(ps, ms), NEW n \in 0..Len(ms), NEW l \in Nat, NEW new, NEW low,
         \A m \in 1..n : low[m].head = ms[m].head /\ low[m].tail = ms[m].tail /\ ms[m].tail <= l,
         \A p \in 1..l : new[p] = ps[p]
  PROVE  MorasKept(ps, ms, new, low, n)
<1> SUFFICES ASSUME NEW m \in 1..n
             PROVE  /\ SoundsAt(new, low, m) = SoundsAt(ps, ms, m)
                    /\ PauseAt(new, low, m) <=> PauseAt(ps, ms, m)
  BY DEF MorasKept
<1>1. PICK h \in Nat, t \in Nat : h = ms[m].head /\ t = ms[m].tail /\ 1 <= h /\ h <= t
  <2>1. m \in 1..Len(ms)
    BY LenProperties DEF MorasIn
  <2>2. ms[m] \in MoraType
    BY <2>1 DEF MorasIn
  <2> QED BY <2>1, <2>2 DEF MorasIn, MoraType
<1>2. h = low[m].head /\ t = low[m].tail /\ t <= l
  BY <1>1
<1>3. \A k \in 1..t - h + 1 : new[h + k - 1].sound = ps[h + k - 1].sound
  <2>0. 1 <= h /\ t <= l
    BY <1>1, <1>2
  <2>1. ASSUME NEW k \in 1..t - h + 1 PROVE h + k - 1 \in 1..l
    BY <2>0
  <2> QED BY <2>1
<1>4. SoundsAt(new, low, m) = SoundsAt(ps, ms, m)
  <2>1. [k \in 1..t - h + 1 |-> new[h + k - 1].sound] = [k \in 1..t - h + 1 |-> ps[h + k - 1].sound]
    BY <1>3
  <2> QED BY <1>1, <1>2, <2>1 DEF SoundsAt
<1>5. h > 1 => new[h - 1] = ps[h - 1]
  <2>1. h > 1 => h - 1 \in 1..l
    BY <1>1, <1>2
  <2> QED BY <2>1
<1> QED BY <1>1, <1>2, <1>4, <1>5 DEF PauseAt

\* The last mora may have become another one.
LEMMA ItemsSame ==
  ASSUME NEW ps, NEW ms, NEW new, NEW low, NEW n \in Nat \ {0}, NEW c \in Nat, NEW l \in Nat,
         MorasKept(ps, ms, new, low, l), n + c - 1 <= l
  PROVE  /\ ItemsAt(new, low, n, c) = ItemsAt(ps, ms, n, c)
         /\ Said(new, low, n, c) = Said(ps, ms, n, c)
<1>1. ASSUME NEW k \in 1..c
      PROVE  /\ ItemAt(new, low, n, n + k - 1) = ItemAt(ps, ms, n, n + k - 1)
             /\ SoundsAt(new, low, n + k - 1) = SoundsAt(ps, ms, n + k - 1)
  <2>1. PICK m \in 1..l : m = n + k - 1
    OBVIOUS
  <2>2. /\ SoundsAt(new, low, m) = SoundsAt(ps, ms, m)
        /\ PauseAt(new, low, m) <=> PauseAt(ps, ms, m)
    BY DEF MorasKept
  <2>3. BeforeAt(new, low, n, m) = BeforeAt(ps, ms, n, m)
    BY <2>2 DEF BeforeAt
  <2> QED BY <2>1, <2>2, <2>3, ItemIs
<1>2. /\ [k \in 1..c |-> ItemAt(new, low, n, n + k - 1)] = [k \in 1..c |-> ItemAt(ps, ms, n, n + k - 1)]
      /\ [k \in 1..c |-> SoundsAt(new, low, n + k - 1)] = [k \in 1..c |-> SoundsAt(ps, ms, n + k - 1)]
  BY <1>1
<1> QED BY <1>2 DEF ItemsAt, Said

\* Items joined to one list, the last of them single moras.
LEMMA MorasJoined ==
  ASSUME NEW s \in Seq(Seq(Seq(Sound))), NEW x \in Seq(Seq(Sound)), x # <<>>,
         NEW pre \in Seq(Seq(Sound)), NEW u \in Seq(Seq(Seq(Sound))), Itemized(s, pre, x, u)
  PROVE  FlattenSeq(u) = (FlattenSeq(s) \o pre) \o x /\ FlattenSeq(s) \in Seq(Seq(Sound))
BY ItemsJoined, SMTT(60)

\* A phrase that has d moras more says what it said, a pause if there is one
\* before the first of them, and what they say.
MoreMoras(ps, ms, new, low, n, c, d) ==
  /\ n + c - 1 <= Len(ms) /\ n + c + d - 1 <= Len(low)
  /\ MorasKept(ps, ms, new, low, n + c - 1)
  /\ \A m \in n + c + 1..n + c + d - 1 : ~PauseAt(new, low, m)

ItemsGrow(ps, ms, new, low, n, c, d) ==
  /\ FlattenSeq(ItemsAt(new, low, n, c + d)) =
       (FlattenSeq(ItemsAt(ps, ms, n, c)) \o BeforeAt(new, low, n, n + c))
         \o Said(new, low, n + c, d)
  /\ FlattenSeq(ItemsAt(ps, ms, n, c)) \in Seq(Seq(Sound))

\* A run of moras that grows by moras without a pause inside says the same and
\* then the pause before the new moras and what they say.
LEMMA ItemsLonger ==
  ASSUME NEW ps, NEW ms, NEW new, NEW low, MorasIn(ps, ms), MorasIn(new, low),
         NEW n \in Nat \ {0}, NEW c \in Nat, NEW d \in Nat \ {0},
         MoreMoras(ps, ms, new, low, n, c, d)
  PROVE  ItemsGrow(ps, ms, new, low, n, c, d)
<1>0. /\ n + c - 1 <= Len(ms) /\ n + c + d - 1 <= Len(low)
      /\ MorasKept(ps, ms, new, low, n + c - 1)
      /\ \A m \in n + c + 1..n + c + d - 1 : ~PauseAt(new, low, m)
  BY DEF MoreMoras
<1>1. PICK s \in Seq(Seq(Seq(Sound))) : s = ItemsAt(ps, ms, n, c)
  BY <1>0, ItemsTyped
<1>2. PICK l \in Nat, N \in Nat \ {0} : l = n + c - 1 /\ N = n + c
  OBVIOUS
<1>3. N + d - 1 <= Len(low) /\ c + d \in Nat /\ n + (c + d) - 1 <= Len(low)
  BY <1>0, <1>2
<1>4. /\ Said(new, low, N, d) \in Seq(Seq(Sound)) /\ Len(Said(new, low, N, d)) = d
      /\ \A k \in 1..d : Said(new, low, N, d)[k] = SoundsAt(new, low, N + k - 1)
  BY <1>3, ItemsTyped
<1>5. PICK x \in Seq(Seq(Sound)) : /\ x = Said(new, low, N, d) /\ Len(x) = d
                                  /\ \A k \in 1..d : x[k] = SoundsAt(new, low, N + k - 1)
  BY <1>4
<1>6. /\ ItemsAt(new, low, n, c + d) \in Seq(Seq(Seq(Sound)))
      /\ Len(ItemsAt(new, low, n, c + d)) = c + d
      /\ \A k \in 1..c + d : ItemsAt(new, low, n, c + d)[k] = ItemAt(new, low, n, n + k - 1)
  BY <1>3, ItemsTyped
<1>7. PICK u \in Seq(Seq(Seq(Sound))) :
        /\ u = ItemsAt(new, low, n, c + d) /\ Len(u) = c + d
        /\ \A k \in 1..c + d : u[k] = ItemAt(new, low, n, n + k - 1)
  BY <1>6
<1>8. /\ Len(ItemsAt(ps, ms, n, c)) = c
      /\ \A k \in 1..c : ItemsAt(ps, ms, n, c)[k] = ItemAt(ps, ms, n, n + k - 1)
  BY <1>0, ItemsTyped
<1>81. Len(s) = c /\ \A k \in 1..c : s[k] = ItemAt(ps, ms, n, n + k - 1)
  BY <1>1, <1>8
<1>9. ASSUME NEW k \in 1..c PROVE u[k] = s[k]
  <2>1. PICK m \in 1..l : m = n + k - 1
    BY <1>2
  <2>2. ItemAt(new, low, n, m) = ItemAt(ps, ms, n, m)
    <3>1. BeforeAt(new, low, n, m) = BeforeAt(ps, ms, n, m)
      BY <1>0, <1>2 DEF BeforeAt, MorasKept
    <3>2. SoundsAt(new, low, m) = SoundsAt(ps, ms, m)
      BY <1>0, <1>2 DEF MorasKept
    <3> QED BY <3>1, <3>2, ItemIs
  <2>3. k \in 1..c + d
    OBVIOUS
  <2> QED BY <1>7, <1>81, <2>1, <2>2, <2>3
<1>10. PICK pre \in Seq(Seq(Sound)) : pre = BeforeAt(new, low, n, N)
  BY ItemIs
<1>11. u[c + 1] = pre \o <<x[1]>>
  <2>1. c + 1 \in 1..c + d /\ n + (c + 1) - 1 = N /\ 1 \in 1..d /\ N + 1 - 1 = N
    BY <1>2
  <2>2. u[c + 1] = ItemAt(new, low, n, N) /\ x[1] = SoundsAt(new, low, N)
    BY <1>5, <1>7, <2>1
  <2> QED BY <1>10, <2>2, ItemIs
<1>12. ASSUME NEW k \in 2..d PROVE u[c + k] = <<x[k]>>
  <2>1. PICK m : m = N + k - 1
    OBVIOUS
  <2>2. c + k \in 1..c + d /\ n + (c + k) - 1 = m /\ k \in 1..d /\ m \in n + c + 1..n + c + d - 1
    BY <1>2, <2>1
  <2>3. BeforeAt(new, low, n, m) = <<>>
    BY <1>0, <2>2 DEF BeforeAt
  <2>4. PICK y \in Seq(Sound) : y = x[k]
    BY <1>5, <2>2
  <2>5. u[c + k] = <<>> \o <<y>>
    <3>1. u[c + k] = ItemAt(new, low, n, m) /\ y = SoundsAt(new, low, m)
      BY <1>5, <1>7, <2>1, <2>2, <2>4
    <3> QED BY <2>3, <3>1, ItemIs
  <2>6. <<y>> \in Seq(Seq(Sound))
    OBVIOUS
  <2> QED BY <2>4, <2>5, <2>6, ConcatEmptySeq
<1>13. Itemized(s, pre, x, u)
  BY <1>5, <1>7, <1>81, <1>9, <1>11, <1>12 DEF Itemized
<1>14. x # <<>>
  BY <1>5
<1>15. FlattenSeq(u) = (FlattenSeq(s) \o pre) \o x /\ FlattenSeq(s) \in Seq(Seq(Sound))
  BY <1>13, <1>14, MorasJoined
<1> QED BY <1>1, <1>2, <1>5, <1>7, <1>10, <1>15 DEF ItemsGrow

-----------------------------------------------------------------------------
(* Groups before and after a step, by the list of phrases they divide.     *)
PhrasesAt(ps, ms, ws, as) == [a \in 1..Len(as) |-> PhraseAt(ps, ms, ws, as, a)]
GroupOf(list, breath) == [k \in 1..(breath.tail - breath.head + 1) |-> list[breath.head + k - 1]]
GroupsOf(list, bs) == [b \in 1..Len(bs) |-> GroupOf(list, bs[b])]

Bounded(as, bs, A) ==
  /\ \A b \in 1..Len(bs) :
       /\ bs[b].head \in 1..A /\ bs[b].tail \in 1..A /\ bs[b].head <= bs[b].tail
       /\ \A x \in bs[b].head..bs[b].tail : as[x].up = b
  /\ bs = <<>> <=> A = 0
  /\ bs # <<>> => bs[Len(bs)].tail = A

\* Every breath group holds phrases, and the last group the last phrase.
LEMMA LevelBounds ==
  ASSUME NEW as, NEW bs \in Seq(BreathNode), NEW A \in Nat, Level(bs, as, A)
  PROVE  Bounded(as, bs, A)
<1>1. Len(bs) \in Nat /\ DOMAIN bs = 1..Len(bs) /\ (bs = <<>> <=> Len(bs) = 0)
  BY Listed
<1>2. ASSUME NEW b \in 1..Len(bs)
      PROVE  /\ bs[b].head \in 1..A /\ bs[b].tail \in 1..A /\ bs[b].head <= bs[b].tail
             /\ \A x \in bs[b].head..bs[b].tail : as[x].up = b
  <2>1. bs # <<>> /\ bs[b].head <= bs[b].tail
    BY <1>1 DEF Level, Tiles
  <2>2. /\ bs[b].head \in Nat /\ bs[b].tail \in Nat /\ 1 <= bs[b].head /\ bs[b].tail <= A
        /\ \A x \in bs[b].head..bs[b].tail : as[x].up = b
    BY <1>1 DEF Level, Parents
  <2>3. PICK h \in Nat, t \in Nat : h = bs[b].head /\ t = bs[b].tail
    BY <2>2
  <2>4. 1 <= h /\ t <= A /\ h <= t
    BY <2>1, <2>2, <2>3
  <2>5. h \in 1..A /\ t \in 1..A
    BY <2>4
  <2> QED BY <2>2, <2>3, <2>4, <2>5
<1>3. bs = <<>> => A = 0
  BY DEF Level, Tiles
<1>4. bs # <<>> => A # 0 /\ bs[Len(bs)].tail = A
  <2>1. bs # <<>> => 1 \in 1..Len(bs)
    BY <1>1
  <2> QED BY <1>2, <2>1 DEF Level, Tiles
<1> QED BY <1>2, <1>3, <1>4 DEF Bounded

\* The groups of JpcommonLabel divide the list of its phrases.
LEMMA GroupsAre ==
  ASSUME NEW ps, NEW ms, NEW ws, NEW as, Len(as) \in Nat, NEW bs \in Seq(BreathNode),
         Level(bs, as, Len(as))
  PROVE  GroupsAt(ps, ms, ws, as, bs) = GroupsOf(PhrasesAt(ps, ms, ws, as), bs)
<1>1. PICK A \in Nat : A = Len(as)
  OBVIOUS
<1>2. ASSUME NEW b \in 1..Len(bs)
      PROVE  GroupAt(ps, ms, ws, as, bs[b]) = GroupOf(PhrasesAt(ps, ms, ws, as), bs[b])
  <2>1. PICK h \in 1..A, t \in 1..A : h = bs[b].head /\ t = bs[b].tail
    BY <1>1, LevelBounds DEF Bounded
  <2>2. ASSUME NEW k \in 1..t - h + 1
        PROVE  PhrasesAt(ps, ms, ws, as)[h + k - 1] = PhraseAt(ps, ms, ws, as, h + k - 1)
    <3>1. h + k - 1 \in 1..A
      OBVIOUS
    <3> QED BY <1>1, <3>1 DEF PhrasesAt
  <2> HIDE DEF PhrasesAt
  <2> QED BY <2>1, <2>2 DEF GroupAt, GroupOf
<1>3. DOMAIN bs = 1..Len(bs)
  BY Listed
<1> QED BY <1>2, <1>3 DEF GroupsAt, GroupsOf

\* A slice of a list.
LEMMA GroupTyped ==
  ASSUME NEW S, NEW list \in Seq(S), NEW h \in 1..Len(list), NEW t \in h..Len(list), NEW g,
         g = [k \in 1..t - h + 1 |-> list[h + k - 1]]
  PROVE  g \in Seq(S) /\ Len(g) = t - h + 1 /\ \A k \in 1..t - h + 1 : g[k] = list[h + k - 1]
<1>1. ASSUME NEW k \in 1..t - h + 1 PROVE list[h + k - 1] \in S
  <2>1. h + k - 1 \in 1..Len(list)
    OBVIOUS
  <2> QED BY <2>1
<1>2. g \in [1..t - h + 1 -> S] /\ t - h + 1 \in Nat
  BY <1>1
<1>3. g \in Seq(S) /\ Len(g) = t - h + 1
  BY <1>2
<1> QED BY <1>3

Divided(S, list, bs) ==
  /\ GroupsOf(list, bs) \in Seq(Seq(S)) /\ Len(GroupsOf(list, bs)) = Len(bs)
  /\ \A b \in 1..Len(bs) :
       /\ GroupsOf(list, bs)[b] = GroupOf(list, bs[b])
       /\ GroupOf(list, bs[b]) \in Seq(S)
       /\ Len(GroupOf(list, bs[b])) = bs[b].tail - bs[b].head + 1
       /\ \A k \in 1..bs[b].tail - bs[b].head + 1 :
            GroupOf(list, bs[b])[k] = list[bs[b].head + k - 1]

\* The groups are slices of the list they divide.
LEMMA GroupsTyped ==
  ASSUME NEW S, NEW list \in Seq(S), NEW as, NEW bs \in Seq(BreathNode),
         Level(bs, as, Len(list))
  PROVE  Divided(S, list, bs)
<1>1. PICK A \in Nat : A = Len(list)
  BY LenProperties
<1>2. ASSUME NEW b \in 1..Len(bs)
      PROVE  /\ GroupOf(list, bs[b]) \in Seq(S)
             /\ Len(GroupOf(list, bs[b])) = bs[b].tail - bs[b].head + 1
             /\ \A k \in 1..bs[b].tail - bs[b].head + 1 :
                  GroupOf(list, bs[b])[k] = list[bs[b].head + k - 1]
  <2>1. PICK h \in 1..A, t \in 1..A : h = bs[b].head /\ t = bs[b].tail /\ t \in h..A
    <3>1. bs[b].head \in 1..A /\ bs[b].tail \in 1..A /\ bs[b].head <= bs[b].tail
      BY <1>1, LevelBounds DEF Bounded
    <3> QED BY <3>1
  <2>2. PICK g : g = GroupOf(list, bs[b])
    OBVIOUS
  <2>3. g = [k \in 1..t - h + 1 |-> list[h + k - 1]]
    BY <2>1, <2>2 DEF GroupOf
  <2>4. g \in Seq(S) /\ Len(g) = t - h + 1 /\ \A k \in 1..t - h + 1 : g[k] = list[h + k - 1]
    <3>1. h \in 1..Len(list) /\ t \in h..Len(list)
      BY <1>1, <2>1
    <3> QED BY <2>3, <3>1, GroupTyped
  <2> QED BY <2>1, <2>2, <2>4
<1>3. PICK n, G : n \in Nat /\ n = Len(bs) /\ G = GroupsOf(list, bs)
  BY LenProperties
<1>4. G = [b \in 1..n |-> GroupOf(list, bs[b])] /\ \A b \in 1..n : GroupOf(list, bs[b]) \in Seq(S)
  BY <1>2, <1>3 DEF GroupsOf
<1>5. G \in [1..n -> Seq(S)]
  BY <1>4
<1>6. G \in Seq(Seq(S)) /\ Len(G) = n /\ \A b \in 1..n : G[b] = GroupOf(list, bs[b])
  BY <1>3, <1>4, <1>5
<1> QED BY <1>2, <1>3, <1>6 DEF Divided

\* The last phrase of the last group is the last phrase.
LEMMA LastOfGroups ==
  ASSUME NEW S, NEW list \in Seq(S), NEW as, NEW bs \in Seq(BreathNode),
         Level(bs, as, Len(list)), bs # <<>>
  PROVE  Last(Last(GroupsOf(list, bs))) = list[Len(list)]
<1>1. PICK A \in Nat, B \in Nat \ {0} : A = Len(list) /\ B = Len(bs)
  BY LenProperties, EmptySeq
<1>0. B \in 1..Len(bs)
  BY <1>1
<1>2. PICK h \in 1..A : h = bs[B].head /\ bs[B].tail = A
  <2>1. bs[B].head \in 1..A /\ bs[Len(bs)].tail = A
    BY <1>0, <1>1, LevelBounds DEF Bounded
  <2> QED BY <1>1, <2>1
<1>3. PICK G, last : G = GroupsOf(list, bs) /\ last = GroupOf(list, bs[B])
  OBVIOUS
<1>4. Len(G) = B /\ G[B] = last /\ Len(last) = A - h + 1
      /\ \A k \in 1..A - h + 1 : last[k] = list[h + k - 1]
  <2>1. /\ Len(G) = Len(bs) /\ G[B] = last /\ Len(last) = bs[B].tail - bs[B].head + 1
        /\ \A k \in 1..bs[B].tail - bs[B].head + 1 : last[k] = list[bs[B].head + k - 1]
    <3>1. /\ Len(GroupsOf(list, bs)) = Len(bs)
          /\ GroupsOf(list, bs)[B] = GroupOf(list, bs[B])
          /\ Len(GroupOf(list, bs[B])) = bs[B].tail - bs[B].head + 1
          /\ \A k \in 1..bs[B].tail - bs[B].head + 1 :
               GroupOf(list, bs[B])[k] = list[bs[B].head + k - 1]
      <4>1. Divided(S, list, bs)
        BY GroupsTyped
      <4> QED BY <1>0, <4>1 DEF Divided
    <3> QED BY <1>3, <3>1
  <2> QED BY <1>1, <1>2, <2>1
<1>5. A - h + 1 \in 1..A - h + 1 /\ h + (A - h + 1) - 1 = A
  OBVIOUS
<1> QED BY <1>1, <1>3, <1>4, <1>5 DEF Last

\* The same groups of the same phrases.
LEMMA GroupsStay ==
  ASSUME NEW S, NEW list, NEW bs \in Seq(BreathNode), NEW new \in Seq(BreathNode),
         Len(new) = Len(bs), SameBounds(bs, new)
  PROVE  GroupsOf(list, new) = GroupsOf(list, bs)
<1>1. \A b \in 1..Len(bs) : GroupOf(list, new[b]) = GroupOf(list, bs[b])
  BY DEF SameBounds, GroupOf
<1> QED BY <1>1 DEF GroupsOf

\* Another phrase at the end of the last group.
WithLastOf(groups, phrase) ==
  [groups EXCEPT ![Len(groups)] = [@ EXCEPT ![Len(@)] = phrase]]
LastReplaced(list, phrase) == [list EXCEPT ![Len(list)] = phrase]

Replaced(S, list, phrase, other) ==
  /\ other \in Seq(S) /\ Len(other) = Len(list) /\ other[Len(list)] = phrase
  /\ \A x \in 1..Len(list) : x # Len(list) => other[x] = list[x]
  /\ other = [x \in 1..Len(list) |-> IF x = Len(list) THEN phrase ELSE list[x]]

\* A list with another last element.
LEMMA LastReplacedIs ==
  ASSUME NEW S, NEW list \in Seq(S), NEW phrase \in S, list # <<>>, NEW other,
         other = LastReplaced(list, phrase)
  PROVE  Replaced(S, list, phrase, other)
<1>1. PICK n \in Nat \ {0} : n = Len(list) /\ DOMAIN list = 1..n /\ n \in 1..n
  BY EmptySeq, LenProperties
<1>2. other = [list EXCEPT ![n] = phrase]
  BY <1>1 DEF LastReplaced
<1>3. other = [x \in 1..n |-> IF x = n THEN phrase ELSE list[x]]
  BY <1>1, <1>2
<1>4. /\ other \in Seq(S) /\ Len(other) = n
      /\ other[n] = phrase /\ \A x \in 1..n : x # n => other[x] = list[x]
  BY <1>1, <1>2, LastChanged
<1> QED BY <1>1, <1>3, <1>4 DEF Replaced

\* Another last phrase is another last phrase of the last group.
LEMMA GroupsLast ==
  ASSUME NEW S, NEW list \in Seq(S), NEW phrase \in S, NEW as,
         NEW bs \in Seq(BreathNode), Level(bs, as, Len(list)), bs # <<>>, NEW other,
         other = LastReplaced(list, phrase)
  PROVE  GroupsOf(other, bs) = WithLastOf(GroupsOf(list, bs), phrase)
<1>1. PICK A \in Nat, B \in Nat \ {0} : A = Len(list) /\ B = Len(bs) /\ B \in 1..B
  BY LenProperties, EmptySeq
<1>0. Bounded(as, bs, A)
  BY <1>1, LevelBounds
<1>3. /\ \A b \in 1..B : /\ bs[b].head \in 1..A /\ bs[b].tail \in 1..A
                          /\ bs[b].head <= bs[b].tail
                          /\ \A x \in bs[b].head..bs[b].tail : as[x].up = b
      /\ bs[B].tail = A /\ A # 0
  BY <1>0, <1>1 DEF Bounded
<1>4. bs[B].tail = A /\ list # <<>>
  BY <1>1, <1>3
<1>2. other[A] = phrase /\ \A x \in 1..A : x # A => other[x] = list[x]
  <2>1. Replaced(S, list, phrase, other)
    BY <1>4, LastReplacedIs
  <2> QED BY <1>1, <2>1 DEF Replaced
<1>5. PICK G, g : G = GroupsOf(list, bs) /\ g = GroupOf(list, bs[B])
  OBVIOUS
<1>6. /\ G \in Seq(Seq(S)) /\ Len(G) = B /\ \A b \in 1..B : G[b] = GroupOf(list, bs[b])
      /\ g \in Seq(S) /\ Len(g) = A - bs[B].head + 1
      /\ \A k \in 1..A - bs[B].head + 1 : g[k] = list[bs[B].head + k - 1]
  <2>1. Divided(S, list, bs)
    BY GroupsTyped
  <2> QED BY <1>1, <1>4, <1>5, <2>1 DEF Divided
<1>7. PICK h \in 1..A, n \in Nat \ {0} : h = bs[B].head /\ n = A - h + 1
  <2>1. PICK h \in 1..A : h = bs[B].head
    BY <1>1, <1>3
  <2>2. A - h + 1 \in Nat \ {0}
    OBVIOUS
  <2> QED BY <2>1, <2>2
<1>8. GroupOf(other, bs[B]) = [g EXCEPT ![Len(g)] = phrase]
  <2>1. GroupOf(other, bs[B]) = [k \in 1..n |-> other[h + k - 1]]
    BY <1>4, <1>7 DEF GroupOf
  <2>2. ASSUME NEW k \in 1..n
        PROVE  other[h + k - 1] = IF k = n THEN phrase ELSE g[k]
    <3>0. n = A - h + 1
      BY <1>7
    <3>1. h + k - 1 \in 1..A /\ (h + k - 1 = A <=> k = n)
      BY <3>0
    <3>2. g[k] = list[h + k - 1]
      BY <1>6, <1>7
    <3> QED BY <1>2, <3>1, <3>2
  <2>3. Len(g) = n /\ g \in Seq(S) /\ n \in 1..n
    <3>1. Len(g) = A - h + 1 /\ n = A - h + 1 /\ g \in Seq(S)
      BY <1>6, <1>7
    <3> QED BY <3>1
  <2>4. DOMAIN g = 1..n
    BY <2>3, Listed
  <2>5. [g EXCEPT ![n] = phrase] = [k \in 1..n |-> IF k = n THEN phrase ELSE g[k]]
    BY <2>3, <2>4
  <2> QED BY <2>1, <2>2, <2>3, <2>5
<1>9. ASSUME NEW b \in 1..B, b # B PROVE GroupOf(other, bs[b]) = G[b]
  <2>1. PICK i \in 1..A, t \in 1..A : i = bs[b].head /\ t = bs[b].tail
    BY <1>3
  <2>2. ASSUME NEW k \in 1..t - i + 1 PROVE other[i + k - 1] = list[i + k - 1]
    <3>1. PICK x \in 1..A : x = i + k - 1 /\ x \in i..t
      OBVIOUS
    <3>2. as[x].up = b
      BY <1>3, <2>1, <3>1
    <3>3. as[A].up = B
      <4>1. A \in h..A
        BY <1>7
      <4> QED BY <1>1, <1>3, <1>4, <1>7, <4>1
    <3>4. x # A
      BY <1>9, <3>2, <3>3
    <3> QED BY <1>2, <3>1, <3>4
  <2>3. GroupOf(other, bs[b]) = GroupOf(list, bs[b])
    BY <2>1, <2>2 DEF GroupOf
  <2> QED BY <1>6, <2>3
<1>10. GroupsOf(other, bs) = [b \in 1..B |-> IF b = B THEN [g EXCEPT ![Len(g)] = phrase] ELSE G[b]]
  <2>1. GroupsOf(other, bs) = [b \in 1..B |-> GroupOf(other, bs[b])]
    BY <1>1 DEF GroupsOf
  <2> QED BY <1>8, <1>9, <2>1
<1>11. DOMAIN G = 1..B /\ G[B] = g /\ B \in 1..B
  <2>1. DOMAIN G = 1..B
    BY <1>6, Listed
  <2> QED BY <1>5, <1>6, <2>1
<1>12. WithLastOf(G, phrase) = [G EXCEPT ![B] = [g EXCEPT ![Len(g)] = phrase]]
  BY <1>6, <1>11 DEF WithLastOf
<1>13. [G EXCEPT ![B] = [g EXCEPT ![Len(g)] = phrase]] =
         [b \in 1..B |-> IF b = B THEN [g EXCEPT ![Len(g)] = phrase] ELSE G[b]]
  BY <1>11
<1> QED BY <1>5, <1>10, <1>12, <1>13

Added(S, list, phrase, other) ==
  /\ other \in Seq(S) /\ Len(other) = Len(list) + 1 /\ other[Len(list) + 1] = phrase
  /\ \A x \in 1..Len(list) : other[x] = list[x]
  /\ other = [x \in 1..Len(list) + 1 |-> IF x = Len(list) + 1 THEN phrase ELSE list[x]]

\* A list with one more element.
LEMMA IsAdded ==
  ASSUME NEW S, NEW list \in Seq(S), NEW phrase \in S, NEW other, other = Append(list, phrase)
  PROVE  Added(S, list, phrase, other)
<1>1. PICK n \in Nat : n = Len(list)
  BY LenProperties
<1>2. other \in Seq(S) /\ Len(other) = n + 1 /\ other[n + 1] = phrase /\ \A x \in 1..n : other[x] = list[x]
  BY <1>1, AppendProperties
<1>3. PICK o : o = [x \in 1..n + 1 |-> IF x = n + 1 THEN phrase ELSE list[x]]
  OBVIOUS
<1>4. o \in Seq(S) /\ Len(o) = n + 1
  <2>1. \A x \in 1..n + 1 : (IF x = n + 1 THEN phrase ELSE list[x]) \in S
    BY <1>1
  <2>2. o \in [1..n + 1 -> S]
    BY <1>3, <2>1
  <2> QED BY <2>2
<1>5. \A x \in 1..n + 1 : o[x] = other[x]
  <2>1. \A x \in 1..n + 1 : x # n + 1 => x \in 1..n
    OBVIOUS
  <2> QED BY <1>2, <1>3, <2>1
<1>6. o = other
  BY <1>2, <1>4, <1>5, SeqEqual
<1> QED BY <1>1, <1>2, <1>3, <1>6 DEF Added

SameBefore(list, other, bs) ==
  \A b \in 1..Len(bs) : \A breath :
    breath.head = bs[b].head /\ breath.tail = bs[b].tail
      => GroupOf(other, breath) = GroupOf(list, bs[b])

\* The groups before the last one, or all, divide the phrases that were there.
LEMMA GroupsBefore ==
  ASSUME NEW S, NEW list \in Seq(S), NEW phrase, NEW other, NEW as,
         Added(S, list, phrase, other),
         NEW bs \in Seq(BreathNode), Level(bs, as, Len(list))
  PROVE  SameBefore(list, other, bs)
<1> SUFFICES ASSUME NEW b \in 1..Len(bs), NEW breath,
                    breath.head = bs[b].head, breath.tail = bs[b].tail
             PROVE  GroupOf(other, breath) = GroupOf(list, bs[b])
  BY DEF SameBefore
<1>1. PICK A \in Nat : A = Len(list)
  BY LenProperties
<1>2. PICK i \in 1..A, t \in 1..A : i = bs[b].head /\ t = bs[b].tail
  <2>1. Bounded(as, bs, A)
    BY <1>1, LevelBounds
  <2> QED BY <2>1 DEF Bounded
<1>3. ASSUME NEW k \in 1..t - i + 1 PROVE other[i + k - 1] = list[i + k - 1]
  <2>1. i + k - 1 \in 1..A
    OBVIOUS
  <2> QED BY <1>1, <2>1 DEF Added
<1> QED BY <1>2, <1>3 DEF GroupOf

\* A phrase more in the last group.
LongerLast(groups, phrase) == [groups EXCEPT ![Len(groups)] = Append(@, phrase)]

\* A phrase more in the last group.
LEMMA GroupsLonger ==
  ASSUME NEW S, NEW list \in Seq(S), NEW phrase \in S, NEW as,
         NEW bs \in Seq(BreathNode), Level(bs, as, Len(list)), bs # <<>>,
         NEW other, Added(S, list, phrase, other),
         NEW new, Longer(bs, new, Len(list) + 1)
  PROVE  GroupsOf(other, new) = LongerLast(GroupsOf(list, bs), phrase)
<1>1. PICK A \in Nat, B \in Nat \ {0} : A = Len(list) /\ B = Len(bs) /\ B \in 1..B
  BY LenProperties, EmptySeq
<1>2. /\ other[A + 1] = phrase /\ \A x \in 1..A : other[x] = list[x]
      /\ \A x \in 1..Len(list) : other[x] = list[x]
  BY <1>1 DEF Added
<1>3. PICK h \in 1..A : h = bs[B].head /\ bs[B].tail = A
  <2>1. Bounded(as, bs, A)
    BY <1>1, LevelBounds
  <2> QED BY <1>1, <2>1 DEF Bounded
<1>4. /\ Len(new) = B /\ new[B].head = h /\ new[B].tail = A + 1
      /\ \A b \in 1..B : b # B => new[b].head = bs[b].head /\ new[b].tail = bs[b].tail
  BY <1>1, <1>3 DEF Longer
<1>5. PICK G, g : G = GroupsOf(list, bs) /\ g = GroupOf(list, bs[B])
  OBVIOUS
<1>6. /\ G \in Seq(Seq(S)) /\ Len(G) = B /\ \A b \in 1..B : G[b] = GroupOf(list, bs[b])
      /\ g \in Seq(S) /\ Len(g) = A - h + 1
      /\ \A k \in 1..A - h + 1 : g[k] = list[h + k - 1]
  <2>1. Divided(S, list, bs)
    BY GroupsTyped
  <2> QED BY <1>1, <1>3, <1>5, <2>1 DEF Divided
<1>7. PICK n \in Nat : n = A - h + 1
  OBVIOUS
<1>8. GroupOf(other, new[B]) = Append(g, phrase)
  <2>1. (A + 1) - h + 1 = n + 1
    BY <1>7
  <2>2. GroupOf(other, new[B]) = [k \in 1..n + 1 |-> other[h + k - 1]]
    BY <1>4, <2>1 DEF GroupOf
  <2>3. ASSUME NEW k \in 1..n + 1
        PROVE  other[h + k - 1] = IF k = n + 1 THEN phrase ELSE g[k]
    <3>0. n = A - h + 1
      BY <1>7
    <3>1. CASE k = n + 1
      <4>1. h + k - 1 = A + 1
        BY <3>0, <3>1
      <4> QED BY <1>2, <3>1, <4>1
    <3>2. CASE k # n + 1
      <4>1. h + k - 1 \in 1..A /\ k \in 1..n
        BY <3>0, <3>2
      <4>2. g[k] = list[h + k - 1]
        BY <1>6, <1>7, <4>1
      <4> QED BY <1>2, <3>2, <4>1, <4>2
    <3> QED BY <3>1, <3>2
  <2>4. PICK longer : longer = Append(g, phrase)
    OBVIOUS
  <2>5. g \in Seq(S) /\ Len(g) = n
    BY <1>6, <1>7
  <2>6. longer = [k \in 1..n + 1 |-> IF k = n + 1 THEN phrase ELSE g[k]]
    <3>1. Added(S, g, phrase, longer)
      BY <2>4, <2>5, IsAdded
    <3> QED BY <2>5, <3>1 DEF Added
  <2> QED BY <2>2, <2>3, <2>4, <2>6
<1>9. ASSUME NEW b \in 1..B, b # B PROVE GroupOf(other, new[b]) = G[b]
  <2>1. b \in 1..Len(bs) /\ new[b].head = bs[b].head /\ new[b].tail = bs[b].tail
    BY <1>1, <1>4, <1>9
  <2>2. SameBefore(list, other, bs)
    BY GroupsBefore
  <2>3. GroupOf(other, new[b]) = GroupOf(list, bs[b])
    BY <2>1, <2>2 DEF SameBefore
  <2> QED BY <1>1, <1>6, <2>2, <2>3
<1>10. GroupsOf(other, new) = [b \in 1..B |-> IF b = B THEN Append(g, phrase) ELSE G[b]]
  <2>1. GroupsOf(other, new) = [b \in 1..B |-> GroupOf(other, new[b])]
    BY <1>4 DEF GroupsOf
  <2> QED BY <1>8, <1>9, <2>1
<1>11. DOMAIN G = 1..B /\ G[B] = g /\ B \in 1..B
  <2>1. DOMAIN G = 1..B
    BY <1>6, Listed
  <2> QED BY <1>1, <1>5, <1>6, <2>1
<1>12. LongerLast(G, phrase) = [G EXCEPT ![B] = Append(g, phrase)]
  BY <1>6, <1>11 DEF LongerLast
<1>13. [G EXCEPT ![B] = Append(g, phrase)] = [b \in 1..B |-> IF b = B THEN Append(g, phrase) ELSE G[b]]
  BY <1>11
<1> QED BY <1>5, <1>10, <1>12, <1>13

\* A group more, of one phrase.
LEMMA GroupsMore ==
  ASSUME NEW S, NEW list \in Seq(S), NEW phrase \in S, NEW as,
         NEW bs \in Seq(BreathNode), Level(bs, as, Len(list)),
         NEW other, Added(S, list, phrase, other),
         NEW new, Opened(bs, new, Len(list) + 1)
  PROVE  GroupsOf(other, new) = Append(GroupsOf(list, bs), <<phrase>>)
<1>1. PICK A \in Nat, B \in Nat : A = Len(list) /\ B = Len(bs)
  BY LenProperties
<1>2. /\ other[A + 1] = phrase /\ \A x \in 1..Len(list) : other[x] = list[x]
  BY <1>1 DEF Added
<1>3. /\ Len(new) = B + 1 /\ new[B + 1].head = A + 1 /\ new[B + 1].tail = A + 1
      /\ \A b \in 1..B : new[b].head = bs[b].head /\ new[b].tail = bs[b].tail
  BY <1>1 DEF Opened, SameBounds
<1>4. PICK G : G = GroupsOf(list, bs)
  OBVIOUS
<1>5. G \in Seq(Seq(S)) /\ Len(G) = B /\ \A b \in 1..B : G[b] = GroupOf(list, bs[b])
  <2>1. Divided(S, list, bs)
    BY GroupsTyped
  <2> QED BY <1>1, <1>4, <2>1 DEF Divided
<1>6. GroupOf(other, new[B + 1]) = <<phrase>>
  <2>1. (A + 1) - (A + 1) + 1 = 1 /\ \A k \in 1..1 : (A + 1) + k - 1 = A + 1
    OBVIOUS
  <2>2. GroupOf(other, new[B + 1]) = [k \in 1..1 |-> phrase]
    BY <1>2, <1>3, <2>1 DEF GroupOf
  <2>3. [k \in 1..1 |-> phrase] = <<phrase>>
    OBVIOUS
  <2> QED BY <2>2, <2>3
<1>7. ASSUME NEW b \in 1..B PROVE GroupOf(other, new[b]) = G[b]
  <2>1. b \in 1..Len(bs) /\ new[b].head = bs[b].head /\ new[b].tail = bs[b].tail
    BY <1>1, <1>3
  <2>2. SameBefore(list, other, bs)
    BY GroupsBefore
  <2>3. GroupOf(other, new[b]) = GroupOf(list, bs[b])
    BY <2>1, <2>2 DEF SameBefore
  <2> QED BY <1>1, <1>5, <2>2, <2>3
<1>8. GroupsOf(other, new) = [b \in 1..B + 1 |-> IF b = B + 1 THEN <<phrase>> ELSE G[b]]
  <2>1. GroupsOf(other, new) = [b \in 1..B + 1 |-> GroupOf(other, new[b])]
    BY <1>3 DEF GroupsOf
  <2>2. \A b \in 1..B + 1 : b # B + 1 => b \in 1..B
    OBVIOUS
  <2> QED BY <1>6, <1>7, <2>1, <2>2
<1>0. <<phrase>> \in Seq(S)
  <2>1. \A T, x : x \in T => <<x>> \in Seq(T)
    OBVIOUS
  <2> QED BY <2>1
<1>9. PICK one \in Seq(S), more \in {Append(G, <<phrase>>)} : one = <<phrase>>
  BY <1>0
<1>10. Added(Seq(S), G, one, more)
  BY <1>5, <1>9, IsAdded
<1>11. more = [b \in 1..B + 1 |-> IF b = B + 1 THEN one ELSE G[b]]
  BY <1>5, <1>10 DEF Added
<1> QED BY <1>4, <1>8, <1>9, <1>11

-----------------------------------------------------------------------------
(* Phrases before and after a step, by the moras of the words joined.      *)
PhraseSet == [moras : Seq(Seq(Sound)), accent : Nat, question : BOOLEAN]

\* The elements of a list lie in order over the list below.
InOrder(upper, n) ==
  \A h, t \in 1..Len(upper) :
    h <= t => /\ upper[h].head \in 1..n /\ upper[t].tail \in 1..n
              /\ upper[h].head <= upper[t].tail /\ upper[h].tail <= upper[t].tail

\* What an element covers lies before what a later one covers.
LEMMA LevelInOrder ==
  ASSUME NEW S, NEW upper \in Seq(S), NEW lower, NEW n \in Nat, Level(upper, lower, n)
  PROVE  InOrder(upper, n)
<1>1. PICK l \in Nat : l = Len(upper)
  BY LenProperties
<1>2. ASSUME NEW k \in 1..l
      PROVE  /\ upper[k].head \in Nat /\ upper[k].tail \in Nat
             /\ 1 <= upper[k].head /\ upper[k].tail <= n /\ upper[k].head <= upper[k].tail
             /\ k + 1 \in 1..l => upper[k + 1].head = upper[k].tail + 1
  <2>1. upper # <<>> /\ DOMAIN upper = 1..l
    BY <1>1, Listed
  <2>2. k + 1 \in 1..l => k \in 1..l - 1
    OBVIOUS
  <2> QED BY <1>1, <2>1, <2>2 DEF Level, Tiles
<1> DEFINE Reaches(h, t) == upper[h].head <= upper[t].tail /\ upper[h].tail <= upper[t].tail
           P == {d \in Nat : \A h \in 1..l : h + d \in 1..l => Reaches(h, h + d)}
<1>3. 0 \in P
  <2> SUFFICES ASSUME NEW h \in 1..l PROVE Reaches(h, h + 0)
    OBVIOUS
  <2>1. h + 0 = h
    OBVIOUS
  <2>2. PICK i \in Nat, j \in Nat : i = upper[h].head /\ j = upper[h].tail /\ i <= j
    BY <1>2
  <2> QED BY <2>1, <2>2
<1>4. ASSUME NEW d \in Nat, d \in P PROVE d + 1 \in P
  <2> SUFFICES ASSUME NEW h \in 1..l, h + (d + 1) \in 1..l PROVE Reaches(h, h + (d + 1))
    OBVIOUS
  <2>1. PICK k \in 1..l : k = h + d /\ k + 1 = h + (d + 1) /\ k + 1 \in 1..l
    OBVIOUS
  <2>2. Reaches(h, k)
    BY <1>4, <2>1
  <2>3. PICK i \in Nat, j \in Nat : i = upper[h].head /\ j = upper[h].tail
    BY <1>2
  <2>31. PICK e \in Nat : e = upper[k].tail
    BY <1>2
  <2>32. PICK v \in Nat : v = upper[k + 1].tail /\ e + 1 <= v
    <3>1. PICK n1 \in 1..l : n1 = k + 1
      BY <2>1
    <3>2. PICK u \in Nat, v \in Nat : u = upper[n1].head /\ v = upper[n1].tail /\ u <= v
      BY <1>2
    <3>3. u = e + 1
      BY <1>2, <2>1, <2>31, <3>1, <3>2
    <3>4. e + 1 <= v
      <4>1. u <= v
        BY <3>2
      <4> QED BY <3>3, <4>1
    <3> QED BY <3>1, <3>2, <3>4
  <2>4. i <= e /\ j <= e
    BY <2>2, <2>3, <2>31
  <2>41. e + 1 <= v
    BY <2>32
  <2>5. i <= v /\ j <= v
    BY <2>4, <2>41
  <2> QED BY <2>1, <2>3, <2>32, <2>5
<1>5. ASSUME NEW h \in 1..l, NEW t \in 1..l, h <= t
      PROVE  /\ upper[h].head \in 1..n /\ upper[t].tail \in 1..n /\ Reaches(h, t)
  <2>1. PICK d \in Nat : t = h + d
    BY <1>5
  <2>2. d \in P
    <3>1. P \in SUBSET Nat
      OBVIOUS
    <3> HIDE DEF P
    <3> QED BY <1>3, <1>4, <3>1, Induction
  <2>3. Reaches(h, t)
    BY <2>1, <2>2
  <2>4. PICK i \in Nat, e \in Nat : i = upper[h].head /\ e = upper[t].tail /\ 1 <= i /\ e <= n
    BY <1>2
  <2>5. i <= e
    BY <2>3, <2>4
  <2>6. i \in 1..n /\ e \in 1..n
    BY <2>4, <2>5
  <2> QED BY <2>3, <2>4, <2>6
<1> QED BY <1>1, <1>5 DEF InOrder

\* What LabelsInv says of the five lists, j of the words being in a phrase.
Whole(ps, ms, ws, as, bs, j) ==
  /\ MorasIn(ps, ms) /\ ws \in Seq(WordNode) /\ as \in Seq(AccentNode) /\ bs \in Seq(BreathNode)
  /\ Level(ws, ms, Len(ms)) /\ Level(as, ws, j) /\ Level(bs, as, Len(as))
  /\ j \in 0..Len(ws)

\* The moras of the words in a phrase are the first ones.
MorasUpTo(ws, j) == IF j = 0 THEN 0 ELSE ws[j].tail

InPhrase(ms, ws, as, j, a) ==
  /\ FirstAt(ws, as, a) \in Nat \ {0} /\ CountAt(ws, as, a) \in Nat \ {0}
  /\ FirstAt(ws, as, a) + CountAt(ws, as, a) - 1 = ws[as[a].tail].tail
  /\ ws[as[a].tail].tail <= MorasUpTo(ws, j) /\ MorasUpTo(ws, j) \in 0..Len(ms)
  /\ as[a].head \in 1..j /\ as[a].tail \in 1..j
  /\ a = Len(as) <=> as[a].tail = j

\* A phrase covers a run of the moras of the words that have joined.
LEMMA PhraseRange ==
  ASSUME NEW ps, NEW ms, NEW ws, NEW as, NEW bs, NEW j, Whole(ps, ms, ws, as, bs, j),
         NEW a \in 1..Len(as)
  PROVE  InPhrase(ms, ws, as, j, a)
<1>1. PICK M \in Nat, W \in Nat, A \in Nat : M = Len(ms) /\ W = Len(ws) /\ A = Len(as)
  BY LenProperties DEF Whole, MorasIn
<1>2. j \in 0..W
  BY <1>1 DEF Whole
<1>3. InOrder(as, j) /\ InOrder(ws, M)
  <2>1. /\ as \in Seq(AccentNode) /\ ws \in Seq(WordNode)
        /\ Level(ws, ms, M) /\ Level(as, ws, j) /\ j \in Nat
    <3>1. j \in Nat
      BY <1>2
    <3> QED BY <1>1, <3>1 DEF Whole
  <2>2. InOrder(as, j)
    BY <2>1, LevelInOrder
  <2>3. InOrder(ws, M)
    BY <2>1, LevelInOrder
  <2> QED BY <2>2, <2>3
<1>4. PICK h \in 1..j, t \in 1..j : h = as[a].head /\ t = as[a].tail /\ h <= t
  <2>1. a <= a
    BY <1>1
  <2> QED BY <1>3, <2>1 DEF InOrder
<1>5. h \in 1..W /\ t \in 1..W /\ j \in 1..W /\ t <= j /\ j # 0
  BY <1>2
<1>6. PICK n \in 1..M, e \in 1..M, l \in 1..M :
        n = ws[h].head /\ e = ws[t].tail /\ l = ws[j].tail /\ n <= e /\ e <= l
  <2>1. \A x, y \in 1..W : x <= y =>
           /\ ws[x].head \in 1..M /\ ws[y].tail \in 1..M
           /\ ws[x].head <= ws[y].tail /\ ws[x].tail <= ws[y].tail
    BY <1>1, <1>3 DEF InOrder
  <2>2. h <= t
    BY <1>4
  <2>3. /\ ws[h].head \in 1..M /\ ws[t].tail \in 1..M /\ ws[h].head <= ws[t].tail
    BY <1>5, <2>1, <2>2
  <2>4. ws[j].tail \in 1..M /\ ws[t].tail <= ws[j].tail
    BY <1>5, <2>1
  <2> QED BY <2>3, <2>4
<1>7. a = A <=> t = j
  <2>1. as # <<>> /\ DOMAIN as = 1..A
    <3>1. as \in Seq(AccentNode)
      BY DEF Whole
    <3>2. DOMAIN as = 1..A /\ (as = <<>> <=> A = 0) /\ a \in 1..A
      BY <1>1, <3>1, Listed
    <3>3. A # 0
      BY <3>2
    <3> QED BY <3>2, <3>3
  <2>2. as[A].tail = j /\ \A k \in 1..A - 1 : as[k + 1].head = as[k].tail + 1
    BY <1>1, <2>1 DEF Whole, Level, Tiles
  <2>3. a # A => t # j
    <3> SUFFICES ASSUME a # A PROVE t # j
      OBVIOUS
    <3>0. a \in 1..A
      BY <1>1
    <3>1. PICK b \in 1..A : b = a + 1 /\ a \in 1..A - 1
      BY <3>0
    <3>2. as[b].head = t + 1
      BY <1>4, <2>2, <3>1
    <3>3. as[b].head \in 1..j
      <4>1. b <= b
        OBVIOUS
      <4> QED BY <1>1, <1>3, <4>1 DEF InOrder
    <3> QED BY <3>2, <3>3
  <2> QED BY <1>4, <2>2, <2>3
<1>8. FirstAt(ws, as, a) = n /\ CountAt(ws, as, a) = e - n + 1 /\ MorasUpTo(ws, j) = l
  BY <1>4, <1>5, <1>6 DEF FirstAt, CountAt, MorasUpTo
<1>9. /\ n \in Nat \ {0} /\ e - n + 1 \in Nat \ {0} /\ n + (e - n + 1) - 1 = e /\ e <= l
      /\ l \in 0..M
  <2>1. n <= e /\ e <= l
    BY <1>6
  <2> QED BY <2>1
<1> QED BY <1>1, <1>4, <1>6, <1>7, <1>8, <1>9 DEF InPhrase

PhrasesListed(ps, ms, ws, as) ==
  /\ PhrasesAt(ps, ms, ws, as) \in Seq(PhraseSet)
  /\ Len(PhrasesAt(ps, ms, ws, as)) = Len(as)
  /\ \A a \in 1..Len(as) : PhrasesAt(ps, ms, ws, as)[a] = PhraseAt(ps, ms, ws, as, a)

\* The phrases of lists that are whole.
LEMMA PhrasesTyped ==
  ASSUME NEW ps, NEW ms, NEW ws, NEW as, NEW bs, NEW j, Whole(ps, ms, ws, as, bs, j)
  PROVE  PhrasesListed(ps, ms, ws, as)
<1>1. PICK A \in Nat : A = Len(as)
  BY LenProperties DEF Whole
<1>2. ASSUME NEW a \in 1..A PROVE PhraseAt(ps, ms, ws, as, a) \in PhraseSet
  <2>1. PICK n \in Nat \ {0}, c \in Nat \ {0} :
          n = FirstAt(ws, as, a) /\ c = CountAt(ws, as, a) /\ n + c - 1 <= Len(ms)
    <3>1. InPhrase(ms, ws, as, j, a)
      BY <1>1, PhraseRange
    <3>2. Len(ms) \in Nat
      BY LenProperties DEF Whole, MorasIn
    <3>3. PICK n \in Nat \ {0}, c \in Nat \ {0}, e \in {ws[as[a].tail].tail}, l \in {MorasUpTo(ws, j)} :
            /\ n = FirstAt(ws, as, a) /\ c = CountAt(ws, as, a) /\ e = ws[as[a].tail].tail
            /\ l = MorasUpTo(ws, j) /\ n + c - 1 = e /\ e <= l /\ l \in 0..Len(ms)
      BY <3>1 DEF InPhrase
    <3>4. n + c - 1 <= Len(ms)
      <4>1. PICK M \in Nat : M = Len(ms)
        BY <3>2
      <4>2. l \in 0..M /\ e <= l /\ n + c - 1 = e
        BY <3>3, <4>1
      <4> QED BY <4>1, <4>2
    <3> QED BY <3>3, <3>4
  <2>2. FlattenSeq(ItemsAt(ps, ms, n, c)) \in Seq(Seq(Sound))
    <3>1. PICK items \in Seq(Seq(Seq(Sound))) : items = ItemsAt(ps, ms, n, c)
      BY <2>1, ItemsTyped DEF Whole
    <3>2. FlattenSeq(items) \in Seq(Seq(Sound))
      BY JointPlaces
    <3> QED BY <3>1, <3>2
  <2>3. as[a].accent \in Nat /\ as[a].question \in BOOLEAN
    <3>1. as[a] \in AccentNode
      BY <1>1, ElementOfSeq DEF Whole
    <3> QED BY <3>1 DEF AccentNode
  <2> QED BY <2>1, <2>2, <2>3 DEF PhraseAt, PhraseSet
<1>3. PICK f : f = PhrasesAt(ps, ms, ws, as)
  OBVIOUS
<1>4. f = [a \in 1..A |-> PhraseAt(ps, ms, ws, as, a)]
  BY <1>1, <1>3 DEF PhrasesAt
<1>5. f \in [1..A -> PhraseSet]
  BY <1>2, <1>4
<1>6. f \in Seq(PhraseSet) /\ Len(f) = A
  BY <1>5
<1> QED BY <1>1, <1>3, <1>4, <1>6 DEF PhrasesListed

-----------------------------------------------------------------------------
(* What is heard of a word.                                                *)
LEMMA HeardSoFar ==
  ASSUME NEW tokens, Len(tokens) \in Nat
  PROVE  /\ HeardBy(tokens)[0] = <<>>
         /\ \A n \in 1..Len(tokens) : HeardBy(tokens)[n] = Hear(HeardBy(tokens)[n - 1], tokens[n])
<1> DEFINE After(f, n) == IF n = 0 THEN <<>> ELSE Hear(f[n - 1], tokens[n])
           P == {m \in Nat : \E f : f = [n \in 0..m |-> After(f, n)]}
<1>1. P \in SUBSET Nat
  OBVIOUS
<1>2. 0 \in P
  <2>1. PICK f : f = [n \in 0..0 |-> <<>>]
    OBVIOUS
  <2>2. f = [n \in 0..0 |-> After(f, n)]
    BY <2>1
  <2> QED BY <2>2
<1>3. ASSUME NEW m \in P PROVE m + 1 \in P
  <2>1. m \in Nat
    OBVIOUS
  <2>2. PICK f : f = [n \in 0..m |-> After(f, n)]
    OBVIOUS
  <2> HIDE DEF After
  <2>3. PICK g : g = [n \in 0..m + 1 |-> IF n = m + 1 THEN After(f, n) ELSE f[n]]
    OBVIOUS
  <2>4. \A n \in 0..m : f[n] = After(f, n) /\ g[n] = f[n]
    <3>1. \A n \in 0..m : n \in 0..m + 1 /\ n # m + 1
      BY <2>1
    <3> QED BY <2>2, <2>3, <3>1
  <2>5. ASSUME NEW n \in 0..m + 1 PROVE g[n] = After(g, n)
    <3>1. n = 0 \/ n - 1 \in 0..m
      BY <2>1
    <3>2. n # 0 => g[n - 1] = f[n - 1]
      BY <2>4, <3>1
    <3>3. After(g, n) = After(f, n)
      BY <3>2 DEF After
    <3>4. n = m + 1 \/ n \in 0..m
      BY <2>1
    <3>5. g[n] = After(f, n)
      BY <2>3, <2>4, <3>4
    <3> QED BY <3>3, <3>5
  <2>6. g = [n \in 0..m + 1 |-> After(g, n)]
    <3>1. g = [n \in 0..m + 1 |-> g[n]]
      BY <2>3
    <3> QED BY <2>5, <3>1
  <2> QED BY <2>1, <2>6
<1>4. PICK f : f = [n \in 0..Len(tokens) |-> After(f, n)]
  <2> HIDE DEF P
  <2>1. Len(tokens) \in P
    BY <1>1, <1>2, <1>3, Induction
  <2> QED BY <2>1 DEF P
<1>5. HeardBy(tokens) = [n \in 0..Len(tokens) |-> After(HeardBy(tokens), n)]
  BY <1>4 DEF HeardBy
<1>6. PICK h : h = HeardBy(tokens)
  OBVIOUS
<1>7. h = [n \in 0..Len(tokens) |-> After(h, n)]
  BY <1>5, <1>6
<1>8. 0 \in 0..Len(tokens) /\ \A n \in 1..Len(tokens) : n \in 0..Len(tokens) /\ n # 0
  OBVIOUS
<1>9. h[0] = <<>>
  BY <1>7, <1>8
<1>10. ASSUME NEW n \in 1..Len(tokens) PROVE h[n] = Hear(h[n - 1], tokens[n])
  <2>1. h[n] = After(h, n)
    <3> HIDE DEF After
    <3> QED BY <1>7, <1>8
  <2> QED BY <1>8, <2>1
<1> QED BY <1>6, <1>9, <1>10

\* The part of a word up to its first unknown character.
KnownPart(pron, up) ==
  /\ up \in Seq(Tokens) /\ Len(up) <= Len(pron)
  /\ \A k \in 1..Len(up) : up[k] = pron[k] /\ pron[k] # "unknown"
  /\ Len(up) = Len(pron) \/ (Len(up) + 1 \in 1..Len(pron) /\ pron[Len(up) + 1] = "unknown")

\* A word is known up to its first unknown character.
LEMMA KnownEnds ==
  ASSUME NEW pron \in Seq(Tokens)
  PROVE  KnownPart(pron, UpToUnknown(pron))
<1>1. PICK I : I = {i \in 1..Len(pron) : pron[i] = "unknown"}
  OBVIOUS
<1>2. PICK end : end = IF I # {} THEN Min(I) ELSE 0
  OBVIOUS
<1>3. UpToUnknown(pron) = IF end = 0 THEN pron ELSE SubSeq(pron, 1, end - 1)
  BY <1>1, <1>2 DEF UpToUnknown, SelectInSeq
<1>4. Len(pron) \in Nat
  BY LenProperties
<1>5. CASE I = {}
  BY <1>1, <1>2, <1>3, <1>4, <1>5 DEF KnownPart
<1>6. CASE I # {}
  <2>1. \E i \in I : \A k \in I : i <= k
    <3>1. I \in SUBSET Nat
      BY <1>1
    <3> QED BY <1>6, <3>1, LeastElement
  <2>2. end \in I /\ \A k \in I : end <= k
    BY <1>2, <1>6, <2>1 DEF Min
  <2>3. end \in 1..Len(pron) /\ pron[end] = "unknown"
    BY <1>1, <2>2
  <2>4. PICK up : up = SubSeq(pron, 1, end - 1)
    OBVIOUS
  <2>5. up \in Seq(Tokens) /\ Len(up) = end - 1 /\ \A k \in 1..end - 1 : up[k] = pron[k]
    BY <1>4, <2>3, <2>4
  <2>6. \A k \in 1..end - 1 : pron[k] # "unknown"
    <3>1. ASSUME NEW k \in 1..end - 1 PROVE k \notin I /\ k \in 1..Len(pron)
      BY <1>4, <2>2, <2>3
    <3> QED BY <1>1, <3>1
  <2>7. end - 1 <= Len(pron) /\ (end - 1) + 1 = end /\ end # 0
    BY <1>4, <2>3
  <2>8. KnownPart(pron, up)
    BY <2>3, <2>5, <2>6, <2>7 DEF KnownPart
  <2> QED BY <1>3, <2>4, <2>7, <2>8
<1> QED BY <1>5, <1>6

-----------------------------------------------------------------------------
(* A phrase is the same, longer or new.                                    *)
SameMarks(as, nas, a) ==
  /\ nas[a].head = as[a].head /\ nas[a].accent = as[a].accent /\ nas[a].question = as[a].question

SamePhrase(ws, as, nws, nas, a) ==
  /\ SameMarks(as, nas, a) /\ nas[a].tail = as[a].tail
  /\ nws[as[a].head].head = ws[as[a].head].head /\ nws[as[a].tail].tail = ws[as[a].tail].tail

\* A phrase whose moras are kept says what it said.
LEMMA PhraseSame ==
  ASSUME NEW ps, NEW ms, NEW ws, NEW as, NEW bs, NEW j, Whole(ps, ms, ws, as, bs, j),
         NEW new, NEW low, NEW nws, NEW nas, NEW a \in 1..Len(as),
         SamePhrase(ws, as, nws, nas, a), NEW l \in Nat, MorasKept(ps, ms, new, low, l),
         ws[as[a].tail].tail <= l
  PROVE  PhraseAt(new, low, nws, nas, a) = PhraseAt(ps, ms, ws, as, a)
<1>1. PICK n \in Nat \ {0}, c \in Nat \ {0} :
        n = FirstAt(ws, as, a) /\ c = CountAt(ws, as, a) /\ n + c - 1 = ws[as[a].tail].tail
  <2>1. InPhrase(ms, ws, as, j, a)
    BY PhraseRange
  <2> QED BY <2>1 DEF InPhrase
<1>2. FirstAt(nws, nas, a) = n /\ CountAt(nws, nas, a) = c
  BY <1>1 DEF SamePhrase, SameMarks, FirstAt, CountAt
<1>3. n + c - 1 <= l
  BY <1>1
<1>4. ItemsAt(new, low, n, c) = ItemsAt(ps, ms, n, c)
  BY <1>3, ItemsSame
<1> QED BY <1>1, <1>2, <1>4 DEF PhraseAt, SamePhrase, SameMarks

\* A phrase says d moras more, with a pause before them or none.
Prolonged(phrase, pre, said) == [phrase EXCEPT !.moras = (@ \o pre) \o said]

\* A phrase record with other moras.
LEMMA OtherMoras ==
  ASSUME NEW old, NEW more, NEW mark, NEW asked
  PROVE  [[moras |-> old, accent |-> mark, question |-> asked] EXCEPT !.moras = more]
           = [moras |-> more, accent |-> mark, question |-> asked]
OBVIOUS

\* A phrase that grows by moras says what it said and then what they say.
LEMMA PhraseLonger ==
  ASSUME NEW ps, NEW ms, NEW ws, NEW as, NEW bs, NEW j, Whole(ps, ms, ws, as, bs, j),
         NEW new, NEW low, MorasIn(new, low), NEW nws, NEW nas, NEW a \in 1..Len(as),
         SameMarks(as, nas, a), NEW n \in Nat, NEW c \in Nat, NEW d \in Nat \ {0},
         n = FirstAt(ws, as, a), c = CountAt(ws, as, a),
         FirstAt(nws, nas, a) = n, CountAt(nws, nas, a) = c + d,
         MoreMoras(ps, ms, new, low, n, c, d)
  PROVE  PhraseAt(new, low, nws, nas, a) =
           Prolonged(PhraseAt(ps, ms, ws, as, a), BeforeAt(new, low, n, n + c), Said(new, low, n + c, d))
<1>0. MorasIn(ps, ms)
  BY DEF Whole
<1>1. n \in Nat \ {0}
  <2>1. InPhrase(ms, ws, as, j, a)
    BY PhraseRange
  <2> QED BY <2>1 DEF InPhrase
<1>2. FlattenSeq(ItemsAt(new, low, n, c + d)) =
        (FlattenSeq(ItemsAt(ps, ms, n, c)) \o BeforeAt(new, low, n, n + c)) \o Said(new, low, n + c, d)
  <2>1. ItemsGrow(ps, ms, new, low, n, c, d)
    BY <1>0, <1>1, ItemsLonger
  <2> QED BY <2>1 DEF ItemsGrow
<1>3. PICK old, more, pre, said :
        /\ old = FlattenSeq(ItemsAt(ps, ms, n, c)) /\ more = FlattenSeq(ItemsAt(new, low, n, c + d))
        /\ pre = BeforeAt(new, low, n, n + c) /\ said = Said(new, low, n + c, d)
  OBVIOUS
<1>4. more = (old \o pre) \o said
  BY <1>2, <1>3
<1>5. /\ PhraseAt(ps, ms, ws, as, a) = [moras |-> old, accent |-> as[a].accent, question |-> as[a].question]
      /\ PhraseAt(new, low, nws, nas, a) = [moras |-> more, accent |-> as[a].accent, question |-> as[a].question]
  BY <1>3 DEF PhraseAt, SameMarks
<1>6. PICK phrase : phrase = [moras |-> old, accent |-> as[a].accent, question |-> as[a].question]
  OBVIOUS
<1>7. Prolonged(phrase, pre, said) = [moras |-> more, accent |-> as[a].accent, question |-> as[a].question]
  <2>1. /\ (phrase.moras \o pre) \o said = more
        /\ Prolonged(phrase, pre, said) = [phrase EXCEPT !.moras = (phrase.moras \o pre) \o said]
    BY <1>4, <1>6 DEF Prolonged
  <2>2. [phrase EXCEPT !.moras = more] = [moras |-> more, accent |-> as[a].accent, question |-> as[a].question]
    <3>1. PICK mark, asked : mark = as[a].accent /\ asked = as[a].question
      OBVIOUS
    <3>2. phrase = [moras |-> old, accent |-> mark, question |-> asked]
      BY <1>6, <3>1
    <3>3. [phrase EXCEPT !.moras = more] = [moras |-> more, accent |-> mark, question |-> asked]
      BY <3>2, OtherMoras
    <3> QED BY <3>1, <3>3
  <2> QED BY <2>1, <2>2
<1> QED BY <1>3, <1>5, <1>6, <1>7

\* A new phrase says what its words say.
NewPhraseOf(saying, mark) == [moras |-> saying, accent |-> mark, question |-> FALSE]

OpensPhrase(new, low, nws, nas, a, n, d) ==
  /\ MorasIn(new, low) /\ FirstAt(nws, nas, a) = n /\ CountAt(nws, nas, a) = d
  /\ n + d - 1 <= Len(low) /\ \A m \in n + 1..n + d - 1 : ~PauseAt(new, low, m)
  /\ nas[a].question = FALSE

\* A phrase without a pause inside says what its moras say.
LEMMA PhraseNew ==
  ASSUME NEW new, NEW low, NEW nws, NEW nas, NEW a, NEW n \in Nat \ {0}, NEW d \in Nat \ {0},
         OpensPhrase(new, low, nws, nas, a, n, d)
  PROVE  PhraseAt(new, low, nws, nas, a) = NewPhraseOf(Said(new, low, n, d), nas[a].accent)
<1>a. /\ MorasIn(new, low) /\ FirstAt(nws, nas, a) = n /\ CountAt(nws, nas, a) = d
      /\ n + d - 1 <= Len(low) /\ \A m \in n + 1..n + d - 1 : ~PauseAt(new, low, m)
      /\ nas[a].question = FALSE
  BY DEF OpensPhrase
<1> USE <1>a
<1>0. PICK z \in Nat : /\ z = 0 /\ n + z = n /\ z + d = d /\ n + z - 1 <= Len(low)
                         /\ n + z + d - 1 <= Len(low) /\ n + z + 1 = n + 1 /\ n + z + d - 1 = n + d - 1
  <2>1. PICK M \in Nat : M = Len(low)
    BY LenProperties DEF MorasIn
  <2>2. n + 0 = n /\ 0 + d = d /\ n + 0 - 1 <= M /\ n + 0 + 1 = n + 1 /\ n + 0 + d - 1 = n + d - 1
    BY <2>1
  <2> QED BY <2>1, <2>2
<1>2. MoreMoras(new, low, new, low, n, z, d)
  <2>1. MorasKept(new, low, new, low, n + z - 1)
    BY DEF MorasKept
  <2> QED BY <1>0, <2>1 DEF MoreMoras
<1>3. FlattenSeq(ItemsAt(new, low, n, d)) =
        (FlattenSeq(ItemsAt(new, low, n, z)) \o BeforeAt(new, low, n, n)) \o Said(new, low, n, d)
  <2>1. ItemsGrow(new, low, new, low, n, z, d)
    BY <1>2, ItemsLonger
  <2> QED BY <1>0, <2>1 DEF ItemsGrow
<1>4. ItemsAt(new, low, n, z) = <<>>
  <2>1. PICK f : f = ItemsAt(new, low, n, z)
    OBVIOUS
  <2>2. f = [k \in 1..0 |-> ItemAt(new, low, n, n + k - 1)]
    BY <1>0, <2>1 DEF ItemsAt
  <2>3. f \in [1..0 -> {0}]
    BY <2>2
  <2>4. f \in Seq({0}) /\ Len(f) = 0
    BY <2>3
  <2> QED BY <2>1, <2>4, EmptySeq
<1>5. FlattenSeq(<<>>) = <<>>
  <2>1. PICK e \in Seq(Seq(Seq(Sound))) : e = <<>> /\ Len(e) = 0
    BY EmptySeq
  <2>2. Joint(e, Len(e)) = FlattenSeq(e) /\ Joint(e, 0) = <<>>
    BY JointStep
  <2> QED BY <2>1, <2>2
<1>6. BeforeAt(new, low, n, n) = <<>>
  BY DEF BeforeAt
<1>7. PICK s \in Seq(Seq(Sound)) : s = Said(new, low, n, d)
  BY ItemsTyped
<1>8. (<<>> \o <<>>) \o s = s
  <2>1. <<>> \in Seq(Seq(Sound))
    BY EmptySeq
  <2> QED BY <2>1, ConcatEmptySeq
<1>9. FlattenSeq(ItemsAt(new, low, n, d)) = Said(new, low, n, d)
  BY <1>3, <1>4, <1>5, <1>6, <1>7, <1>8
<1> QED BY <1>9 DEF PhraseAt, NewPhraseOf

\* The lists of phrases.
LEMMA ListSame ==
  ASSUME NEW ps, NEW ms, NEW ws, NEW as, NEW new, NEW low, NEW nws, NEW nas, Len(nas) = Len(as),
         \A a \in 1..Len(as) : PhraseAt(new, low, nws, nas, a) = PhraseAt(ps, ms, ws, as, a)
  PROVE  PhrasesAt(new, low, nws, nas) = PhrasesAt(ps, ms, ws, as)
BY DEF PhrasesAt

\* The list when only the last phrase is another one.
LEMMA ListLast ==
  ASSUME NEW ps, NEW ms, NEW ws, NEW as, NEW bs, NEW j, Whole(ps, ms, ws, as, bs, j), as # <<>>,
         NEW new, NEW low, NEW nws, NEW nas, NEW nbs, NEW i, Whole(new, low, nws, nas, nbs, i),
         Len(nas) = Len(as),
         \A a \in 1..Len(as) : a # Len(as) =>
           PhraseAt(new, low, nws, nas, a) = PhraseAt(ps, ms, ws, as, a)
  PROVE  PhrasesAt(new, low, nws, nas) =
           LastReplaced(PhrasesAt(ps, ms, ws, as), PhraseAt(new, low, nws, nas, Len(as)))
<1>1. PICK A \in Nat \ {0} : A = Len(as)
  BY LenProperties, EmptySeq DEF Whole
<1>2. PICK list, other :
        /\ list = PhrasesAt(ps, ms, ws, as) /\ other = PhrasesAt(new, low, nws, nas)
        /\ list \in Seq(PhraseSet) /\ other \in Seq(PhraseSet)
        /\ Len(list) = A /\ Len(other) = A
        /\ \A a \in 1..A : list[a] = PhraseAt(ps, ms, ws, as, a)
        /\ \A a \in 1..A : other[a] = PhraseAt(new, low, nws, nas, a)
  <2>1. /\ PhrasesAt(ps, ms, ws, as) \in Seq(PhraseSet)
        /\ Len(PhrasesAt(ps, ms, ws, as)) = A
        /\ \A a \in 1..A : PhrasesAt(ps, ms, ws, as)[a] = PhraseAt(ps, ms, ws, as, a)
    <3>1. PhrasesListed(ps, ms, ws, as)
      BY PhrasesTyped
    <3> QED BY <1>1, <3>1 DEF PhrasesListed
  <2>2. /\ PhrasesAt(new, low, nws, nas) \in Seq(PhraseSet)
        /\ Len(PhrasesAt(new, low, nws, nas)) = A
        /\ \A a \in 1..A : PhrasesAt(new, low, nws, nas)[a] = PhraseAt(new, low, nws, nas, a)
    <3>1. PhrasesListed(new, low, nws, nas)
      BY PhrasesTyped
    <3> QED BY <1>1, <3>1 DEF PhrasesListed
  <2> QED BY <2>1, <2>2
<1>3. PICK phrase, o : phrase = PhraseAt(new, low, nws, nas, A) /\ o = LastReplaced(list, phrase)
  OBVIOUS
<1>4. phrase \in PhraseSet /\ list # <<>>
  <2>1. A \in 1..Len(other) /\ Len(list) # 0
    BY <1>2
  <2>2. other[A] \in PhraseSet
    BY <1>2, <2>1, ElementOfSeq
  <2>3. other[A] = phrase
    <3>1. A \in 1..A
      OBVIOUS
    <3> QED BY <1>2, <1>3, <3>1
  <2> QED BY <1>2, <2>1, <2>2, <2>3, EmptySeq
<1>5. Replaced(PhraseSet, list, phrase, o)
  <2>1. list \in Seq(PhraseSet) /\ o = LastReplaced(list, phrase)
    BY <1>2, <1>3
  <2> QED BY <1>4, <2>1, LastReplacedIs
<1>6. o \in Seq(PhraseSet) /\ Len(o) = A /\ \A a \in 1..A : other[a] = o[a]
  <2>1. /\ o[A] = phrase /\ \A a \in 1..A : a # A => o[a] = list[a]
        /\ o \in Seq(PhraseSet) /\ Len(o) = A
    BY <1>2, <1>5 DEF Replaced
  <2> QED BY <1>1, <1>2, <1>3, <2>1
<1>7. other = o
  BY <1>2, <1>6, SeqEqual
<1> QED BY <1>1, <1>2, <1>3, <1>7

\* The list when there is a phrase more.
LEMMA ListAdded ==
  ASSUME NEW ps, NEW ms, NEW ws, NEW as, NEW bs, NEW j, Whole(ps, ms, ws, as, bs, j),
         NEW new, NEW low, NEW nws, NEW nas, NEW nbs, NEW i, Whole(new, low, nws, nas, nbs, i),
         Len(nas) = Len(as) + 1,
         \A a \in 1..Len(as) : PhraseAt(new, low, nws, nas, a) = PhraseAt(ps, ms, ws, as, a)
  PROVE  Added(PhraseSet, PhrasesAt(ps, ms, ws, as), PhraseAt(new, low, nws, nas, Len(as) + 1),
               PhrasesAt(new, low, nws, nas))
<1>1. PICK A \in Nat : A = Len(as)
  BY LenProperties DEF Whole
<1>2. PICK list, other :
        /\ list = PhrasesAt(ps, ms, ws, as) /\ other = PhrasesAt(new, low, nws, nas)
        /\ list \in Seq(PhraseSet) /\ other \in Seq(PhraseSet)
        /\ Len(list) = A /\ Len(other) = A + 1
        /\ \A a \in 1..A : list[a] = PhraseAt(ps, ms, ws, as, a)
        /\ \A a \in 1..A + 1 : other[a] = PhraseAt(new, low, nws, nas, a)
  <2>1. /\ PhrasesAt(ps, ms, ws, as) \in Seq(PhraseSet)
        /\ Len(PhrasesAt(ps, ms, ws, as)) = A
        /\ \A a \in 1..A : PhrasesAt(ps, ms, ws, as)[a] = PhraseAt(ps, ms, ws, as, a)
    <3>1. PhrasesListed(ps, ms, ws, as)
      BY PhrasesTyped
    <3> QED BY <1>1, <3>1 DEF PhrasesListed
  <2>2. /\ PhrasesAt(new, low, nws, nas) \in Seq(PhraseSet)
        /\ Len(PhrasesAt(new, low, nws, nas)) = A + 1
        /\ \A a \in 1..A + 1 : PhrasesAt(new, low, nws, nas)[a] = PhraseAt(new, low, nws, nas, a)
    <3>1. PhrasesListed(new, low, nws, nas)
      BY PhrasesTyped
    <3> QED BY <1>1, <3>1 DEF PhrasesListed
  <2> QED BY <2>1, <2>2, ZenonT(60)
<1>3. PICK phrase, o : phrase = PhraseAt(new, low, nws, nas, A + 1) /\ o = Append(list, phrase)
  OBVIOUS
<1>4. phrase \in PhraseSet
  <2>1. A + 1 \in 1..Len(other) /\ A + 1 \in 1..A + 1
    BY <1>2
  <2>2. other[A + 1] \in PhraseSet
    BY <1>2, <2>1, ElementOfSeq
  <2> QED BY <1>2, <1>3, <2>1, <2>2
<1>5. Added(PhraseSet, list, phrase, o)
  <2>1. list \in Seq(PhraseSet) /\ o = Append(list, phrase)
    BY <1>2, <1>3
  <2> QED BY <1>4, <2>1, IsAdded
<1>6. o \in Seq(PhraseSet) /\ Len(o) = A + 1 /\ \A a \in 1..A + 1 : other[a] = o[a]
  <2>1. /\ o[A + 1] = phrase /\ \A a \in 1..A : o[a] = list[a]
        /\ o \in Seq(PhraseSet) /\ Len(o) = A + 1
    BY <1>2, <1>5 DEF Added
  <2>2. \A a \in 1..A + 1 : a \in 1..A \/ a = A + 1
    OBVIOUS
  <2>3. \A a \in 1..A : a \in 1..A + 1
    OBVIOUS
  <2> QED BY <1>1, <1>2, <1>3, <2>1, <2>2, <2>3
<1>7. other = o
  BY <1>2, <1>6, SeqEqual
<1> QED BY <1>1, <1>2, <1>3, <1>5, <1>7

-----------------------------------------------------------------------------
(* The lists as the invariant has them.                                    *)
PhrasesNow == PhrasesAt(phonemes, moras, words, accents)
WholeNow == Whole(phonemes, moras, words, accents, breaths, Joined)

\* The invariant of the lists, in the form the lemmas above take.
LEMMA ListsWhole == LabelsInv => WholeNow
<1> SUFFICES ASSUME LabelsInv PROVE WholeNow
  OBVIOUS
<1>1. MorasIn(phonemes, moras)
  BY DEF LabelsInv, TypeOK, SoundsInv, MorasIn
<1>2. Joined \in 0..Len(words)
  BY Sizes, JoinedLeft
<1> QED BY <1>1, <1>2 DEF LabelsInv, TypeOK, WholeNow, Whole

\* The same after a step.
LEMMA ListsWholeNext == LabelsInv' => WholeNow'
BY ListsWhole, PTL

\* What is said is the list of phrases, divided into groups.
LEMMA GroupsByPhrases == LabelsInv => GroupsNow = GroupsOf(PhrasesNow, breaths)
<1> SUFFICES ASSUME LabelsInv PROVE GroupsNow = GroupsOf(PhrasesNow, breaths)
  OBVIOUS
<1>1. GroupsNow = GroupsAt(phonemes, moras, words, accents, breaths)
  BY DEF GroupsNow, GroupsAt, GroupAt, PhraseOf, PhraseAt, PhraseMoras, FirstMora, MoraCount,
         LastMora, FirstAt, CountAt, ItemsAt, ItemAt, MoraSounds, SoundsAt, PauseBefore, PauseAt
<1>2. breaths \in Seq(BreathNode) /\ Level(breaths, accents, Len(accents)) /\ Len(accents) \in Nat
  BY Sizes DEF LabelsInv, TypeOK
<1>3. GroupsAt(phonemes, moras, words, accents, breaths) =
        GroupsOf(PhrasesAt(phonemes, moras, words, accents), breaths)
  BY <1>2, GroupsAre
<1> QED BY <1>1, <1>3 DEF PhrasesNow

\* The same after a step.
LEMMA GroupsByPhrasesNext == LabelsInv' => GroupsNow' = GroupsOf(PhrasesNow', breaths')
<1>1. (GroupsNow = GroupsOf(PhrasesNow, breaths))' <=> GroupsNow' = GroupsOf(PhrasesNow', breaths')
  OBVIOUS
<1>2. LabelsInv' => (GroupsNow = GroupsOf(PhrasesNow, breaths))'
  BY GroupsByPhrases, PTL
<1> QED BY <1>1, <1>2

\* The phrases there are, and the last of them.
LEMMA PhrasesThere ==
  ASSUME LabelsInv
  PROVE  /\ PhrasesNow \in Seq(PhraseSet) /\ Len(PhrasesNow) = Len(accents)
         /\ \A a \in 1..Len(accents) : PhrasesNow[a] = PhraseAt(phonemes, moras, words, accents, a)
         /\ GroupsNow # <<>> <=> breaths # <<>>
         /\ breaths # <<>> <=> accents # <<>>
         /\ breaths # <<>> => U!LastPhrase = PhrasesNow[Len(accents)]
<1>1. PhrasesListed(phonemes, moras, words, accents)
  BY ListsWhole, PhrasesTyped DEF WholeNow
<1>2. /\ PhrasesNow \in Seq(PhraseSet) /\ Len(PhrasesNow) = Len(accents)
      /\ \A a \in 1..Len(accents) : PhrasesNow[a] = PhraseAt(phonemes, moras, words, accents, a)
  BY <1>1 DEF PhrasesListed, PhrasesNow
<1>3. /\ breaths \in Seq(BreathNode) /\ accents \in Seq(AccentNode)
      /\ Level(breaths, accents, Len(accents)) /\ Len(accents) \in Nat
  BY Sizes DEF LabelsInv, TypeOK
<1>4. Level(breaths, accents, Len(PhrasesNow))
  BY <1>2, <1>3
<1>5. GroupsNow = GroupsOf(PhrasesNow, breaths)
  BY GroupsByPhrases
<1>6. Divided(PhraseSet, PhrasesNow, breaths)
  <2>1. PICK list : list = PhrasesNow
    OBVIOUS
  <2>2. Divided(PhraseSet, list, breaths)
    BY <1>2, <1>3, <1>4, <2>1, GroupsTyped
  <2> QED BY <2>1, <2>2
<1>7. GroupsNow # <<>> <=> breaths # <<>>
  <2>1. PICK G : G = GroupsNow
    OBVIOUS
  <2>2. G \in Seq(Seq(PhraseSet)) /\ Len(G) = Len(breaths)
    BY <1>5, <1>6, <2>1 DEF Divided
  <2>3. /\ G = <<>> <=> Len(G) = 0
        /\ breaths = <<>> <=> Len(breaths) = 0
    BY <1>3, <2>2, Listed
  <2> QED BY <2>1, <2>2, <2>3
<1>8. breaths # <<>> <=> accents # <<>>
  <2>1. Bounded(accents, breaths, Len(accents))
    BY <1>3, LevelBounds
  <2>2. accents = <<>> <=> Len(accents) = 0
    BY <1>3, Listed
  <2> QED BY <2>1, <2>2 DEF Bounded
<1>9. ASSUME breaths # <<>> PROVE U!LastPhrase = PhrasesNow[Len(accents)]
  <2>1. PICK list : list = PhrasesNow
    OBVIOUS
  <2>2. Last(Last(GroupsOf(list, breaths))) = list[Len(list)]
    BY <1>2, <1>3, <1>4, <1>9, <2>1, LastOfGroups
  <2>3. U!LastPhrase = Last(Last(GroupsNow))
    BY DEF U!LastPhrase, U!Last, Last
  <2>4. GroupsNow = GroupsOf(list, breaths) /\ Len(list) = Len(accents)
    BY <1>2, <1>5, <2>1
  <2>5. Last(Last(GroupsNow)) = list[Len(accents)]
    BY <2>2, <2>4
  <2> QED BY <2>1, <2>3, <2>5
<1> QED BY <1>2, <1>7, <1>8, <1>9

\* The same phrases.
LEMMA NothingSaid ==
  ASSUME LabelsInv, LabelsInv', PhrasesNow' = PhrasesNow, breaths' = breaths
  PROVE  GroupsNow' = GroupsNow
BY GroupsByPhrases, GroupsByPhrasesNext

\* Another last phrase.
LEMMA LastSaid ==
  ASSUME LabelsInv, LabelsInv', breaths' = breaths, breaths # <<>>, NEW phrase \in PhraseSet,
         PhrasesNow' = LastReplaced(PhrasesNow, phrase)
  PROVE  GroupsNow' = U!WithLast(phrase)
<1>1. PICK list, other : list = PhrasesNow /\ other = PhrasesNow'
  OBVIOUS
<1>2. /\ list \in Seq(PhraseSet) /\ breaths \in Seq(BreathNode)
      /\ Level(breaths, accents, Len(list)) /\ other = LastReplaced(list, phrase)
  BY <1>1, PhrasesThere DEF LabelsInv, TypeOK
<1>3. GroupsOf(other, breaths) = WithLastOf(GroupsOf(list, breaths), phrase)
  BY <1>2, GroupsLast
<1>4. GroupsNow = GroupsOf(list, breaths) /\ GroupsNow' = GroupsOf(other, breaths)
  BY <1>1, GroupsByPhrases, GroupsByPhrasesNext
<1> QED BY <1>3, <1>4 DEF WithLastOf, U!WithLast

-----------------------------------------------------------------------------
(* When a pause is due.                                                    *)
PauseDueNow == IF Open THEN PauseAt(phonemes, moras, words[Len(words)].head)
               ELSE shortPause /\ breaths # <<>>

\* A pause is pending when it stands before the word being pushed, or when a
\* word is still to come.
LEMMA PendingWhen == UtteranceInv => (PendingNow <=> PauseDueNow)
<1> SUFFICES ASSUME UtteranceInv PROVE PendingNow <=> PauseDueNow
  OBVIOUS
<1>1. /\ LabelsInv /\ (Open => words # <<>> /\ ~shortPause /\ words[Len(words)].up = 0)
  BY DEF UtteranceInv, LabelsInv
<1>2. Last(words) = words[Len(words)] /\ \A m : PauseBefore(m) <=> PauseAt(phonemes, moras, m)
  BY DEF Last, PauseBefore, PauseAt
<1>3. CASE Open
  BY <1>1, <1>2, <1>3 DEF PendingNow, PauseDueNow
<1>4. CASE ~Open
  <2>1. words # <<>> => words[Len(words)].up # 0
    <3> SUFFICES ASSUME words # <<>> PROVE words[Len(words)].up # 0
      OBVIOUS
    <3>1. Joined = Len(words) /\ words \in Seq(WordNode) /\ Level(accents, words, Joined)
      BY <1>1, <1>4 DEF Joined, LabelsInv, TypeOK
    <3>2. Len(words) \in 1..Joined
      BY <3>1, Listed
    <3>3. words[Len(words)].up \in 1..Len(accents)
      BY <3>1, <3>2 DEF Level
    <3> QED BY <3>3
  <2> QED BY <1>2, <1>4, <2>1 DEF PendingNow, PauseDueNow
<1> QED BY <1>3, <1>4

\* The same after a step.
LEMMA PendingWhenNext == UtteranceInv' => (PendingNow' <=> PauseDueNow')
BY PendingWhen, PTL

\* Nothing was pushed yet, or something of everything.
LEMMA SomeOfAll ==
  ASSUME LabelsInv, Follow(phonemes, moras), ~Open
  PROVE  /\ phonemes # <<>> <=> breaths # <<>>
         /\ phonemes # <<>> <=> words # <<>>
         /\ phonemes # <<>> <=> moras # <<>>
<1>1. /\ phonemes \in Seq(PhonemeType) /\ moras \in Seq(MoraType) /\ words \in Seq(WordNode)
      /\ accents \in Seq(AccentNode) /\ breaths \in Seq(BreathNode)
      /\ Level(words, moras, Len(moras)) /\ Level(accents, words, Joined)
      /\ Level(breaths, accents, Len(accents))
  BY DEF LabelsInv, TypeOK
<1>2. Joined = Len(words)
  BY DEF Joined
<1>3. ASSUME NEW S, NEW T, NEW upper \in Seq(S), NEW lower \in Seq(T), Level(upper, lower, Len(lower))
      PROVE  upper = <<>> <=> lower = <<>>
  <2>1. /\ upper = <<>> <=> Len(upper) = 0
        /\ lower = <<>> <=> Len(lower) = 0
        /\ Len(upper) \in Nat /\ Len(lower) \in Nat
    BY Listed
  <2>2. upper = <<>> => Len(lower) = 0
    BY <1>3 DEF Level, Tiles
  <2>3. upper # <<>> => Len(lower) # 0
    <3> SUFFICES ASSUME upper # <<>> PROVE Len(lower) # 0
      OBVIOUS
    <3>1. 1 \in 1..Len(upper) /\ DOMAIN upper = 1..Len(upper)
      BY <2>1, Listed
    <3>2. /\ upper[1].head \in Nat /\ upper[1].tail \in Nat
          /\ 1 <= upper[1].head /\ upper[1].tail <= Len(lower)
      BY <1>3, <3>1 DEF Level
    <3>3. upper[1].head <= upper[1].tail
      BY <1>3, <3>1 DEF Level, Tiles
    <3> QED BY <2>1, <3>2, <3>3
  <2> QED BY <2>1, <2>2, <2>3
<1>4. (words = <<>> <=> moras = <<>>) /\ (accents = <<>> <=> words = <<>>) /\ (breaths = <<>> <=> accents = <<>>)
  <2>1. words = <<>> <=> moras = <<>>
    BY <1>1, <1>3
  <2>2. accents = <<>> <=> words = <<>>
    BY <1>1, <1>2, <1>3
  <2>3. breaths = <<>> <=> accents = <<>>
    BY <1>1, <1>3
  <2> QED BY <2>1, <2>2, <2>3
<1>5. phonemes # <<>> => moras # <<>>
  BY DEF Follow
<1>6. moras # <<>> => phonemes # <<>>
  <2> SUFFICES ASSUME moras # <<>> PROVE phonemes # <<>>
    OBVIOUS
  <2>1. 1 \in 1..Len(moras)
    BY <1>1, Listed
  <2>2. MorasIn(phonemes, moras) /\ moras[1] \in MoraType
    BY <1>1, <2>1 DEF LabelsInv, TypeOK, SoundsInv, MorasIn
  <2>3. /\ 1 <= moras[1].head /\ moras[1].head <= moras[1].tail /\ moras[1].tail <= Len(phonemes)
        /\ moras[1].head \in Nat /\ moras[1].tail \in Nat
    BY <2>1, <2>2 DEF MorasIn, MoraType
  <2>4. Len(phonemes) # 0 /\ (phonemes = <<>> <=> Len(phonemes) = 0)
    BY <1>1, <2>3, Listed
  <2> QED BY <2>4
<1> QED BY <1>4, <1>5, <1>6

-----------------------------------------------------------------------------
(* What is heard of the word being pushed, after one token more.           *)
LEMMA RestIs ==
  ASSUME NEW pron \in Seq(Tokens), NEW rest \in Seq(Tokens), NEW j \in Nat, rest # <<>>,
         IsRestOf(rest, pron, j)
  PROVE  /\ j + 1 \in 1..Len(pron) /\ Head(rest) = pron[j + 1]
         /\ IsRestOf(Tail(rest), pron, j + 1)
<1>1. PICK r \in Nat \ {0}, p \in Nat : r = Len(rest) /\ p = Len(pron)
  BY LenProperties, EmptySeq
<1>2. r = p - j /\ \A k \in 1..r : rest[k] = pron[j + k]
  BY <1>1 DEF IsRestOf
<1>3. Head(rest) = rest[1] /\ 1 \in 1..r
  BY <1>1
<1>4. PICK t : t = Tail(rest)
  OBVIOUS
<1>5. Len(t) = r - 1 /\ \A k \in 1..r - 1 : t[k] = rest[k + 1]
  BY <1>1, <1>4
<1>6. \A k \in 1..r - 1 : t[k] = pron[(j + 1) + k]
  <2> SUFFICES ASSUME NEW k \in 1..r - 1 PROVE t[k] = pron[(j + 1) + k]
    OBVIOUS
  <2>1. k + 1 \in 1..r /\ j + (k + 1) = (j + 1) + k
    BY <1>1
  <2> QED BY <1>2, <1>5, <2>1
<1>7. r - 1 = p - (j + 1) /\ j + 1 \in 1..p
  BY <1>1, <1>2
<1> QED BY <1>1, <1>2, <1>3, <1>4, <1>5, <1>6, <1>7 DEF IsRestOf

\* Where the word being pushed is.
LEMMA Midword ==
  ASSUME LabelAssumption, TypeOK, WordHeard, status = "word", word.pron # <<>>
  PROVE  \E w \in Words, j \in Nat :
           /\ word.accent = w.accent /\ word.chain = w.chain
           /\ KnownPart(w.pron, UpToUnknown(w.pron)) /\ j \in 0..Len(UpToUnknown(w.pron))
           /\ w.pron \in Seq(Tokens)
           /\ HeardBy(UpToUnknown(w.pron))[j] = SaidNow
           /\ IsRestOf(word.pron, w.pron, j)
           /\ j + 1 \in 1..Len(w.pron) /\ Head(word.pron) = w.pron[j + 1]
           /\ IsRestOf(Tail(word.pron), w.pron, j + 1)
<1>1. PICK w \in Words : \E j \in 0..Len(UpToUnknown(w.pron)) : HeardOf(w, j)
  BY DEF WordHeard
<1>2. PICK j \in 0..Len(UpToUnknown(w.pron)) : HeardOf(w, j)
  BY <1>1
<1>3. w.pron \in Seq(Tokens) /\ word.pron \in Seq(Tokens)
  BY DEF LabelAssumption, TypeOK, WordType
<1>4. KnownPart(w.pron, UpToUnknown(w.pron))
  BY <1>3, KnownEnds
<1>5. j \in Nat
  OBVIOUS
<1>6. /\ word.accent = w.accent /\ word.chain = w.chain
      /\ HeardBy(UpToUnknown(w.pron))[j] = SaidNow /\ IsRestOf(word.pron, w.pron, j)
  BY <1>2 DEF HeardOf
<1>7. /\ j + 1 \in 1..Len(w.pron) /\ Head(word.pron) = w.pron[j + 1]
      /\ IsRestOf(Tail(word.pron), w.pron, j + 1)
  BY <1>3, <1>5, <1>6, RestIs
<1> QED BY <1>3, <1>4, <1>5, <1>6, <1>7

\* A token more is heard.
LEMMA TokenHeard ==
  ASSUME LabelAssumption, TypeOK, WordHeard, status = "word", word.pron # <<>>,
         Head(word.pron) # "unknown", word' = [word EXCEPT !.pron = Tail(@)],
         SaidNow' = Hear(SaidNow, Head(word.pron))
  PROVE  WordHeard'
<1>1. PICK w \in Words, j \in Nat :
        /\ word.accent = w.accent /\ word.chain = w.chain
        /\ KnownPart(w.pron, UpToUnknown(w.pron)) /\ j \in 0..Len(UpToUnknown(w.pron))
        /\ w.pron \in Seq(Tokens)
        /\ HeardBy(UpToUnknown(w.pron))[j] = SaidNow
        /\ IsRestOf(word.pron, w.pron, j)
        /\ j + 1 \in 1..Len(w.pron) /\ Head(word.pron) = w.pron[j + 1]
        /\ IsRestOf(Tail(word.pron), w.pron, j + 1)
  BY Midword
<1>2. PICK up : up = UpToUnknown(w.pron)
  OBVIOUS
<1>3. PICK l \in Nat, p \in Nat : l = Len(up) /\ p = Len(w.pron)
  BY <1>1, <1>2, LenProperties DEF KnownPart
<1>4. /\ \A k \in 1..l : up[k] = w.pron[k]
      /\ l = p \/ (w.pron[l + 1] = "unknown")
  BY <1>1, <1>2, <1>3 DEF KnownPart
<1>5. j # l
  <2>1. j + 1 \in 1..p
    BY <1>1, <1>3
  <2>2. l = p => j # l
    BY <2>1
  <2>3. w.pron[j + 1] # "unknown"
    BY <1>1
  <2> QED BY <1>4, <2>2, <2>3
<1>6. j + 1 \in 1..l /\ j + 1 \in 0..l /\ (j + 1) - 1 = j
  <2>1. j \in 0..l
    BY <1>1, <1>2, <1>3
  <2> QED BY <1>5, <2>1
<1>7. HeardBy(up)[j + 1] = SaidNow'
  <2>1. HeardBy(up)[j + 1] = Hear(HeardBy(up)[j], up[j + 1])
    BY <1>3, <1>6, HeardSoFar
  <2>2. up[j + 1] = Head(word.pron)
    BY <1>1, <1>4, <1>6
  <2> QED BY <1>1, <1>2, <2>1, <2>2
<1>8. word'.accent = word.accent /\ word'.chain = word.chain /\ word'.pron = Tail(word.pron)
  <2>1. word \in WordType
    BY DEF TypeOK
  <2> QED BY <2>1 DEF WordType
<1>9. HeardOf(w, j + 1)'
  BY <1>1, <1>2, <1>7, <1>8 DEF HeardOf
<1>10. j + 1 \in 0..Len(UpToUnknown(w.pron))
  BY <1>2, <1>3, <1>6
<1> QED BY <1>9, <1>10 DEF WordHeard

\* At an unknown character the rest of the word is not heard.
LEMMA UnknownHeard ==
  ASSUME LabelAssumption, TypeOK, WordHeard, status = "word", word.pron # <<>>,
         Head(word.pron) = "unknown", word' = [word EXCEPT !.pron = <<>>],
         SaidNow' = SaidNow
  PROVE  WordHeard'
<1>1. PICK w \in Words, j \in Nat :
        /\ word.accent = w.accent /\ word.chain = w.chain
        /\ KnownPart(w.pron, UpToUnknown(w.pron)) /\ j \in 0..Len(UpToUnknown(w.pron))
        /\ w.pron \in Seq(Tokens)
        /\ HeardBy(UpToUnknown(w.pron))[j] = SaidNow
        /\ IsRestOf(word.pron, w.pron, j)
        /\ j + 1 \in 1..Len(w.pron) /\ Head(word.pron) = w.pron[j + 1]
        /\ IsRestOf(Tail(word.pron), w.pron, j + 1)
  BY Midword
<1>2. PICK up : up = UpToUnknown(w.pron)
  OBVIOUS
<1>3. PICK l \in Nat : l = Len(up)
  BY <1>1, <1>2, LenProperties DEF KnownPart
<1>4. j = l
  <2>1. \A k \in 1..l : w.pron[k] # "unknown"
    BY <1>1, <1>2, <1>3 DEF KnownPart
  <2>2. j + 1 \notin 1..l
    BY <1>1, <2>1
  <2>3. j \in 0..l
    BY <1>1, <1>2, <1>3
  <2> QED BY <2>2, <2>3
<1>5. word'.accent = word.accent /\ word'.chain = word.chain /\ word'.pron = <<>>
  <2>1. word \in WordType
    BY DEF TypeOK
  <2> QED BY <2>1 DEF WordType
<1>6. HeardOf(w, j)'
  BY <1>1, <1>2, <1>3, <1>4, <1>5 DEF HeardOf
<1> QED BY <1>1, <1>6 DEF WordHeard

\* A word that is pushed to its end said what it says.
LEMMA WholeHeard ==
  ASSUME LabelAssumption, TypeOK, WordHeard, status = "word", word.pron = <<>>
  PROVE  \E w \in Words : /\ word.accent = w.accent /\ word.chain = w.chain
                          /\ Heard(w.pron) = SaidNow
<1>1. PICK w \in Words : \E j \in 0..Len(UpToUnknown(w.pron)) : HeardOf(w, j)
  BY DEF WordHeard
<1>2. PICK j \in 0..Len(UpToUnknown(w.pron)) : HeardOf(w, j)
  BY <1>1
<1>3. w.pron \in Seq(Tokens)
  BY DEF LabelAssumption, WordType
<1>4. PICK up : up = UpToUnknown(w.pron)
  OBVIOUS
<1>5. KnownPart(w.pron, up)
  BY <1>3, <1>4, KnownEnds
<1>6. PICK l \in Nat, p \in Nat : l = Len(up) /\ p = Len(w.pron) /\ l <= p
  BY <1>3, <1>5, LenProperties DEF KnownPart
<1>7. j = l
  <2>1. CASE IsRestOf(word.pron, w.pron, j)
    <3>1. Len(word.pron) = 0
      OBVIOUS
    <3>2. 0 = p - j /\ j \in 0..l
      BY <1>4, <1>6, <2>1, <3>1 DEF IsRestOf
    <3> QED BY <1>6, <3>2
  <2>2. CASE j = Len(UpToUnknown(w.pron))
    BY <1>4, <1>6, <2>2
  <2> QED BY <1>2, <2>1, <2>2 DEF HeardOf
<1>8. Heard(w.pron) = SaidNow
  BY <1>2, <1>4, <1>6, <1>7 DEF HeardOf, Heard
<1> QED BY <1>2, <1>8 DEF HeardOf

-----------------------------------------------------------------------------
(* The steps that leave the lists alone.                                   *)
Refined == U!Next \/ (GroupsNow' = GroupsNow /\ (PendingNow' <=> PendingNow))

\* Lists that stay say what they said.
LEMMA ListsSayTheSame ==
  ASSUME UtteranceInv, LabelsInv', UNCHANGED lists, WordHeard',
         Open' => Open /\ shortPause' = shortPause
  PROVE  UtteranceInv' /\ GroupsNow' = GroupsNow
<1>1. /\ phonemes' = phonemes /\ moras' = moras /\ words' = words
      /\ accents' = accents /\ breaths' = breaths
  BY DEF lists
<1>2. LabelsInv /\ Follow(phonemes, moras) /\ PausesAtHeads(phonemes, moras, words)
      /\ (Open => ~shortPause /\ words[Len(words)].up = 0)
  BY DEF UtteranceInv
<1>3. PhrasesNow' = PhrasesNow
  BY <1>1 DEF PhrasesNow
<1>4. GroupsNow' = GroupsNow
  BY <1>1, <1>2, <1>3, NothingSaid
<1> QED BY <1>1, <1>2, <1>4 DEF UtteranceInv

\* No pause is due before and after.
LEMMA SameDue ==
  ASSUME UtteranceInv, UtteranceInv', UNCHANGED lists, Open' <=> Open, shortPause' = shortPause
  PROVE  PendingNow' <=> PendingNow
<1>1. PauseDueNow' <=> PauseDueNow
  BY DEF PauseDueNow, lists
<1> QED BY <1>1, PendingWhen, PendingWhenNext

\* A pause is pending once something was said.
LEMMA SaysPushPause == UtteranceInv /\ PushPause => UtteranceInv' /\ Refined
<1> SUFFICES ASSUME UtteranceInv, PushPause PROVE UtteranceInv' /\ Refined
  OBVIOUS
<1>1. LabelsInv /\ LabelsInv'
  BY StepPushPause DEF UtteranceInv
<1>2. /\ UNCHANGED lists /\ shortPause' = TRUE /\ status = "idle" /\ status' = "idle"
  BY DEF PushPause, Push
<1>3. ~Open /\ ~Open' /\ WordHeard'
  BY <1>2 DEF Open, WordHeard
<1>4. UtteranceInv' /\ GroupsNow' = GroupsNow
  BY <1>1, <1>2, <1>3, ListsSayTheSame
<1>5. PendingNow' <=> breaths # <<>>
  <2>1. PauseDueNow' <=> breaths # <<>>
    BY <1>2, <1>3 DEF PauseDueNow, lists
  <2> QED BY <1>4, <2>1, PendingWhenNext
<1>6. CASE breaths # <<>>
  <2>1. GroupsNow # <<>>
    BY <1>1, <1>6, PhrasesThere
  <2>2. PendingNow' = TRUE
    <3>1. PendingNow' \in BOOLEAN
      BY DEF PendingNow
    <3> QED BY <1>5, <1>6, <3>1
  <2>3. U!Pause
    BY <1>4, <2>1, <2>2 DEF U!Pause
  <2> QED BY <1>4, <2>3 DEF Refined, U!Next
<1>7. CASE breaths = <<>>
  <2>1. ~PendingNow
    <3>1. ~PauseDueNow
      BY <1>3, <1>7 DEF PauseDueNow
    <3> QED BY <3>1, PendingWhen
  <2> QED BY <1>4, <1>5, <1>7, <2>1 DEF Refined
<1> QED BY <1>6, <1>7

\* A word begins with nothing heard of it.
LEMMA SaysPushWord == LabelAssumption /\ UtteranceInv /\ PushWord => UtteranceInv' /\ Refined
<1> SUFFICES ASSUME LabelAssumption, UtteranceInv, PushWord PROVE UtteranceInv' /\ Refined
  OBVIOUS
<1>1. LabelsInv /\ LabelsInv'
  BY StepPushWord DEF UtteranceInv
<1>2. /\ UNCHANGED lists /\ shortPause' = shortPause /\ status = "idle" /\ status' = "word"
      /\ first' = TRUE /\ word' \in Words
  BY DEF PushWord, Push
<1>3. ~Open /\ ~Open'
  BY <1>2 DEF Open
<1>4. WordHeard'
  <2>1. PICK w : w = word' /\ w \in Words
    BY <1>2
  <2>2. w.pron \in Seq(Tokens)
    BY <2>1 DEF LabelAssumption, WordType
  <2>3. KnownPart(w.pron, UpToUnknown(w.pron))
    BY <2>2, KnownEnds
  <2>4. Len(UpToUnknown(w.pron)) \in Nat
    BY <2>3, LenProperties DEF KnownPart
  <2>5. HeardBy(UpToUnknown(w.pron))[0] = <<>>
    BY <2>4, HeardSoFar
  <2>6. IsRestOf(w.pron, w.pron, 0)
    <3>1. Len(w.pron) \in Nat
      BY <2>2, LenProperties
    <3>2. Len(w.pron) = Len(w.pron) - 0 /\ \A k \in 1..Len(w.pron) : 0 + k = k
      BY <3>1
    <3> QED BY <3>2 DEF IsRestOf
  <2>7. SaidNow' = <<>>
    BY <1>2 DEF SaidNow
  <2>8. HeardOf(w, 0)'
    BY <2>1, <2>5, <2>6, <2>7 DEF HeardOf
  <2>9. 0 \in 0..Len(UpToUnknown(w.pron))
    BY <2>4
  <2> QED BY <2>1, <2>8, <2>9 DEF WordHeard
<1>5. UtteranceInv' /\ GroupsNow' = GroupsNow
  BY <1>1, <1>2, <1>3, <1>4, ListsSayTheSame
<1>6. PendingNow' <=> PendingNow
  BY <1>2, <1>3, <1>5, SameDue
<1> QED BY <1>5, <1>6 DEF Refined

\* Making the labels says nothing.
LEMMA SaysMake == UtteranceInv /\ Make => UtteranceInv' /\ Refined
<1> SUFFICES ASSUME UtteranceInv, Make PROVE UtteranceInv' /\ Refined
  OBVIOUS
<1>1. LabelsInv /\ LabelsInv'
  BY StepQuiet DEF UtteranceInv
<1>2. /\ UNCHANGED lists /\ shortPause' = shortPause /\ status = "idle" /\ status' = "made"
  BY DEF Make
<1>3. ~Open /\ ~Open' /\ WordHeard'
  BY <1>2 DEF Open, WordHeard
<1>4. UtteranceInv' /\ GroupsNow' = GroupsNow
  BY <1>1, <1>2, <1>3, ListsSayTheSame
<1>5. PendingNow' <=> PendingNow
  BY <1>2, <1>3, <1>4, SameDue
<1> QED BY <1>4, <1>5 DEF Refined

\* A word without a mora says nothing.
LEMMA SaysDropWord == UtteranceInv /\ DropWord => UtteranceInv' /\ Refined
<1> SUFFICES ASSUME UtteranceInv, DropWord PROVE UtteranceInv' /\ Refined
  OBVIOUS
<1>1. LabelsInv /\ LabelsInv'
  BY StepDropWord DEF UtteranceInv
<1>2. /\ UNCHANGED lists /\ shortPause' = shortPause /\ status' = "idle" /\ first
  BY <1>1, NoPauseLast DEF DropWord, Attached, Finish, NothingPushed, lists
<1>3. ~Open /\ ~Open' /\ WordHeard'
  BY <1>2 DEF Open, WordHeard
<1>4. UtteranceInv' /\ GroupsNow' = GroupsNow
  BY <1>1, <1>2, <1>3, ListsSayTheSame
<1>5. PendingNow' <=> PendingNow
  BY <1>2, <1>3, <1>4, SameDue
<1> QED BY <1>4, <1>5 DEF Refined

\* An unknown character says nothing.
LEMMA SaysTakeUnknown == LabelAssumption /\ UtteranceInv /\ TakeUnknown => UtteranceInv' /\ Refined
<1> SUFFICES ASSUME LabelAssumption, UtteranceInv, TakeUnknown PROVE UtteranceInv' /\ Refined
  OBVIOUS
<1>1. LabelsInv /\ LabelsInv' /\ TypeOK /\ WordHeard
  BY StepQuiet DEF UtteranceInv, LabelsInv
<1>2. /\ UNCHANGED lists /\ shortPause' = shortPause /\ status = "word" /\ status' = status
      /\ first' = first /\ word.pron # <<>> /\ Head(word.pron) = "unknown"
      /\ word' = [word EXCEPT !.pron = <<>>]
  BY DEF TakeUnknown
<1>3. (Open' <=> Open) /\ SaidNow' = SaidNow
  BY <1>2 DEF Open, SaidNow, lists
<1>4. WordHeard'
  BY <1>1, <1>2, <1>3, UnknownHeard
<1>5. UtteranceInv' /\ GroupsNow' = GroupsNow
  BY <1>1, <1>2, <1>3, <1>4, ListsSayTheSame
<1>6. PendingNow' <=> PendingNow
  BY <1>2, <1>3, <1>5, SameDue
<1> QED BY <1>5, <1>6 DEF Refined

\* A long vowel is skipped only before the word has a mora.
LEMMA SaysSkipLong == LabelAssumption /\ UtteranceInv /\ SkipLong => UtteranceInv' /\ Refined
<1> SUFFICES ASSUME LabelAssumption, UtteranceInv, SkipLong PROVE UtteranceInv' /\ Refined
  OBVIOUS
<1>1. LabelsInv /\ LabelsInv' /\ TypeOK /\ WordHeard
  BY StepQuiet DEF UtteranceInv, LabelsInv
<1>2. /\ UNCHANGED lists /\ shortPause' = shortPause /\ status = "word" /\ status' = status
      /\ first' = first /\ word.pron # <<>> /\ Head(word.pron) = "long"
      /\ word' = [word EXCEPT !.pron = Tail(@)] /\ ~CanProlong
  BY DEF SkipLong, Take, lists
<1>3. (Open' <=> Open) /\ SaidNow' = SaidNow
  BY <1>2 DEF Open, SaidNow, lists
<1>4. first
  <2> SUFFICES ASSUME ~first PROVE FALSE
    OBVIOUS
  <2>1. ~shortPause /\ words # <<>>
    BY <1>1, <1>2 DEF UtteranceInv, LabelsInv, Open
  <2>2. phonemes = <<>>
    BY <1>2, <2>1 DEF CanProlong
  <2>3. /\ Len(words) \in Nat /\ Len(words) # 0 /\ Len(moras) \in Nat /\ Len(phonemes) = 0
        /\ moras \in Seq(MoraType) /\ words \in Seq(WordNode)
    BY <1>1, <2>1, <2>2, Listed, Sizes DEF TypeOK
  <2>4. /\ words[1].head \in Nat /\ words[1].tail \in Nat /\ 1 <= words[1].head
        /\ words[1].tail <= Len(moras) /\ words[1].head <= words[1].tail
    <3>1. 1 \in 1..Len(words) /\ DOMAIN words = 1..Len(words)
      BY <2>3, Listed
    <3> QED BY <1>1, <2>1, <3>1 DEF LabelsInv, Level, Tiles
  <2>5. 1 \in 1..Len(moras)
    BY <2>3, <2>4
  <2>6. /\ 1 <= moras[1].head /\ moras[1].head <= moras[1].tail /\ moras[1].tail <= 0
        /\ moras[1].head \in Nat /\ moras[1].tail \in Nat
    <3>1. moras[1] \in MoraType
      BY <2>3, <2>5
    <3> QED BY <1>1, <2>3, <2>5, <3>1 DEF LabelsInv, SoundsInv, MoraType
  <2> QED BY <2>6
<1>5. SaidNow' = Hear(SaidNow, "long")
  BY <1>3, <1>4 DEF SaidNow, Hear
<1>6. WordHeard'
  BY <1>1, <1>2, <1>5, TokenHeard
<1>7. UtteranceInv' /\ GroupsNow' = GroupsNow
  BY <1>1, <1>2, <1>3, <1>6, ListsSayTheSame
<1>8. PendingNow' <=> PendingNow
  BY <1>2, <1>3, <1>7, SameDue
<1> QED BY <1>7, <1>8 DEF Refined

-----------------------------------------------------------------------------
(* The lists when a mora more is pushed, after d pauses.                   *)
Grown(ps, ms, new, low, d, sounds) ==
  /\ Len(new) = Len(ps) + d + Len(sounds) /\ Len(low) = Len(ms) + 1
  /\ \A p \in 1..Len(ps) : new[p] = ps[p]
  /\ d = 1 => ps # <<>> /\ new[Len(ps) + 1] = pau
  /\ \A k \in 1..Len(sounds) : new[Len(ps) + d + k].sound = sounds[k]
  /\ \A m \in 1..Len(ms) : low[m] = ms[m]
  /\ low[Len(ms) + 1].head = Len(ps) + d + 1 /\ low[Len(ms) + 1].tail = Len(ps) + d + Len(sounds)

GrownSays(ps, ms, new, low, d, sounds) ==
  /\ Follow(new, low) /\ MorasKept(ps, ms, new, low, Len(ms))
  /\ SoundsAt(new, low, Len(ms) + 1) = sounds
  /\ PauseAt(new, low, Len(ms) + 1) <=> d = 1

\* One more mora, with or without a pause before it.
LEMMA GrownFollow ==
  ASSUME NEW ps, NEW ms, NEW new, NEW low, MorasIn(ps, ms), MorasIn(new, low), Follow(ps, ms),
         NEW d \in {0, 1}, NEW sounds \in Seq(Sound), sounds # <<>>,
         Grown(ps, ms, new, low, d, sounds),
         ps # <<>> => ps[Len(ps)] # pau, ms # <<>> => ps # <<>>
  PROVE  GrownSays(ps, ms, new, low, d, sounds)
<1>1. PICK n \in Nat, m \in Nat, c \in Nat \ {0} : n = Len(ps) /\ m = Len(ms) /\ c = Len(sounds)
  BY LenProperties, EmptySeq DEF MorasIn
<1>2. /\ Len(new) = n + d + c /\ Len(low) = m + 1
      /\ \A p \in 1..n : new[p] = ps[p]
      /\ d = 1 => ps # <<>> /\ new[n + 1] = pau
      /\ \A k \in 1..c : new[n + d + k].sound = sounds[k]
      /\ \A x \in 1..m : low[x] = ms[x]
      /\ low[m + 1].head = n + d + 1 /\ low[m + 1].tail = n + d + c
  BY <1>1 DEF Grown
<1>3. /\ n = 0 <=> ps = <<>>
      /\ m = 0 <=> ms = <<>>
      /\ new # <<>> /\ low # <<>>
  <2>1. /\ ps \in Seq(PhonemeType) /\ ms \in Seq(MoraType)
        /\ new \in Seq(PhonemeType) /\ low \in Seq(MoraType)
    BY DEF MorasIn
  <2>2. /\ ps = <<>> <=> Len(ps) = 0
        /\ ms = <<>> <=> Len(ms) = 0
        /\ new = <<>> <=> Len(new) = 0
        /\ low = <<>> <=> Len(low) = 0
    BY <2>1, Listed
  <2>3. n + d + c # 0 /\ m + 1 # 0
    BY <1>1
  <2> QED BY <1>1, <1>2, <2>2, <2>3
<1>4. MorasKept(ps, ms, new, low, m)
  <2>1. \A x \in 1..m : low[x].head = ms[x].head /\ low[x].tail = ms[x].tail /\ ms[x].tail <= n
    BY <1>1, <1>2 DEF MorasIn
  <2>2. m \in 0..Len(ms)
    BY <1>1
  <2> QED BY <1>2, <2>1, <2>2, KeptBelow
<1>5. SoundsAt(new, low, m + 1) = sounds
  <2>1. \A k \in 1..c : (n + d + 1) + k - 1 = n + d + k
    BY <1>1
  <2>2. (n + d + c) - (n + d + 1) + 1 = c
    BY <1>1
  <2>3. SoundsAt(new, low, m + 1) = [k \in 1..c |-> new[(n + d + 1) + k - 1].sound]
    BY <1>2, <2>2 DEF SoundsAt
  <2>4. [k \in 1..c |-> new[(n + d + 1) + k - 1].sound] = [k \in 1..c |-> sounds[k]]
    BY <1>2, <2>1
  <2>5. sounds = [k \in 1..c |-> sounds[k]]
    BY <1>1
  <2> QED BY <2>3, <2>4, <2>5
<1>6. PauseAt(new, low, m + 1) <=> d = 1
  <2>1. CASE d = 1
    <3>1. n + 1 + 1 > 1 /\ (n + 1 + 1) - 1 = n + 1
      BY <1>1
    <3> QED BY <1>2, <2>1, <3>1 DEF PauseAt
  <2>2. CASE d = 0
    <3>1. (n + 0 + 1) - 1 = n /\ (n + 0 + 1 > 1 => n # 0 /\ n \in 1..n)
      BY <1>1
    <3>2. n # 0 => new[n] = ps[n] /\ ps[n] # pau
      BY <1>1, <1>2, <1>3
    <3> QED BY <1>2, <2>2, <3>1, <3>2 DEF PauseAt
  <2> QED BY <2>1, <2>2
<1>7. Follow(new, low)
  <2>1. ASSUME NEW x \in 1..m + 1, x + 1 \in 1..m + 1
        PROVE  low[x + 1].head = low[x].tail + (IF PauseAt(new, low, x + 1) THEN 2 ELSE 1)
    <3>1. CASE x + 1 \in 1..m
      <4>1. x \in 1..m
        BY <1>1, <3>1
      <4>2. ms[x + 1].head = ms[x].tail + (IF PauseAt(ps, ms, x + 1) THEN 2 ELSE 1)
        BY <1>1, <3>1, <4>1 DEF Follow
      <4>3. PauseAt(new, low, x + 1) <=> PauseAt(ps, ms, x + 1)
        BY <1>4, <3>1 DEF MorasKept
      <4> QED BY <1>2, <3>1, <4>1, <4>2, <4>3
    <3>2. CASE x + 1 \notin 1..m
      <4>1. x = m /\ m \in 1..m
        BY <1>1, <2>1, <3>2
      <4>2. ms[m].tail = n
        <5>1. ms # <<>>
          BY <1>1, <1>3, <4>1
        <5> QED BY <1>1, <5>1 DEF Follow
      <4>3. low[m].tail = n /\ low[m + 1].head = n + d + 1
        BY <1>2, <4>1, <4>2
      <4>4. n + d + 1 = n + (IF d = 1 THEN 2 ELSE 1)
        BY <1>1
      <4> QED BY <1>6, <4>1, <4>3, <4>4
    <3> QED BY <3>1, <3>2
  <2>2. low[Len(low)].tail = Len(new)
    BY <1>2
  <2>3. low[1].head = 1
    <3>1. CASE m = 0
      <4>1. n = 0 /\ d = 0
        <5>1. ms = <<>> /\ ps = <<>>
          BY <1>3, <3>1 DEF Follow
        <5> QED BY <1>2, <1>3, <5>1
      <4> QED BY <1>2, <3>1, <4>1
    <3>2. CASE m # 0
      <4>1. 1 \in 1..m /\ ms # <<>>
        BY <1>1, <1>3, <3>2
      <4>2. ms[1].head = 1
        BY <4>1 DEF Follow
      <4> QED BY <1>2, <4>1, <4>2
    <3> QED BY <3>1, <3>2
  <2> QED BY <1>2, <1>3, <2>1, <2>2, <2>3 DEF Follow
<1> QED BY <1>1, <1>4, <1>5, <1>6, <1>7 DEF GrownSays

\* The phrases there were stay when only what is in none of them changes.
LEMMA JoinedStay ==
  ASSUME LabelsInv, LabelsInv', accents' = accents, breaths' = breaths,
         \A x \in 1..Joined : words'[x].head = words[x].head /\ words'[x].tail = words[x].tail,
         NEW l \in Nat, MorasKept(phonemes, moras, phonemes', moras', l),
         MorasUpTo(words, Joined) <= l
  PROVE  GroupsNow' = GroupsNow
<1>1. Whole(phonemes, moras, words, accents, breaths, Joined)
  BY ListsWhole DEF WholeNow
<1>2. PICK new, low, nws : new = phonemes' /\ low = moras' /\ nws = words'
  OBVIOUS
<1>3. ASSUME NEW a \in 1..Len(accents)
      PROVE  PhraseAt(new, low, nws, accents, a) = PhraseAt(phonemes, moras, words, accents, a)
  <2>1. InPhrase(moras, words, accents, Joined, a)
    BY <1>1, PhraseRange
  <2>2. /\ accents[a].head \in 1..Joined /\ accents[a].tail \in 1..Joined
        /\ words[accents[a].tail].tail <= MorasUpTo(words, Joined)
        /\ MorasUpTo(words, Joined) \in 0..Len(moras)
    BY <2>1 DEF InPhrase
  <2>3. SamePhrase(words, accents, nws, accents, a)
    BY <1>2, <2>2 DEF SamePhrase, SameMarks
  <2>4. words[accents[a].tail].tail <= l
    <3>1. words[accents[a].tail] \in WordNode
      <4>1. words \in Seq(WordNode) /\ accents[a].tail \in 1..Len(words)
        BY <2>2, JoinedLeft, Sizes, SMTT(60) DEF LabelsInv, TypeOK
      <4> QED BY <4>1
    <3>2. PICK t \in Nat : t = words[accents[a].tail].tail
      BY <3>1 DEF WordNode
    <3>3. PICK u \in Nat : u = MorasUpTo(words, Joined)
      BY <2>2
    <3>4. t <= u /\ u <= l
      BY <2>2, <3>2, <3>3
    <3>5. t <= l
      BY <3>4
    <3> QED BY <3>2, <3>5
  <2>5. MorasKept(phonemes, moras, new, low, l)
    BY <1>2
  <2> QED BY <1>1, <2>3, <2>4, <2>5, PhraseSame
<1>4. PhrasesAt(new, low, nws, accents) = PhrasesAt(phonemes, moras, words, accents)
  BY <1>3, ListSame
<1>5. PhrasesNow' = PhrasesNow
  BY <1>2, <1>4 DEF PhrasesNow
<1> QED BY <1>5, NothingSaid

-----------------------------------------------------------------------------
(* A mora more, of n phonemes and m moras, after d pauses and of c sounds.  *)
MoraFacts(token, n, m, d, c) ==
  /\ n = Len(phonemes) /\ m = Len(moras) /\ c = Len(SoundsOf(token))
  /\ d = 1 <=> shortPause /\ phonemes # <<>>
  /\ SoundsOf(token) \in Seq(Sound)
  /\ phonemes' \in Seq(PhonemeType) /\ Len(phonemes') = n + d + c
  /\ \A k \in 1..n : phonemes'[k] = phonemes[k]
  /\ d = 1 => n # 0 /\ phonemes'[n + 1] = pau
  /\ \A k \in 1..c : /\ phonemes'[n + d + k].sound = SoundsOf(token)[k]
                      /\ phonemes'[n + d + k].up = m + 1
                      /\ SoundsOf(token)[k] # "pau"
  /\ moras' \in Seq(MoraType) /\ Len(moras') = m + 1
  /\ \A k \in 1..m : moras'[k] = moras[k]
  /\ moras'[m + 1].head = n + d + 1 /\ moras'[m + 1].tail = n + d + c
  /\ moras'[m + 1].up = IF first THEN Len(words) + 1 ELSE Len(words)
  /\ words' = IF first THEN Append(words, [head |-> m + 1, tail |-> m + 1, up |-> 0])
              ELSE [words EXCEPT ![Len(words)].tail = m + 1]
  /\ shortPause' = FALSE /\ first' = FALSE
  /\ status = "word" /\ word.pron # <<>> /\ Head(word.pron) = token
  /\ word' = [word EXCEPT !.pron = Tail(@)]
  /\ UNCHANGED <<accents, breaths, status, pushed>>

\* What TakeMora does to the lists.
LEMMA MoraTaken ==
  ASSUME LabelsInv, NEW token \in {"v", "cv"}, TakeMora(token)
  PROVE  \E n, m \in Nat : \E d \in {0, 1} : \E c \in {1, 2} : MoraFacts(token, n, m, d, c)
<1>1. PICK n, m, q, sounds : n = Len(phonemes) /\ m = Len(moras) /\ q = PauseDue /\ sounds = SoundsOf(token)
  OBVIOUS
<1>2. n \in Nat /\ m \in Nat /\ phonemes \in Seq(PhonemeType) /\ moras \in Seq(MoraType)
      /\ words \in Seq(WordNode) /\ (n = 0 <=> phonemes = <<>>)
  BY <1>1, Listed DEF LabelsInv, TypeOK
<1>3. PICK d : d = Len(q)
  OBVIOUS
<1>4. /\ d \in {0, 1} /\ q \in Seq(PhonemeType) /\ (d = 1 => n # 0 /\ q[1] = pau)
      /\ d = 1 <=> shortPause /\ phonemes # <<>>
  <2>1. CASE ~(shortPause /\ phonemes # <<>>)
    <3>1. q = <<>>
      BY <1>1, <2>1 DEF PauseDue
    <3>2. \A S : <<>> \in Seq(S) /\ Len(<<>>) = 0
      OBVIOUS
    <3> QED BY <1>3, <2>1, <3>1, <3>2
  <2>2. CASE shortPause /\ phonemes # <<>>
    <3>1. q = <<pau>> /\ n # 0
      BY <1>1, <1>2, <2>2, NoPauseLast DEF PauseDue
    <3>2. pau \in PhonemeType
      BY DEF pau, PhonemeType
    <3>3. \A S, x : x \in S => <<x>> \in Seq(S) /\ Len(<<x>>) = 1 /\ <<x>>[1] = x
      OBVIOUS
    <3> QED BY <1>3, <2>2, <3>1, <3>2, <3>3
  <2> QED BY <2>1, <2>2
<1>5. PICK c : c = Len(sounds)
  OBVIOUS
<1>6. /\ c \in {1, 2} /\ DOMAIN sounds = 1..c /\ \A k \in 1..c : sounds[k] \in {"k", "a"}
  <2>1. CASE token = "v"
    <3>1. sounds = <<"a">>
      BY <1>1, <2>1 DEF SoundsOf
    <3>2. c = 1 /\ DOMAIN sounds = 1..1 /\ sounds[1] = "a"
      BY <1>5, <3>1
    <3> QED BY <3>2
  <2>2. CASE token # "v"
    <3>1. sounds = <<"k", "a">>
      BY <1>1, <2>2 DEF SoundsOf
    <3>2. c = 2 /\ DOMAIN sounds = 1..2 /\ sounds[1] = "k" /\ sounds[2] = "a"
      BY <1>5, <3>1
    <3> QED BY <3>2
  <2> QED BY <2>1, <2>2
<1>61. sounds \in Seq(Sound)
  <2>1. "a" \in Sound /\ "k" \in Sound
    BY DEF Sound
  <2>2. \A T, x, y : x \in T /\ y \in T => <<x>> \in Seq(T) /\ <<y, x>> \in Seq(T)
    OBVIOUS
  <2> QED BY <1>1, <2>1, <2>2 DEF SoundsOf
<1>7. PICK a : a = [k \in DOMAIN sounds |-> [sound |-> sounds[k], up |-> m + 1]]
  OBVIOUS
<1>8. /\ a \in Seq(PhonemeType) /\ Len(a) = c
      /\ \A k \in 1..c : a[k].sound = sounds[k] /\ a[k].up = m + 1 /\ sounds[k] # "pau"
  <2>1. c \in Nat /\ a = [k \in 1..c |-> [sound |-> sounds[k], up |-> m + 1]]
    BY <1>6, <1>7
  <2>2. ASSUME NEW k \in 1..c
        PROVE  a[k] \in PhonemeType /\ a[k].sound = sounds[k] /\ a[k].up = m + 1 /\ sounds[k] # "pau"
    <3>1. a[k] = [sound |-> sounds[k], up |-> m + 1] /\ sounds[k] \in {"k", "a"} /\ m + 1 \in Nat
      BY <1>2, <1>6, <2>1
    <3> QED BY <3>1 DEF PhonemeType
  <2>3. a \in Seq(PhonemeType) /\ Len(a) = c
    <3> HIDE DEF PhonemeType
    <3>1. a = [k \in 1..c |-> a[k]]
      BY <2>1
    <3>2. \A k \in 1..c : a[k] \in PhonemeType
      BY <2>2
    <3> QED BY <2>1, <3>1, <3>2
  <2> QED BY <2>2, <2>3
<1>9. /\ phonemes' = phonemes \o q \o a
      /\ moras' = Append(moras, [head |-> n + d + 1, tail |-> n + d + 1 + c - 1,
                                 up |-> IF first THEN Len(words) + 1 ELSE Len(words)])
      /\ words' = IF first THEN Append(words, [head |-> m + 1, tail |-> m + 1, up |-> 0])
                  ELSE [words EXCEPT ![Len(words)].tail = m + 1]
      /\ shortPause' = (shortPause /\ EndsWithPause) /\ first' = FALSE
      /\ status = "word" /\ word.pron # <<>> /\ Head(word.pron) = token
      /\ word' = [word EXCEPT !.pron = Tail(@)]
      /\ UNCHANGED <<accents, breaths, status, pushed>>
  BY <1>1, <1>3, <1>5, <1>7 DEF TakeMora, Take
<1>91. shortPause' = FALSE
  BY <1>9, NoPauseLast
<1>10. PICK new : new = phonemes'
  OBVIOUS
<1>11. /\ new \in Seq(PhonemeType) /\ Len(new) = n + d + c
       /\ \A k \in 1..n : new[k] = phonemes[k]
       /\ \A k \in 1..d : new[n + k] = q[k]
       /\ \A k \in 1..c : new[n + d + k] = a[k]
  <2>1. PICK pq : pq = phonemes \o q
    OBVIOUS
  <2>3. Chained(pq, phonemes, q) /\ Chained(new, pq, a)
    BY <1>9, <1>10, <2>1 DEF Chained
  <2>4. Len(a) = c /\ Len(q) = d /\ Len(phonemes) = n
    BY <1>1, <1>3, <1>8
  <2>2. /\ new \in Seq(PhonemeType) /\ Len(new) = Len(phonemes) + Len(q) + Len(a)
        /\ \A k \in 1..Len(phonemes) : new[k] = phonemes[k]
        /\ \A k \in 1..Len(q) : new[Len(phonemes) + k] = q[k]
        /\ \A k \in 1..Len(a) : new[Len(phonemes) + Len(q) + k] = a[k]
    BY <1>2, <1>4, <1>8, <2>3, ThreeParts, SMTT(30)
  <2> QED BY <2>2, <2>4
<1>12. /\ moras' \in Seq(MoraType) /\ Len(moras') = m + 1
       /\ \A k \in 1..m : moras'[k] = moras[k]
       /\ moras'[m + 1].head = n + d + 1 /\ moras'[m + 1].tail = n + d + c
       /\ moras'[m + 1].up = IF first THEN Len(words) + 1 ELSE Len(words)
  <2>1. PICK r : r = [head |-> n + d + 1, tail |-> n + d + 1 + c - 1,
                      up |-> IF first THEN Len(words) + 1 ELSE Len(words)]
    OBVIOUS
  <2>2. n + d + 1 \in Nat /\ n + d + 1 + c - 1 \in Nat /\ n + d + 1 + c - 1 = n + d + c
    BY <1>2, <1>4, <1>6
  <2>3. (IF first THEN Len(words) + 1 ELSE Len(words)) \in Nat
    BY <1>2, Listed
  <2>4. /\ r \in MoraType /\ r.head = n + d + 1 /\ r.tail = n + d + c
        /\ r.up = IF first THEN Len(words) + 1 ELSE Len(words)
    BY <2>1, <2>2, <2>3 DEF MoraType
  <2>5. moras' = Append(moras, r)
    BY <1>9, <2>1
  <2>6. /\ moras' \in Seq(MoraType) /\ Len(moras') = m + 1 /\ moras'[m + 1] = r
        /\ \A k \in 1..m : moras'[k] = moras[k]
    BY <1>1, <1>2, <2>4, <2>5
  <2> QED BY <2>4, <2>6
<1>13. \A k \in 1..c : /\ new[n + d + k].sound = sounds[k] /\ new[n + d + k].up = m + 1
                        /\ sounds[k] # "pau"
  BY <1>8, <1>11
<1>14. d = 1 => n # 0 /\ new[n + 1] = pau
  BY <1>4, <1>11
<1>15. MoraFacts(token, n, m, d, c)
  BY <1>1, <1>4, <1>5, <1>61, <1>9, <1>91, <1>10, <1>11, <1>12, <1>13, <1>14 DEF MoraFacts
<1> QED BY <1>2, <1>4, <1>6, <1>15

\* It is one more mora.
LEMMA MoraGrows ==
  ASSUME NEW token \in {"v", "cv"}, NEW n \in Nat, NEW m \in Nat, NEW d \in {0, 1}, NEW c \in {1, 2},
         MoraFacts(token, n, m, d, c)
  PROVE  Grown(phonemes, moras, phonemes', moras', d, SoundsOf(token)) /\ SoundsOf(token) # <<>>
<1>1. SoundsOf(token) # <<>>
  <2>1. Len(SoundsOf(token)) # 0
    BY DEF MoraFacts
  <2> QED BY <2>1
<1>2. n # 0 => phonemes # <<>>
  BY DEF MoraFacts
<1> QED BY <1>1, <1>2 DEF MoraFacts, Grown

-----------------------------------------------------------------------------
(* The steps that push a mora more.                                        *)
LEMMA MorasHaveSounds == LabelsInv /\ moras # <<>> => phonemes # <<>>
<1> SUFFICES ASSUME LabelsInv, moras # <<>> PROVE phonemes # <<>>
  OBVIOUS
<1>1. phonemes \in Seq(PhonemeType) /\ moras \in Seq(MoraType) /\ 1 \in 1..Len(moras)
  <2>1. phonemes \in Seq(PhonemeType) /\ moras \in Seq(MoraType)
    BY DEF LabelsInv, TypeOK
  <2> QED BY <2>1, Listed
<1>2. MorasIn(phonemes, moras) /\ moras[1] \in MoraType
  BY <1>1 DEF LabelsInv, TypeOK, SoundsInv, MorasIn
<1>3. /\ 1 <= moras[1].head /\ moras[1].head <= moras[1].tail /\ moras[1].tail <= Len(phonemes)
      /\ moras[1].head \in Nat /\ moras[1].tail \in Nat
  BY <1>1, <1>2 DEF MorasIn, MoraType
<1>4. Len(phonemes) # 0 /\ (phonemes = <<>> <=> Len(phonemes) = 0)
  BY <1>1, <1>3, Listed
<1> QED BY <1>4

\* What a mora more says, and what the others go on saying.
MoreSaid(d, sounds) ==
  /\ GrownSays(phonemes, moras, phonemes', moras', d, sounds)
  /\ PausesAtHeads(phonemes', moras', words')

HeadsKept == \A u \in 1..Len(words) : words'[u].head = words[u].head
WordsGrow == HeadsKept /\ \A u \in 1..Joined : words'[u].tail = words[u].tail

\* The moras that were there stay, and a pause stands before a word only.
LEMMA MoraIsSaid ==
  ASSUME UtteranceInv, LabelsInv', HeadsKept,
         NEW d \in {0, 1}, NEW sounds \in Seq(Sound), sounds # <<>>,
         Grown(phonemes, moras, phonemes', moras', d, sounds),
         d = 1 => words'[moras'[Len(moras) + 1].up].head = Len(moras) + 1
  PROVE  MoreSaid(d, sounds)
<1>1. LabelsInv /\ Follow(phonemes, moras) /\ PausesAtHeads(phonemes, moras, words)
  BY DEF UtteranceInv
<1>2. PICK new, low : new = phonemes' /\ low = moras'
  OBVIOUS
<1>3. MorasIn(phonemes, moras) /\ MorasIn(new, low)
  BY <1>1, <1>2, ListsWhole, ListsWholeNext DEF WholeNow, Whole
<1>4. (phonemes # <<>> => phonemes[Len(phonemes)] # pau) /\ (moras # <<>> => phonemes # <<>>)
  BY <1>1, NoPauseLast, MorasHaveSounds DEF EndsWithPause
<1>5. GrownSays(phonemes, moras, new, low, d, sounds)
  <2>1. Grown(phonemes, moras, new, low, d, sounds)
    BY <1>2, SMTT(60)
  <2> QED BY <1>1, <1>3, <1>4, <2>1, GrownFollow
<1>6. PICK m \in Nat, W \in Nat : m = Len(moras) /\ W = Len(words)
  BY <1>1, Sizes, ZenonT(60)
<1>7. PausesAtHeads(new, low, words')
  <2>1. Len(low) = m + 1 /\ \A x \in 1..m : low[x] = moras[x]
    BY <1>2, <1>6 DEF Grown
  <2> SUFFICES ASSUME NEW x \in 1..m + 1, PauseAt(new, low, x) PROVE words'[low[x].up].head = x
    BY <2>1 DEF PausesAtHeads
  <2>2. CASE x = m + 1
    BY <1>2, <1>5, <1>6, <2>2 DEF GrownSays
  <2>3. CASE x # m + 1
    <3>1. x \in 1..m
      BY <2>3
    <3>2. PauseAt(phonemes, moras, x)
      BY <1>5, <1>6, <3>1 DEF GrownSays, MorasKept
    <3>3. words[moras[x].up].head = x /\ moras[x].up \in 1..W
      BY <1>1, <1>6, <3>1, <3>2 DEF PausesAtHeads, LabelsInv, Level
    <3> QED BY <1>6, <2>1, <3>1, <3>3 DEF HeadsKept
  <2> QED BY <2>2, <2>3
<1> QED BY <1>2, <1>5, <1>7 DEF MoreSaid

\* The phrases there were do not hear of it.
LEMMA MoraOutside ==
  ASSUME LabelsInv, LabelsInv', accents' = accents, breaths' = breaths, WordsGrow,
         NEW d, NEW sounds, GrownSays(phonemes, moras, phonemes', moras', d, sounds)
  PROVE  GroupsNow' = GroupsNow
<1>1. PICK m \in Nat, W \in Nat : m = Len(moras) /\ W = Len(words)
  BY Sizes, ZenonT(60)
<1>2. Joined \in 0..W /\ \A x \in 1..Joined : x \in 1..W
  BY <1>1, Sizes, JoinedLeft
<1>3. \A x \in 1..Joined : words'[x].head = words[x].head /\ words'[x].tail = words[x].tail
  BY <1>1, <1>2 DEF WordsGrow, HeadsKept
<1>4. MorasKept(phonemes, moras, phonemes', moras', m)
  BY <1>1 DEF GrownSays
<1>5. MorasUpTo(words, Joined) <= m
  <2>1. CASE Joined = 0
    BY <2>1 DEF MorasUpTo
  <2>2. CASE Joined # 0
    <3>1. Joined \in 1..W
      BY <1>2, <2>2
    <3> QED BY <1>1, <2>2, <3>1 DEF MorasUpTo, LabelsInv, Level
  <2> QED BY <2>1, <2>2
<1> QED BY <1>3, <1>4, <1>5, JoinedStay

\* What a word says after it.
LEMMA SaidMore ==
  ASSUME NEW ps, NEW ms, NEW new, NEW low, MorasIn(ps, ms), MorasIn(new, low),
         NEW h \in Nat \ {0}, NEW c \in Nat, h + c - 1 <= Len(ms), h + c <= Len(low),
         MorasKept(ps, ms, new, low, h + c - 1), NEW sounds \in Seq(Sound),
         SoundsAt(new, low, h + c) = sounds
  PROVE  Said(new, low, h, c + 1) = Append(Said(ps, ms, h, c), sounds)
<1>1. PICK before \in Seq(Seq(Sound)) :
        /\ before = Said(ps, ms, h, c) /\ Len(before) = c
        /\ \A k \in 1..c : before[k] = SoundsAt(ps, ms, h + k - 1)
  BY ItemsTyped
<1>2. c + 1 \in Nat /\ h + (c + 1) - 1 <= Len(low) /\ h + (c + 1) - 1 = h + c
  <2>1. PICK M \in Nat : M = Len(low)
    BY LenProperties DEF MorasIn
  <2> QED BY <2>1
<1>3. PICK after \in Seq(Seq(Sound)) :
        /\ after = Said(new, low, h, c + 1) /\ Len(after) = c + 1
        /\ \A k \in 1..c + 1 : after[k] = SoundsAt(new, low, h + k - 1)
  BY <1>2, ItemsTyped
<1>4. PICK longer : longer = Append(before, sounds)
  OBVIOUS
<1>5. /\ longer \in Seq(Seq(Sound)) /\ Len(longer) = c + 1 /\ longer[c + 1] = sounds
      /\ \A k \in 1..c : longer[k] = before[k]
  BY <1>1, <1>4, AppendProperties
<1>6. ASSUME NEW k \in 1..c + 1 PROVE after[k] = longer[k]
  <2>1. CASE k = c + 1
    BY <1>2, <1>3, <1>5, <2>1
  <2>2. CASE k # c + 1
    <3>1. k \in 1..c
      BY <2>2
    <3>2. PICK x : x = h + k - 1
      OBVIOUS
    <3>3. x \in 1..h + c - 1
      BY <3>1, <3>2
    <3>4. SoundsAt(new, low, x) = SoundsAt(ps, ms, x)
      BY <3>3 DEF MorasKept
    <3> QED BY <1>1, <1>3, <1>5, <3>1, <3>2, <3>4
  <2> QED BY <2>1, <2>2
<1>7. after = longer
  BY <1>3, <1>5, <1>6, SeqEqual, SMTT(60)
<1> QED BY <1>1, <1>3, <1>4, <1>7

\* The word that is being pushed has said a mora more.
LEMMA WordSaysMore ==
  ASSUME LabelsInv, LabelsInv', ~first, Open, first' = first, Longer(words, words', Len(moras) + 1),
         NEW d, NEW sounds \in Seq(Sound), Len(moras') = Len(moras) + 1,
         GrownSays(phonemes, moras, phonemes', moras', d, sounds)
  PROVE  /\ SaidNow' = Append(SaidNow, sounds)
         /\ SaidNow # <<>> /\ Last(SaidNow) = SoundsAt(phonemes, moras, Len(moras))
         /\ SaidNow \in Seq(Seq(Sound))
<1>1. PICK W \in Nat \ {0}, m \in Nat : W = Len(words) /\ m = Len(moras)
  <2>1. words # <<>> /\ words \in Seq(WordNode)
    BY DEF LabelsInv, TypeOK
  <2> QED BY <2>1, Sizes, Listed, ZenonT(60)
<1>2. PICK h \in Nat \ {0} : h = words[W].head /\ h <= m /\ words[W].tail = m
  <2>1. W \in 1..W /\ words # <<>> /\ DOMAIN words = 1..W
    BY <1>1, Sizes DEF LabelsInv
  <2>2. /\ words[W].head \in Nat /\ 1 <= words[W].head /\ words[W].head <= words[W].tail
        /\ words[W].tail = m
    BY <1>1, <2>1 DEF LabelsInv, Level, Tiles
  <2> QED BY <2>2
<1>3. PICK new, low, nws : new = phonemes' /\ low = moras' /\ nws = words'
  OBVIOUS
<1>4. Len(nws) = W /\ nws[W].head = h /\ nws[W].tail = m + 1
  BY <1>1, <1>2, <1>3 DEF Longer
<1>5. MorasIn(phonemes, moras) /\ MorasIn(new, low)
  BY <1>3, ListsWhole, ListsWholeNext DEF WholeNow, Whole
<1>6. PICK c \in Nat \ {0} : c = m - h + 1
  BY <1>2
<1>7. h + c - 1 = m /\ h + c = m + 1 /\ (m + 1) - h + 1 = c + 1 /\ h + c - 1 <= m /\ h + c <= m + 1
  BY <1>6
<1>8. SaidNow = Said(phonemes, moras, h, c) /\ SaidNow' = Said(new, low, h, c + 1)
  <2>1. SaidNow = Said(phonemes, moras, h, c)
    BY <1>1, <1>2, <1>6 DEF SaidNow, WordSays
  <2>2. SaidNow' = Said(new, low, h, (m + 1) - h + 1)
    BY <1>3, <1>4 DEF SaidNow, WordSays
  <2> QED BY <1>7, <2>1, <2>2
<1>9. SaidNow' = Append(SaidNow, sounds)
  <2>1. /\ MorasKept(phonemes, moras, new, low, h + c - 1) /\ SoundsAt(new, low, h + c) = sounds
        /\ Len(low) = m + 1
    BY <1>1, <1>3, <1>7 DEF GrownSays
  <2>2. Said(new, low, h, c + 1) = Append(Said(phonemes, moras, h, c), sounds)
    BY <1>1, <1>5, <1>7, <2>1, SaidMore, SMTT(60)
  <2> QED BY <1>8, <2>2
<1>10. SaidNow \in Seq(Seq(Sound)) /\ Len(SaidNow) = c /\ SaidNow[c] = SoundsAt(phonemes, moras, m)
  <2>1. PICK said \in Seq(Seq(Sound)) :
          /\ said = Said(phonemes, moras, h, c) /\ Len(said) = c
          /\ \A k \in 1..c : said[k] = SoundsAt(phonemes, moras, h + k - 1)
    BY <1>1, <1>5, <1>7, ItemsTyped
  <2>2. c \in 1..c
    OBVIOUS
  <2> QED BY <1>7, <1>8, <2>1, <2>2
<1>11. SaidNow # <<>> /\ Last(SaidNow) = SaidNow[c]
  BY <1>10 DEF Last
<1> QED BY <1>1, <1>9, <1>10, <1>11

-----------------------------------------------------------------------------
(* Moras that are pushed.                                                  *)
LEMMA SaysTakeMora ==
  ASSUME LabelAssumption, UtteranceInv, NEW token \in {"v", "cv"}, TakeMora(token)
  PROVE  UtteranceInv' /\ Refined
<1>1. /\ LabelsInv /\ Follow(phonemes, moras) /\ PausesAtHeads(phonemes, moras, words)
      /\ (Open => ~shortPause /\ words[Len(words)].up = 0) /\ WordHeard /\ TypeOK
  BY DEF UtteranceInv, LabelsInv
<1>2. LabelsInv'
  BY <1>1, StepMora
<1>3. PICK n \in Nat, m \in Nat, d \in {0, 1}, c \in {1, 2} : MoraFacts(token, n, m, d, c)
  BY <1>1, MoraTaken
<1>4. PICK sounds : sounds = SoundsOf(token)
  OBVIOUS
<1>5. /\ sounds \in Seq(Sound) /\ sounds # <<>> /\ Grown(phonemes, moras, phonemes', moras', d, sounds)
  <2>1. SoundsOf(token) \in Seq(Sound)
    BY <1>3 DEF MoraFacts
  <2>2. Grown(phonemes, moras, phonemes', moras', d, SoundsOf(token)) /\ SoundsOf(token) # <<>>
    BY <1>3, MoraGrows
  <2> QED BY <1>4, <2>1, <2>2
<1>6. /\ n = Len(phonemes) /\ m = Len(moras) /\ Len(moras') = m + 1
      /\ d = 1 <=> shortPause /\ phonemes # <<>>
      /\ moras'[m + 1].up = IF first THEN Len(words) + 1 ELSE Len(words)
      /\ words' = IF first THEN Append(words, [head |-> m + 1, tail |-> m + 1, up |-> 0])
                  ELSE [words EXCEPT ![Len(words)].tail = m + 1]
      /\ shortPause' = FALSE /\ first' = FALSE
      /\ status = "word" /\ word.pron # <<>> /\ Head(word.pron) = token
      /\ word' = [word EXCEPT !.pron = Tail(@)]
      /\ accents' = accents /\ breaths' = breaths /\ status' = status
  BY <1>3, SMTT(60) DEF MoraFacts
<1>7. Open' /\ (Open <=> ~first) /\ (Open => d = 0)
  BY <1>1, <1>6 DEF Open
<1>8. PICK W \in Nat : W = Len(words) /\ words \in Seq(WordNode)
  BY <1>1, Sizes DEF TypeOK
<1>9. PICK nws : nws = words'
  OBVIOUS
<1>10. ASSUME first
       PROVE  /\ Opened(words, nws, m + 1) /\ Len(nws) = W + 1 /\ nws[W + 1].up = 0
              /\ nws[W + 1].head = m + 1 /\ nws[W + 1].tail = m + 1
  <2>1. PICK r : r = [head |-> m + 1, tail |-> m + 1, up |-> 0]
    OBVIOUS
  <2>2. r \in WordNode /\ r.head = m + 1 /\ r.tail = m + 1 /\ r.up = 0
    BY <2>1 DEF WordNode
  <2>3. nws = Append(words, r)
    BY <1>6, <1>9, <1>10, <2>1
  <2>4. Len(nws) = W + 1 /\ nws[W + 1] = r /\ \A k \in 1..W : nws[k] = words[k]
    BY <1>8, <2>2, <2>3, AppendProperties
  <2> QED BY <1>8, <2>2, <2>4 DEF Opened, SameBounds
<1>11. ASSUME ~first
       PROVE  /\ Longer(words, nws, m + 1) /\ Len(nws) = W /\ nws[W].up = 0 /\ W # 0
  <2>1. words # <<>> /\ nws = [words EXCEPT ![Len(words)].tail = m + 1]
    BY <1>1, <1>6, <1>7, <1>9, <1>11 DEF LabelsInv
  <2>2. PICK t \in Nat : t = m + 1
    OBVIOUS
  <2>3. Longer(words, nws, t) /\ SameUps(words, nws, Len(words))
    BY <1>8, <2>1, <2>2, WordLonger
  <2>4. W # 0 /\ W \in 1..W
    BY <1>8, <2>1, Listed
  <2>5. words[W].up = 0
    BY <1>1, <1>7, <1>8, <1>11
  <2> QED BY <1>8, <2>2, <2>3, <2>4, <2>5 DEF Longer, SameUps
<1>12. WordsGrow
  <2>1. CASE first
    <3>1. \A u \in 1..W : nws[u].head = words[u].head /\ nws[u].tail = words[u].tail
      BY <1>8, <1>10, <2>1 DEF Opened, SameBounds
    <3>2. Joined = W
      BY <1>7, <1>8, <2>1 DEF Joined
    <3> QED BY <1>8, <1>9, <3>1, <3>2 DEF WordsGrow, HeadsKept
  <2>2. CASE ~first
    <3>1. \A u \in 1..W : nws[u].head = words[u].head /\ (u # W => nws[u].tail = words[u].tail)
      BY <1>8, <1>11, <2>2 DEF Longer
    <3>2. Joined = W - 1 /\ W # 0
      BY <1>7, <1>8, <1>11, <2>2 DEF Joined
    <3>3. \A u \in 1..W - 1 : u \in 1..W /\ u # W
      OBVIOUS
    <3> QED BY <1>8, <1>9, <3>1, <3>2, <3>3 DEF WordsGrow, HeadsKept
  <2> QED BY <2>1, <2>2
<1>13. d = 1 => words'[moras'[Len(moras) + 1].up].head = Len(moras) + 1
  BY <1>6, <1>7, <1>8, <1>9, <1>10
<1>14. MoreSaid(d, sounds)
  BY <1>2, <1>5, <1>12, <1>13, MoraIsSaid DEF WordsGrow
<1>15. GrownSays(phonemes, moras, phonemes', moras', d, sounds)
  BY <1>14 DEF MoreSaid
<1>16. SaidNow' = Hear(SaidNow, token)
  <2>1. Hear(SaidNow, token) = Append(SaidNow, sounds)
    BY <1>4 DEF Hear
  <2>2. CASE first
    <3>1. SaidNow = <<>> /\ Append(SaidNow, sounds) = <<sounds>>
      BY <2>2 DEF SaidNow
    <3>2. PICK new, low : new = phonemes' /\ low = moras'
      OBVIOUS
    <3>3. SaidNow' = Said(new, low, m + 1, (m + 1) - (m + 1) + 1)
      BY <1>6, <1>9, <1>10, <2>2, <3>2 DEF SaidNow, WordSays
    <3>4. (m + 1) - (m + 1) + 1 = 1 /\ \A k \in 1..1 : (m + 1) + k - 1 = m + 1
      OBVIOUS
    <3>5. SoundsAt(new, low, m + 1) = sounds
      BY <1>6, <1>15, <3>2 DEF GrownSays
    <3>6. Said(new, low, m + 1, 1) = [k \in 1..1 |-> sounds]
      BY <3>4, <3>5 DEF Said
    <3>7. [k \in 1..1 |-> sounds] = <<sounds>>
      OBVIOUS
    <3> QED BY <2>1, <3>1, <3>3, <3>4, <3>6, <3>7
  <2>3. CASE ~first
    <3>2. Longer(words, words', Len(moras) + 1) /\ Len(moras') = Len(moras) + 1 /\ Open
      BY <1>6, <1>7, <1>9, <1>11, <2>3
    <3>3. first' = first
      BY <1>1, <1>6, <2>3 DEF TypeOK
    <3> QED BY <1>1, <1>2, <1>5, <1>15, <2>1, <2>3, <3>2, <3>3, WordSaysMore
  <2> QED BY <2>2, <2>3
<1>17. WordHeard'
  BY <1>1, <1>6, <1>16, TokenHeard
<1>18. UtteranceInv'
  <2>1. ~shortPause' /\ words'[Len(words')].up = 0
    BY <1>6, <1>8, <1>9, <1>10, <1>11
  <2> QED BY <1>2, <1>14, <1>15, <1>17, <2>1 DEF UtteranceInv, MoreSaid, GrownSays
<1>19. PauseDueNow' <=> PauseDueNow
  <2>1. PauseDueNow' <=> PauseAt(phonemes', moras', nws[Len(nws)].head)
    BY <1>7, <1>9 DEF PauseDueNow
  <2>2. CASE first
    <3>1. PauseDueNow' <=> d = 1
      BY <1>6, <1>10, <1>15, <2>1, <2>2 DEF GrownSays
    <3>2. PauseDueNow <=> shortPause /\ breaths # <<>>
      BY <1>7, <2>2 DEF PauseDueNow
    <3>3. phonemes # <<>> <=> breaths # <<>>
      BY <1>1, <1>7, <2>2, SomeOfAll
    <3> QED BY <1>6, <3>1, <3>2, <3>3
  <2>3. CASE ~first
    <3>1. W \in 1..W /\ words # <<>>
      BY <1>1, <1>7, <1>8, <1>11, <2>3 DEF LabelsInv
    <3>2. words[W].head \in Nat /\ words[W].tail \in Nat /\ 1 <= words[W].head
          /\ words[W].tail <= m /\ words[W].head <= words[W].tail
      <4>1. W \in DOMAIN words
        BY <1>8, <3>1, Listed
      <4> QED BY <1>1, <1>6, <1>8, <3>1, <4>1 DEF LabelsInv, Level, Tiles
    <3>3. words[W].head \in 1..m
      BY <3>2
    <3>4. nws[Len(nws)].head = words[W].head
      BY <1>8, <1>11, <2>3, <3>1 DEF Longer
    <3>5. PauseAt(phonemes', moras', words[W].head) <=> PauseAt(phonemes, moras, words[W].head)
      BY <1>6, <1>15, <3>3 DEF GrownSays, MorasKept
    <3>6. PauseDueNow <=> PauseAt(phonemes, moras, words[W].head)
      BY <1>7, <1>8, <2>3 DEF PauseDueNow
    <3> QED BY <2>1, <3>4, <3>5, <3>6
  <2> QED BY <2>2, <2>3
<1>20. PendingNow' <=> PendingNow
  BY <1>18, <1>19, PendingWhen, PendingWhenNext
<1>21. GroupsNow' = GroupsNow
  BY <1>1, <1>2, <1>6, <1>12, <1>15, MoraOutside
<1> QED BY <1>18, <1>20, <1>21 DEF Refined

-----------------------------------------------------------------------------
(* Long vowels.                                                            *)

SaidListed(ps, ms, n, c) ==
  /\ Said(ps, ms, n, c) \in Seq(Seq(Sound)) /\ Len(Said(ps, ms, n, c)) = c
  /\ \A k \in 1..c : Said(ps, ms, n, c)[k] = SoundsAt(ps, ms, n + k - 1)

\* What a run of moras says.
LEMMA SaidTyped ==
  ASSUME NEW ps, NEW ms, MorasIn(ps, ms), NEW n \in Nat \ {0}, NEW c \in Nat,
         n + c - 1 <= Len(ms)
  PROVE  SaidListed(ps, ms, n, c)
BY ItemsTyped DEF SaidListed

\* The last of what a phrase says is its last mora, and of that its last sound.
LEMMA LastItem ==
  ASSUME NEW ps, NEW ms, MorasIn(ps, ms), NEW n \in Nat \ {0}, NEW c \in Nat \ {0},
         n + c - 1 <= Len(ms), NEW said, said = FlattenSeq(ItemsAt(ps, ms, n, c))
  PROVE  said \in Seq(Seq(Sound)) /\ said # <<>> /\ Last(said) = SoundsAt(ps, ms, n + c - 1)
<1>1. PICK b \in Nat, one \in Nat \ {0}, M \in Nat :
        b = c - 1 /\ one = 1 /\ b + one = c /\ M = Len(ms)
  <2>1. c - 1 \in Nat /\ 1 \in Nat \ {0} /\ (c - 1) + 1 = c
    OBVIOUS
  <2> QED BY <2>1, LenProperties DEF MorasIn
<1>2. PICK m \in Nat \ {0} : m = n + b /\ m = n + c - 1 /\ m <= M
  <2>1. n + (c - 1) = n + c - 1 /\ n + c - 1 \in Nat \ {0}
    OBVIOUS
  <2> QED BY <1>1, <2>1
<1>3. n + b - 1 <= M /\ n + b + one - 1 <= M /\ n + b + 1 = m + 1 /\ n + b + one - 1 = m
  BY <1>1, <1>2
<1>4. MoreMoras(ps, ms, ps, ms, n, b, one)
  <2>1. MorasKept(ps, ms, ps, ms, n + b - 1)
    BY DEF MorasKept
  <2>2. \A x \in n + b + 1..n + b + one - 1 : FALSE
    BY <1>2, <1>3
  <2> QED BY <1>1, <1>3, <2>1, <2>2 DEF MoreMoras
<1>5. ItemsGrow(ps, ms, ps, ms, n, b, one)
  BY <1>4, ItemsLonger
<1>6. PICK old \in Seq(Seq(Sound)), pre \in Seq(Seq(Sound)) :
        said = (old \o pre) \o Said(ps, ms, m, one)
  <2>1. PICK pre \in Seq(Seq(Sound)) : pre = BeforeAt(ps, ms, n, n + b)
    BY ItemIs
  <2>2. PICK old : old = FlattenSeq(ItemsAt(ps, ms, n, b))
    OBVIOUS
  <2>3. old \in Seq(Seq(Sound)) /\ said = (old \o pre) \o Said(ps, ms, m, one)
    BY <1>1, <1>2, <1>5, <2>1, <2>2 DEF ItemsGrow
  <2> QED BY <2>3
<1>7. PICK new \in Seq(Seq(Sound)) :
        new = Said(ps, ms, m, one) /\ Len(new) = 1 /\ new[1] = SoundsAt(ps, ms, m)
  <2>0. m + one - 1 <= Len(ms)
    BY <1>1, <1>2
  <2>1. 1 \in 1..one /\ m + 1 - 1 = m
    BY <1>1, <1>2
  <2>2. /\ Said(ps, ms, m, one) \in Seq(Seq(Sound)) /\ Len(Said(ps, ms, m, one)) = one
        /\ \A k \in 1..one : Said(ps, ms, m, one)[k] = SoundsAt(ps, ms, m + k - 1)
    <3>1. one \in Nat
      OBVIOUS
    <3>2. SaidListed(ps, ms, m, one)
      BY <2>0, <3>1, SaidTyped
    <3> QED BY <3>2 DEF SaidListed
  <2>3. Said(ps, ms, m, one)[1] = SoundsAt(ps, ms, m)
    BY <2>1, <2>2
  <2> QED BY <1>1, <2>2, <2>3
<1>8. PICK base \in Seq(Seq(Sound)) : base = old \o pre
  BY ConcatProperties
<1>9. said = base \o new
  BY <1>6, <1>7, <1>8
<1>10. /\ said \in Seq(Seq(Sound)) /\ Len(said) = Len(base) + 1 /\ said[Len(base) + 1] = new[1]
  <2>1. Chained(said, base, new)
    BY <1>9 DEF Chained
  <2>2. /\ said \in Seq(Seq(Sound)) /\ Len(said) = Len(base) + Len(new)
        /\ \A k \in 1..Len(new) : said[Len(base) + k] = new[k]
    BY <2>1, TwoParts, SMTT(30)
  <2> QED BY <1>7, <2>2
<1>11. Len(base) + 1 # 0
  <2>1. Len(base) \in Nat
    BY LenProperties
  <2> QED BY <2>1
<1>12. said # <<>> /\ Last(said) = new[1]
  <2>1. said # <<>>
    BY <1>10, <1>11, EmptySeq
  <2> QED BY <1>10, <2>1 DEF Last
<1> QED BY <1>2, <1>7, <1>10, <1>12

\* The last sound of a mora is that of its last phoneme.
LEMMA LastSound ==
  ASSUME NEW ps, NEW ms, MorasIn(ps, ms), NEW m \in 1..Len(ms)
  PROVE  Last(SoundsAt(ps, ms, m)) = ps[ms[m].tail].sound
<1>1. PICK h \in Nat, t \in Nat : h = ms[m].head /\ t = ms[m].tail /\ h <= t
  <2>1. ms[m] \in MoraType /\ ms[m].head <= ms[m].tail
    BY DEF MorasIn
  <2> QED BY <2>1 DEF MoraType
<1>2. PICK c \in Nat \ {0} : c = t - h + 1
  BY <1>1
<1>3. PICK f : f = SoundsAt(ps, ms, m)
  OBVIOUS
<1>4. f = [k \in 1..c |-> ps[h + k - 1].sound]
  BY <1>1, <1>2, <1>3 DEF SoundsAt
<1>5. f \in Seq(Sound)
  BY <1>3, SoundsTyped
<1>6. Len(f) = c
  <2>1. DOMAIN f = 1..c /\ Len(f) \in Nat /\ DOMAIN f = 1..Len(f)
    BY <1>4, <1>5, LenProperties
  <2> QED BY <2>1
<1>7. c \in 1..c /\ h + c - 1 = t
  BY <1>1, <1>2
<1>8. f[c] = ps[t].sound
  BY <1>4, <1>7
<1>9. Last(f) = f[c]
  BY <1>6 DEF Last
<1> QED BY <1>1, <1>3, <1>8, <1>9

\* n phonemes, m moras, and the sound that is repeated.
LongFacts(n, m, W, sound) ==
  /\ n = Len(phonemes) /\ m = Len(moras) /\ W = Len(words)
  /\ phonemes # <<>> /\ ~shortPause /\ sound \in Sound /\ phonemes[n].sound = sound
  /\ Len(phonemes') = n + 1 /\ \A k \in 1..n : phonemes'[k] = phonemes[k]
  /\ phonemes'[n + 1].sound = sound
  /\ Len(moras') = m + 1 /\ \A k \in 1..m : moras'[k] = moras[k]
  /\ moras'[m + 1].head = n + 1 /\ moras'[m + 1].tail = n + 1
  /\ Longer(words, words', m + 1) /\ SameUps(words, words', W)
  /\ status = "word" /\ word.pron # <<>> /\ Head(word.pron) = "long"
  /\ word' = [word EXCEPT !.pron = Tail(@)]
  /\ accents' = accents /\ breaths' = breaths /\ status' = status /\ first' = first
  /\ shortPause' = shortPause

\* What TakeLong does to the lists.
LEMMA LongTaken ==
  ASSUME LabelsInv, TakeLong
  PROVE  \E n, m, W \in Nat \ {0} : \E sound \in Sound : LongFacts(n, m, W, sound)
<1>1. PICK n, m, W, sound : n = Len(phonemes) /\ m = Len(moras) /\ W = Len(words) /\ sound = phonemes[n].sound
  OBVIOUS
<1>2. n \in Nat /\ m \in Nat /\ W \in Nat /\ phonemes \in Seq(PhonemeType) /\ moras \in Seq(MoraType)
      /\ words \in Seq(WordNode) /\ n # 0 /\ phonemes # <<>> /\ ~shortPause
  BY <1>1, Listed DEF LabelsInv, TypeOK, TakeLong, CanProlong
<1>3. phonemes[n].up \in 1..m /\ sound \in Sound
  <2>1. n \in 1..n
    BY <1>2
  <2>2. Sounding(n)
    BY <1>1, <1>2 DEF LabelsInv, SoundsInv
  <2>3. phonemes[n].up \in 1..m
    BY <1>1, <2>1, <2>2 DEF LabelsInv, SoundsInv, Sounding
  <2>5. phonemes[n] \in PhonemeType
    BY <1>1, <1>2, <2>1
  <2> QED BY <1>1, <2>3, <2>5 DEF PhonemeType, Sound
<1>4. m # 0 /\ words # <<>> /\ moras[m].up = W /\ W # 0
  <2>1. m \in Nat \ {0}
    BY <1>2, <1>3
  <2>2. Level(words, moras, m)
    BY <1>1 DEF LabelsInv
  <2>3. words # <<>> /\ moras[m].up = Len(words)
    BY <1>2, <2>1, <2>2, LastUnderLast
  <2> QED BY <1>1, <1>2, <2>1, <2>3, Listed
<1>5. /\ phonemes' = Append(phonemes, [sound |-> sound, up |-> m + 1])
      /\ moras' = Append(moras, [head |-> n + 1, tail |-> n + 1, up |-> W])
      /\ words' = [words EXCEPT ![Len(words)].tail = m + 1]
      /\ accents' = accents /\ breaths' = breaths /\ status' = status /\ first' = first
      /\ shortPause' = shortPause
      /\ status = "word" /\ word.pron # <<>> /\ Head(word.pron) = "long"
      /\ word' = [word EXCEPT !.pron = Tail(@)]
  <2>1. (n + 1) - 1 = n /\ (m + 1) - 1 = m
    BY <1>2
  <2> QED BY <1>1, <1>4, <2>1 DEF TakeLong, Take
<1>6. /\ Len(phonemes') = n + 1 /\ \A k \in 1..n : phonemes'[k] = phonemes[k]
      /\ phonemes'[n + 1].sound = sound
  <2>1. PICK r : r = [sound |-> sound, up |-> m + 1]
    OBVIOUS
  <2>2. r \in PhonemeType /\ r.sound = sound
    BY <1>2, <1>3, <2>1 DEF PhonemeType, Sound
  <2>3. phonemes' = Append(phonemes, r)
    BY <1>5, <2>1
  <2>4. /\ Len(phonemes') = n + 1 /\ phonemes'[n + 1] = r
        /\ \A k \in 1..n : phonemes'[k] = phonemes[k]
    BY <1>1, <1>2, <2>2, <2>3
  <2> QED BY <2>2, <2>4
<1>7. /\ Len(moras') = m + 1 /\ \A k \in 1..m : moras'[k] = moras[k]
      /\ moras'[m + 1].head = n + 1 /\ moras'[m + 1].tail = n + 1
  <2>1. PICK r : r = [head |-> n + 1, tail |-> n + 1, up |-> W]
    OBVIOUS
  <2>2. r \in MoraType /\ r.head = n + 1 /\ r.tail = n + 1
    BY <1>2, <1>4, <2>1, SMTT(60) DEF MoraType
  <2>3. moras' = Append(moras, r)
    BY <1>5, <2>1
  <2>4. /\ Len(moras') = m + 1 /\ moras'[m + 1] = r
        /\ \A k \in 1..m : moras'[k] = moras[k]
    BY <1>1, <1>2, <2>2, <2>3
  <2> QED BY <2>2, <2>4
<1>8. Longer(words, words', m + 1) /\ SameUps(words, words', W)
  <2>1. PICK low \in Nat : low = m + 1
    BY <1>2
  <2>0. PICK w : w = words'
    OBVIOUS
  <2>2. Longer(words, w, low) /\ SameUps(words, w, Len(words))
    BY <1>2, <1>4, <1>5, <2>0, <2>1, WordLonger
  <2> QED BY <1>1, <2>0, <2>1, <2>2
<1>9. LongFacts(n, m, W, sound)
  BY <1>1, <1>2, <1>3, <1>5, <1>6, <1>7, <1>8 DEF LongFacts
<1> QED BY <1>2, <1>3, <1>4, <1>9

\* A long vowel lengthens the word being pushed, or, before it has a mora of its
\* own, the last phrase of the utterance.
LEMMA SaysTakeLong ==
  ASSUME LabelAssumption, UtteranceInv, TakeLong
  PROVE  UtteranceInv' /\ Refined
<1>1. /\ LabelsInv /\ Follow(phonemes, moras) /\ PausesAtHeads(phonemes, moras, words)
      /\ (Open => ~shortPause /\ words[Len(words)].up = 0) /\ WordHeard /\ TypeOK
  BY DEF UtteranceInv, LabelsInv
<1>2. LabelsInv'
  BY <1>1, StepLong
<1>3. PICK n \in Nat \ {0}, m \in Nat \ {0}, W \in Nat \ {0} : \E s \in Sound : LongFacts(n, m, W, s)
  BY <1>1, LongTaken
<1>31. PICK sound \in Sound : LongFacts(n, m, W, sound)
  BY <1>3
<1>4. /\ n = Len(phonemes) /\ m = Len(moras) /\ W = Len(words)
      /\ phonemes # <<>> /\ ~shortPause /\ phonemes[n].sound = sound
      /\ Len(moras') = m + 1 /\ \A k \in 1..m : moras'[k] = moras[k]
      /\ Longer(words, words', m + 1) /\ SameUps(words, words', W)
      /\ status = "word" /\ word.pron # <<>> /\ Head(word.pron) = "long"
      /\ word' = [word EXCEPT !.pron = Tail(@)]
      /\ accents' = accents /\ breaths' = breaths /\ status' = status /\ first' = first
      /\ shortPause' = shortPause
  BY <1>31 DEF LongFacts
<1>5. PICK sounds \in Seq(Sound) :
        /\ sounds = <<sound>> /\ sounds # <<>> /\ Len(sounds) = 1 /\ sounds[1] = sound
  <2>1. \A T, x : x \in T => <<x>> \in Seq(T) /\ <<x>> # <<>> /\ Len(<<x>>) = 1 /\ <<x>>[1] = x
    OBVIOUS
  <2> QED BY <2>1
<1>6. PICK d \in {0, 1} : d = 0
  OBVIOUS
<1>7. Grown(phonemes, moras, phonemes', moras', d, sounds)
  <2>1. n + d + 1 = n + 1
    BY <1>6
  <2>2. \A k \in 1..1 : k = 1
    OBVIOUS
  <2> QED BY <1>31, <1>5, <1>6, <2>1, <2>2 DEF LongFacts, Grown
<1>8. PICK nws : nws = words'
  OBVIOUS
<1>9. /\ Len(nws) = W /\ nws[W].tail = m + 1 /\ nws[W].up = words[W].up
      /\ \A u \in 1..W : nws[u].head = words[u].head /\ (u # W => nws[u].tail = words[u].tail)
  <2>1. W \in 1..W
    OBVIOUS
  <2> QED BY <1>4, <1>8, <2>1 DEF Longer, SameUps
<1>10. HeadsKept
  BY <1>4, <1>8, <1>9 DEF HeadsKept
<1>101. d = 1 => words'[moras'[Len(moras) + 1].up].head = Len(moras) + 1
  BY <1>6
<1>11. MoreSaid(d, sounds)
  BY <1>2, <1>5, <1>7, <1>10, <1>101, MoraIsSaid
<1>12. GrownSays(phonemes, moras, phonemes', moras', d, sounds)
  BY <1>11 DEF MoreSaid
<1>13. (Open <=> ~first) /\ (Open' <=> Open) /\ MorasIn(phonemes, moras)
  BY <1>1, <1>4, ListsWhole DEF Open, WholeNow, Whole
<1>14. m \in 1..m /\ moras[m].tail = n /\ Last(SoundsAt(phonemes, moras, m)) = sound
  <2>1. m \in 1..m /\ moras[m].tail = n
    <3>1. phonemes # <<>>
      BY <1>4
    <3> QED BY <1>1, <1>4, <3>1 DEF Follow
  <2> QED BY <1>4, <1>13, <2>1, LastSound
<1>15. SaidNow' = Hear(SaidNow, "long")
  <2>1. CASE first
    BY <1>4, <2>1 DEF SaidNow, Hear
  <2>2. CASE ~first
    <3>1. Longer(words, words', Len(moras) + 1) /\ Len(moras') = Len(moras) + 1 /\ Open
      BY <1>4, <1>13, <2>2
    <3>2. /\ SaidNow' = Append(SaidNow, sounds) /\ SaidNow # <<>>
          /\ Last(SaidNow) = SoundsAt(phonemes, moras, m)
      BY <1>1, <1>2, <1>4, <1>5, <1>12, <2>2, <3>1, WordSaysMore
    <3>3. Hear(SaidNow, "long") = Append(SaidNow, <<Last(Last(SaidNow))>>)
      BY <3>2 DEF Hear
    <3> QED BY <1>5, <1>14, <3>2, <3>3
  <2> QED BY <2>1, <2>2
<1>16. WordHeard'
  BY <1>1, <1>4, <1>15, TokenHeard
<1>17. UtteranceInv'
  <2>1. Open' => ~shortPause' /\ words'[Len(words')].up = 0
    BY <1>1, <1>4, <1>8, <1>9, <1>13
  <2> QED BY <1>2, <1>11, <1>12, <1>16, <2>1 DEF UtteranceInv, MoreSaid, GrownSays
<1>18. PauseDueNow' <=> PauseDueNow
  <2>2. CASE first
    BY <1>4, <1>13, <2>2 DEF PauseDueNow
  <2>3. CASE ~first
    <3>1. W \in 1..W /\ words # <<>>
      BY <1>1, <1>13, <2>3 DEF LabelsInv
    <3>2. words[W].head \in Nat /\ words[W].tail \in Nat /\ 1 <= words[W].head
          /\ words[W].tail <= m /\ words[W].head <= words[W].tail
      <4>1. W \in DOMAIN words
        BY <1>1, <1>4, <3>1, Sizes
      <4> QED BY <1>1, <1>4, <3>1, <4>1 DEF LabelsInv, Level, Tiles
    <3>3. words[W].head \in 1..m
      BY <3>2
    <3>4. PauseAt(phonemes', moras', words[W].head) <=> PauseAt(phonemes, moras, words[W].head)
      BY <1>4, <1>12, <3>3 DEF GrownSays, MorasKept
    <3>5. PauseDueNow <=> PauseAt(phonemes, moras, words[W].head)
      BY <1>4, <1>13, <2>3 DEF PauseDueNow
    <3>6. PauseDueNow' <=> PauseAt(phonemes', moras', nws[Len(nws)].head)
      BY <1>4, <1>8, <1>13, <2>3 DEF PauseDueNow
    <3> QED BY <1>9, <3>1, <3>4, <3>5, <3>6
  <2> QED BY <2>2, <2>3
<1>19. PendingNow' <=> PendingNow
  BY <1>17, <1>18, PendingWhen, PendingWhenNext
<1>20. CASE ~first
  <2>1. Joined = W - 1 /\ \A u \in 1..W - 1 : u \in 1..W /\ u # W
    BY <1>4, <1>13, <1>20 DEF Joined
  <2>2. WordsGrow
    BY <1>8, <1>9, <1>10, <2>1 DEF WordsGrow
  <2>3. GroupsNow' = GroupsNow
    BY <1>1, <1>2, <1>4, <1>12, <2>2, MoraOutside
  <2> QED BY <1>17, <1>19, <2>3 DEF Refined
<1>21. CASE first
  <2>1. ~Open /\ Joined = W
    BY <1>4, <1>13, <1>21 DEF Joined
  <2>2. PICK A \in Nat \ {0} : A = Len(accents) /\ accents # <<>> /\ breaths # <<>>
    <3>1. breaths # <<>>
      BY <1>1, <1>4, <2>1, SomeOfAll
    <3>2. accents # <<>> /\ accents \in Seq(AccentNode)
      BY <1>1, <3>1, PhrasesThere DEF TypeOK
    <3> QED BY <3>1, <3>2, Listed
  <2>3. PICK new, low : new = phonemes' /\ low = moras'
    OBVIOUS
  <2>4. /\ Whole(phonemes, moras, words, accents, breaths, W)
        /\ Whole(new, low, nws, accents, breaths, Joined') /\ MorasIn(new, low)
    BY <1>1, <1>2, <1>4, <1>8, <2>1, <2>3, ListsWhole, ListsWholeNext DEF WholeNow, Whole
  <2>5. /\ \A x \in 1..m : low[x] = moras[x]
        /\ MorasKept(phonemes, moras, new, low, m) /\ SoundsAt(new, low, m + 1) = sounds
        /\ ~PauseAt(new, low, m + 1) /\ Len(low) = m + 1
    BY <1>4, <1>6, <1>12, <2>3 DEF GrownSays
  <2>6. ASSUME NEW a \in 1..A, a # A
        PROVE  PhraseAt(new, low, nws, accents, a) = PhraseAt(phonemes, moras, words, accents, a)
    <3>1. InPhrase(moras, words, accents, W, a)
      BY <2>2, <2>4, PhraseRange
    <3>2. /\ accents[a].head \in 1..W /\ accents[a].tail \in 1..W /\ accents[a].tail # W
          /\ words[accents[a].tail].tail <= m
      <4>1. MorasUpTo(words, W) = m
        <5>1. words # <<>> /\ words[W].tail = m
          <6>1. words # <<>>
            BY <1>1, <1>4, Sizes
          <6> QED BY <1>1, <1>4, <6>1 DEF LabelsInv, Level, Tiles
        <5> QED BY <5>1 DEF MorasUpTo
      <4> QED BY <2>2, <2>6, <3>1, <4>1 DEF InPhrase
    <3>3. SamePhrase(words, accents, nws, accents, a)
      BY <1>9, <3>2 DEF SamePhrase, SameMarks
    <3> QED BY <2>2, <2>4, <2>5, <3>2, <3>3, PhraseSame
  <2>7. PICK old \in PhraseSet :
          /\ old = PhraseAt(phonemes, moras, words, accents, A) /\ PhrasesNow[A] = old
          /\ U!LastPhrase = old
    <3>1. A \in 1..Len(accents)
      BY <2>2
    <3>2. /\ PhrasesNow \in Seq(PhraseSet) /\ Len(PhrasesNow) = Len(accents)
          /\ PhrasesNow[A] = PhraseAt(phonemes, moras, words, accents, A)
          /\ U!LastPhrase = PhrasesNow[A]
      BY <1>1, <2>2, <3>1, PhrasesThere
    <3>3. PhrasesNow[A] \in PhraseSet
      BY <3>1, <3>2, ElementOfSeq
    <3> QED BY <3>2, <3>3
  <2>8. PICK h \in Nat \ {0}, c \in Nat \ {0}, one \in Nat \ {0} :
          /\ h = FirstAt(words, accents, A) /\ c = CountAt(words, accents, A) /\ one = 1
          /\ h + c - 1 = m /\ accents[A].tail = W /\ accents[A].head \in 1..W
    <3>1. InPhrase(moras, words, accents, W, A)
      BY <2>2, <2>4, PhraseRange
    <3>2. words[W].tail = m
      <4>1. words # <<>>
        BY <1>1, <1>4, Sizes
      <4> QED BY <1>1, <1>4, <4>1 DEF LabelsInv, Level, Tiles
    <3>3. /\ FirstAt(words, accents, A) \in Nat \ {0} /\ CountAt(words, accents, A) \in Nat \ {0}
          /\ FirstAt(words, accents, A) + CountAt(words, accents, A) - 1 = m
          /\ accents[A].tail = W /\ accents[A].head \in 1..W
      BY <2>2, <3>1, <3>2 DEF InPhrase
    <3>4. 1 \in Nat \ {0}
      OBVIOUS
    <3> QED BY <3>3, <3>4
  <2>9. h + c = m + 1 /\ h + c + one - 1 = m + 1 /\ h + c + 1 = m + 2
    BY <2>8
  <2>10. MoreMoras(phonemes, moras, new, low, h, c, one)
    <3>1. \A x \in h + c + 1..h + c + one - 1 : FALSE
      BY <2>9
    <3>2. h + c - 1 <= m /\ h + c + one - 1 <= m + 1 /\ m = Len(moras) /\ Len(low) = m + 1
      <4>1. m \in Nat /\ h + c - 1 = m /\ h + c + one - 1 = m + 1
        BY <2>8, <2>9
      <4>2. h + c - 1 <= m /\ h + c + one - 1 <= m + 1
        BY <4>1
      <4> QED BY <1>4, <2>5, <4>2
    <3> QED BY <2>5, <2>8, <3>1, <3>2 DEF MoreMoras
  <2>11. FirstAt(nws, accents, A) = h /\ CountAt(nws, accents, A) = c + one
    <3>1. words[accents[A].head].head = h /\ c = words[W].tail - h + 1 /\ words[W].tail = m
      <4>1. words # <<>>
        BY <1>1, <1>4, Sizes
      <4> QED BY <1>1, <1>4, <2>8, <4>1 DEF FirstAt, CountAt, LabelsInv, Level, Tiles
    <3>2. nws[accents[A].head].head = h /\ nws[W].tail = m + 1
      BY <1>9, <2>8, <3>1
    <3>3. (m + 1) - h + 1 = c + one
      BY <2>8, <2>9
    <3> QED BY <2>8, <3>2, <3>3 DEF FirstAt, CountAt
  <2>12. PhraseAt(new, low, nws, accents, A) =
           Prolonged(old, BeforeAt(new, low, h, h + c), Said(new, low, h + c, one))
    <3>1. A \in 1..Len(accents) /\ SameMarks(accents, accents, A)
      BY <2>2 DEF SameMarks
    <3> QED BY <2>4, <2>7, <2>8, <2>10, <2>11, <3>1, PhraseLonger, SMTT(60)
  <2>13. BeforeAt(new, low, h, h + c) = <<>> /\ Said(new, low, h + c, one) = <<sounds>>
    <3>1. \A k \in 1..1 : h + c + k - 1 = m + 1
      BY <2>9
    <3>2. Said(new, low, h + c, 1) = [k \in 1..1 |-> sounds]
      BY <2>5, <3>1 DEF Said
    <3>3. [k \in 1..1 |-> sounds] = <<sounds>>
      OBVIOUS
    <3> QED BY <2>5, <2>8, <2>9, <3>2, <3>3 DEF BeforeAt
  <2>14. old.moras \in Seq(Seq(Sound)) /\ Last(Last(old.moras)) = sound
    <3>1. old.moras = FlattenSeq(ItemsAt(phonemes, moras, h, c))
      BY <2>7, <2>8 DEF PhraseAt
    <3>2. h + c - 1 <= Len(moras)
      BY <1>4, <2>8
    <3> QED BY <1>13, <1>14, <2>8, <3>1, <3>2, LastItem, SMTT(60)
  <2>15. PICK longer \in PhraseSet :
           /\ longer = PhraseAt(new, low, nws, accents, A)
           /\ longer = [old EXCEPT !.moras = Append(@, <<Last(Last(@))>>)]
    <3>1. PICK said, mark, asked : said = old.moras /\ mark = old.accent /\ asked = old.question
      OBVIOUS
    <3>2. old = [moras |-> said, accent |-> mark, question |-> asked]
      BY <3>1 DEF PhraseSet
    <3>3. (said \o <<>>) \o <<sounds>> = Append(said, <<sound>>)
      <4>1. said \in Seq(Seq(Sound))
        BY <2>14, <3>1
      <4>2. said \o <<>> = said
        BY <4>1, ConcatEmptySeq
      <4>3. said \o <<sounds>> = Append(said, sounds)
        BY <4>1, AppendIsConcat
      <4> QED BY <1>5, <4>2, <4>3
    <3>4. Prolonged(old, <<>>, <<sounds>>) = [old EXCEPT !.moras = Append(said, <<sound>>)]
      BY <3>1, <3>3 DEF Prolonged
    <3>5. [old EXCEPT !.moras = Append(@, <<Last(Last(@))>>)] = [old EXCEPT !.moras = Append(said, <<sound>>)]
      BY <2>14, <3>1
    <3>6. PhraseAt(new, low, nws, accents, A) \in PhraseSet
      <4>1. PhrasesListed(new, low, nws, accents)
        BY <2>4, PhrasesTyped
      <4>2. A \in 1..Len(accents)
        BY <2>2
      <4>3. PhrasesAt(new, low, nws, accents)[A] \in PhraseSet
        BY <4>1, <4>2, ElementOfSeq DEF PhrasesListed
      <4> QED BY <4>1, <4>2, <4>3 DEF PhrasesListed
    <3> QED BY <2>12, <2>13, <3>4, <3>5, <3>6
  <2>16. PhrasesNow' = LastReplaced(PhrasesNow, longer)
    <3>1. PhrasesAt(new, low, nws, accents) =
            LastReplaced(PhrasesAt(phonemes, moras, words, accents), PhraseAt(new, low, nws, accents, A))
      BY <2>2, <2>4, <2>6, ListLast
    <3> QED BY <1>4, <1>8, <2>3, <2>15, <3>1 DEF PhrasesNow
  <2>17. GroupsNow' = U!WithLast(longer)
    BY <1>1, <1>2, <1>4, <2>2, <2>16, LastSaid
  <2>18. GroupsNow # <<>> /\ ~PendingNow
    <3>1. ~PauseDueNow
      BY <1>4, <2>1 DEF PauseDueNow
    <3> QED BY <1>1, <2>2, <3>1, PhrasesThere, PendingWhen
  <2>19. longer = [U!LastPhrase EXCEPT !.moras = Append(@, <<U!Last(U!Last(@))>>)]
    BY <2>7, <2>15 DEF Last, U!Last
  <2>20. PendingNow' = PendingNow
    BY <1>19 DEF PendingNow
  <2>21. U!Prolong
    BY <2>17, <2>18, <2>19, <2>20 DEF U!Prolong
  <2> QED BY <1>17, <2>21 DEF Refined, U!Next
<1> QED BY <1>20, <1>21

-----------------------------------------------------------------------------
(* Vowels that lose their voice.                                           *)
EndsIn(t, s, x) == Front(t) = s /\ Last(t) = x /\ t # <<>>

\* What was appended is last.
LEMMA FrontOfLonger ==
  ASSUME NEW S, NEW s \in Seq(S), NEW x \in S
  PROVE  EndsIn(Append(s, x), s, x)
<1> DEFINE t == Append(s, x)
<1>1. PICK n \in Nat : n = Len(s)
  BY LenProperties
<1>2. t \in Seq(S) /\ Len(t) = n + 1 /\ t[n + 1] = x /\ \A k \in 1..n : t[k] = s[k]
  BY <1>1, AppendProperties
<1>3. PICK f : f = SubSeq(t, 1, n)
  OBVIOUS
<1>4. f \in Seq(S) /\ Len(f) = n /\ \A k \in 1..n : f[k] = t[k]
  <2>1. n <= Len(t) /\ \A k \in 1..n : t[k] \in S
    BY <1>1, <1>2
  <2> QED BY <1>2, <1>3, <2>1, SubSeqProperties
<1>5. f = s
  <2>1. \A k \in 1..n : f[k] = s[k]
    BY <1>2, <1>4
  <2> QED BY <1>1, <1>4, <2>1, SeqEqual
<1>6. (n + 1) - 1 = n
  OBVIOUS
<1> QED BY <1>2, <1>3, <1>5, <1>6 DEF EndsIn, Front, Last

\* What the last mora says when its last sound changes.
Unvoiced(mora) == IF Last(mora) = "a" THEN Append(Front(mora), "A") ELSE mora

\* The last phoneme without voice is the last mora without voice.
LEMMA MoraUnvoiced ==
  ASSUME NEW ps, NEW ms, NEW new, MorasIn(ps, ms), MorasIn(new, ms), NEW m \in 1..Len(ms),
         NEW n \in Nat \ {0}, ms[m].tail = n,
         \A p \in 1..n : p # n => new[p] = ps[p],
         new[n].sound = IF ps[n].sound = "a" THEN "A" ELSE ps[n].sound
  PROVE  SoundsAt(new, ms, m) = Unvoiced(SoundsAt(ps, ms, m))
<1>1. PICK h \in Nat \ {0} : h = ms[m].head /\ h <= n
  <2>1. ms[m] \in MoraType /\ 1 <= ms[m].head /\ ms[m].head <= ms[m].tail
    BY DEF MorasIn
  <2> QED BY <2>1 DEF MoraType
<1>2. PICK c \in Nat, q \in Nat \ {0} : /\ c = n - h /\ q = n - h + 1 /\ q = c + 1
                                        /\ h + q - 1 = n /\ h + c = n
  <2>1. n - h \in Nat /\ n - h + 1 \in Nat \ {0} /\ h + (n - h + 1) - 1 = n
    BY <1>1
  <2>2. h + (n - h) = n
    BY <1>1
  <2> QED BY <2>1, <2>2
<1>3. PICK f, g : f = SoundsAt(ps, ms, m) /\ g = SoundsAt(new, ms, m)
  OBVIOUS
<1>4. /\ f = [k \in 1..q |-> ps[h + k - 1].sound] /\ g = [k \in 1..q |-> new[h + k - 1].sound]
  BY <1>1, <1>2, <1>3 DEF SoundsAt
<1>5. f \in Seq(Sound) /\ g \in Seq(Sound)
  BY <1>3, SoundsTyped
<1>6. Len(f) = q /\ Len(g) = q
  <2>1. DOMAIN f = 1..q /\ DOMAIN g = 1..q
    BY <1>4
  <2>2. /\ Len(f) \in Nat /\ DOMAIN f = 1..Len(f)
        /\ Len(g) \in Nat /\ DOMAIN g = 1..Len(g)
    BY <1>5, LenProperties
  <2> QED BY <2>1, <2>2
<1>7. q \in 1..q /\ f[q] = ps[n].sound /\ g[q] = new[n].sound
  <2>1. q \in 1..q
    OBVIOUS
  <2> QED BY <1>2, <1>4, <2>1
<1>8. ASSUME NEW k \in 1..c PROVE g[k] = f[k] /\ k \in 1..q
  <2>1. k \in Nat /\ 1 <= k /\ k <= c /\ q = c + 1 /\ n = h + c
    BY <1>2
  <2>2. k \in 1..q
    BY <2>1
  <2>3. h + k - 1 \in 1..n /\ h + k - 1 # n
    BY <1>1, <2>1
  <2> QED BY <1>4, <2>2, <2>3
<1>9. \A k \in 1..q : k = q \/ k \in 1..c
  BY <1>2
<1>10. Last(f) = ps[n].sound
  BY <1>6, <1>7 DEF Last
<1>11. CASE ps[n].sound # "a"
  <2>1. \A k \in 1..q : f[k] = g[k]
    BY <1>7, <1>8, <1>9, <1>11
  <2>2. f = g
    BY <1>5, <1>6, <2>1, SeqEqual
  <2> QED BY <1>3, <1>10, <1>11, <2>2 DEF Unvoiced
<1>12. CASE ps[n].sound = "a"
  <2>1. PICK front : front = SubSeq(f, 1, c)
    OBVIOUS
  <2>2. Front(f) = front
    <3>1. q - 1 = c
      BY <1>2
    <3> QED BY <1>6, <2>1, <3>1 DEF Front
  <2>3. front \in Seq(Sound) /\ Len(front) = c /\ \A k \in 1..c : front[k] = f[k]
    <3>1. c <= Len(f) /\ \A k \in 1..c : f[k] \in Sound
      BY <1>2, <1>5, <1>6
    <3> QED BY <1>5, <2>1, <3>1, SubSeqProperties
  <2>4. PICK other \in {Append(front, "A")} : TRUE
    OBVIOUS
  <2>5. "A" \in Sound
    BY DEF Sound
  <2>6. /\ other \in Seq(Sound) /\ Len(other) = q /\ other[q] = "A"
        /\ \A k \in 1..c : other[k] = front[k]
    <3>1. PICK voiceless \in Sound : voiceless = "A"
      BY <2>5
    <3>2. other = Append(front, voiceless)
      BY <2>4, <3>1
    <3>3. /\ other \in Seq(Sound) /\ Len(other) = c + 1 /\ other[c + 1] = voiceless
          /\ \A k \in 1..c : other[k] = front[k]
      BY <2>3, <3>2, AppendProperties
    <3> QED BY <1>2, <3>1, <3>3
  <2>7. \A k \in 1..q : other[k] = g[k]
    BY <1>7, <1>8, <1>9, <1>12, <2>3, <2>6
  <2>8. other = g
    BY <1>5, <1>6, <2>6, <2>7, SeqEqual
  <2> QED BY <1>3, <1>10, <1>12, <2>2, <2>4, <2>8 DEF Unvoiced
<1> QED BY <1>11, <1>12

\* Only the word being pushed loses the voice of its last vowel.
LEMMA SaysTakeUnvoice ==
  ASSUME LabelAssumption, UtteranceInv, TakeUnvoice
  PROVE  UtteranceInv' /\ Refined
<1>1. /\ LabelsInv /\ Follow(phonemes, moras) /\ PausesAtHeads(phonemes, moras, words)
      /\ (Open => ~shortPause /\ words[Len(words)].up = 0) /\ WordHeard /\ TypeOK
  BY DEF UtteranceInv, LabelsInv
<1>2. LabelsInv'
  BY <1>1, StepUnvoice
<1>3. /\ moras' = moras /\ words' = words /\ accents' = accents /\ breaths' = breaths
      /\ shortPause' = shortPause /\ first' = first /\ status = "word" /\ status' = status
      /\ word.pron # <<>> /\ Head(word.pron) = "unvoice"
      /\ word' = [word EXCEPT !.pron = Tail(@)]
      /\ phonemes' = IF phonemes # <<>> /\ ~first /\ Last(phonemes).sound = "a"
                     THEN [phonemes EXCEPT ![Len(phonemes)].sound = "A"]
                     ELSE phonemes
  BY DEF TakeUnvoice, Take
<1>4. (Open <=> ~first) /\ (Open' <=> Open)
  BY <1>3 DEF Open
<1>5. CASE first
  <2>1. UNCHANGED lists /\ SaidNow' = Hear(SaidNow, "unvoice")
    BY <1>3, <1>5 DEF lists, SaidNow, Hear
  <2>2. WordHeard'
    BY <1>1, <1>3, <2>1, TokenHeard
  <2>3. UtteranceInv' /\ GroupsNow' = GroupsNow
    BY <1>2, <1>3, <1>4, <2>1, <2>2, ListsSayTheSame
  <2>4. PendingNow' <=> PendingNow
    BY <1>3, <1>4, <2>1, <2>3, SameDue
  <2> QED BY <2>3, <2>4 DEF Refined
<1>6. CASE ~first
  <2>1. PICK n \in Nat, m \in Nat, W \in Nat : n = Len(phonemes) /\ m = Len(moras) /\ W = Len(words)
    BY <1>1, Sizes
  <2>2. words # <<>> /\ W \in 1..W /\ DOMAIN words = 1..W
    <3>1. words # <<>> /\ words \in Seq(WordNode)
      BY <1>1, <1>4, <1>6 DEF LabelsInv, TypeOK
    <3>2. W # 0 /\ DOMAIN words = 1..W
      BY <2>1, <3>1, Listed
    <3> QED BY <3>1, <3>2
  <2>3. PICK h \in Nat \ {0} : h = words[W].head /\ h <= m /\ words[W].tail = m
    <3>1. /\ words[W].head \in Nat /\ 1 <= words[W].head /\ words[W].head <= words[W].tail
          /\ words[W].tail = m
      BY <1>1, <2>1, <2>2 DEF LabelsInv, Level, Tiles
    <3> QED BY <3>1
  <2>4. m # 0 /\ m \in 1..m /\ moras # <<>> /\ phonemes # <<>> /\ n # 0 /\ n \in 1..n
    <3>1. m # 0 /\ m \in 1..m
      BY <2>3
    <3>2. moras # <<>>
      BY <1>1, <2>1, <3>1
    <3>3. phonemes # <<>> /\ phonemes \in Seq(PhonemeType)
      BY <1>1, <3>2, MorasHaveSounds DEF TypeOK
    <3>4. n # 0
      BY <2>1, <3>3, Listed
    <3> QED BY <3>1, <3>2, <3>3, <3>4
  <2>5. moras[m].tail = n
    BY <1>1, <2>1, <2>4 DEF Follow
  <2>6. PICK new : new = phonemes'
    OBVIOUS
  <2>7. MorasIn(phonemes, moras) /\ MorasIn(new, moras)
    BY <1>1, <1>2, <1>3, <2>6, ListsWhole, ListsWholeNext DEF WholeNow, Whole
  <2>8. /\ Len(new) = n /\ \A p \in 1..n : p # n => new[p] = phonemes[p]
        /\ new[n].sound = IF phonemes[n].sound = "a" THEN "A" ELSE phonemes[n].sound
    <3>1. Last(phonemes) = phonemes[n] /\ phonemes \in Seq(PhonemeType) /\ phonemes[n] \in PhonemeType
      BY <1>1, <2>1, <2>4 DEF Last, TypeOK
    <3>2. CASE phonemes[n].sound # "a"
      BY <1>3, <2>1, <2>6, <3>1, <3>2
    <3>3. CASE phonemes[n].sound = "a"
      <4>1. new = [phonemes EXCEPT ![n].sound = "A"]
        BY <1>3, <1>6, <2>1, <2>4, <2>6, <3>1, <3>3
      <4>2. PICK r : r = [phonemes[n] EXCEPT !.sound = "A"]
        OBVIOUS
      <4>3. r \in PhonemeType /\ r.sound = "A"
        BY <3>1, <4>2 DEF PhonemeType
      <4>4. new = [phonemes EXCEPT ![n] = r]
        BY <4>1, <4>2
      <4>5. Len(new) = n /\ new[n] = r /\ \A k \in 1..n : k # n => new[k] = phonemes[k]
        BY <2>1, <2>4, <3>1, <4>3, <4>4, LastChanged
      <4> QED BY <3>3, <4>3, <4>5
    <3> QED BY <3>2, <3>3
  <2>9. PICK l \in Nat, u \in Nat : l = n - 1 /\ u = m - 1 /\ u \in 0..m
    <3>1. n - 1 \in Nat /\ m - 1 \in Nat /\ m - 1 \in 0..m
      BY <2>4
    <3> QED BY <3>1
  <2>10. MorasKept(phonemes, moras, new, moras, u)
    <3>1. ASSUME NEW x \in 1..u PROVE moras[x].tail <= l
      <4>1. x \in 1..m /\ x # m
        BY <2>9
      <4>2. PICK i \in Nat, t \in Nat : i = moras[x].head /\ t = moras[x].tail /\ i <= t /\ t <= n
        <5>1. moras[x] \in MoraType /\ moras[x].head <= moras[x].tail /\ moras[x].tail <= n
          BY <2>1, <2>7, <4>1 DEF MorasIn
        <5> QED BY <5>1 DEF MoraType
      <4>3. t # n
        <5>1. phonemes[t].up = x
          <6>1. t \in i..t
            BY <4>2
          <6> QED BY <1>1, <2>1, <4>1, <4>2, <6>1 DEF LabelsInv, SoundsInv
        <5>2. phonemes[n].up = m
          <6>1. PICK j \in Nat : j = moras[m].head /\ j <= n
            <7>1. moras[m] \in MoraType /\ moras[m].head <= moras[m].tail
              BY <2>1, <2>4, <2>7 DEF MorasIn
            <7> QED BY <2>5, <7>1 DEF MoraType
          <6>2. n \in j..n
            BY <6>1
          <6> QED BY <1>1, <2>1, <2>4, <2>5, <6>1, <6>2 DEF LabelsInv, SoundsInv
        <5> QED BY <4>1, <5>1, <5>2
      <4> QED BY <2>9, <4>2, <4>3
    <3>2. \A p \in 1..l : new[p] = phonemes[p]
      <4>1. \A p \in 1..l : p \in 1..n /\ p # n
        BY <2>9
      <4> QED BY <2>8, <4>1
    <3>3. u \in 0..Len(moras) /\ \A x \in 1..u : moras[x].head = moras[x].head /\ moras[x].tail = moras[x].tail /\ moras[x].tail <= l
      BY <2>1, <2>9, <3>1
    <3> QED BY <2>7, <3>2, <3>3, KeptBelow
  <2>11. ASSUME NEW x \in 1..m PROVE PauseAt(new, moras, x) <=> PauseAt(phonemes, moras, x)
    <3>1. PICK i \in Nat : i = moras[x].head /\ i <= n
      <4>1. moras[x] \in MoraType /\ moras[x].head <= moras[x].tail /\ moras[x].tail <= n
        BY <2>1, <2>7 DEF MorasIn
      <4> QED BY <4>1 DEF MoraType
    <3>2. i > 1 => i - 1 \in 1..n /\ i - 1 # n
      BY <3>1
    <3> QED BY <2>8, <3>1, <3>2 DEF PauseAt
  <2>12. Follow(phonemes', moras')
    <3>1. \A x \in 1..m : x + 1 \in 1..m =>
            moras[x + 1].head = moras[x].tail + (IF PauseAt(new, moras, x + 1) THEN 2 ELSE 1)
      BY <1>1, <2>1, <2>11 DEF Follow
    <3>2. moras[1].head = 1 /\ moras[m].tail = Len(new)
      BY <1>1, <2>4, <2>5, <2>8 DEF Follow
    <3> QED BY <1>3, <2>1, <2>4, <2>6, <3>1, <3>2 DEF Follow
  <2>13. PausesAtHeads(phonemes', moras', words')
    BY <1>1, <1>3, <2>1, <2>6, <2>11 DEF PausesAtHeads
  <2>14. GroupsNow' = GroupsNow
    <3>1. MorasUpTo(words, Joined) <= u
      <4>1. Joined = W - 1
        BY <1>4, <1>6, <2>1 DEF Joined
      <4>2. CASE W = 1
        BY <2>9, <4>1, <4>2 DEF MorasUpTo
      <4>3. CASE W # 1
        <5>1. W - 1 \in 1..W /\ W - 1 \in 1..W - 1 /\ (W - 1) + 1 = W /\ W - 1 # 0
          BY <2>2, <4>3
        <5>2. words[W].head = words[W - 1].tail + 1 /\ words[W - 1].tail \in Nat
          BY <1>1, <2>1, <2>2, <5>1 DEF LabelsInv, Level, Tiles
        <5>3. words[W - 1].tail <= u
          BY <2>3, <2>9, <5>2
        <5> QED BY <4>1, <5>1, <5>3 DEF MorasUpTo
      <4> QED BY <4>2, <4>3
    <3>2. \A x \in 1..Joined : words'[x].head = words[x].head /\ words'[x].tail = words[x].tail
      BY <1>3
    <3>3. MorasKept(phonemes, moras, phonemes', moras', u)
      BY <1>3, <2>6, <2>10
    <3> QED BY <1>1, <1>2, <1>3, <3>1, <3>2, <3>3, JoinedStay
  <2>15. SaidNow' = Hear(SaidNow, "unvoice")
    <3>1. PICK b \in Nat : b = m - h /\ b + 1 = m - h + 1 /\ h + b - 1 = u /\ h + b = m /\ h + b - 1 <= m
      <4>1. m - h \in Nat /\ (m - h) + 1 = m - h + 1 /\ h + (m - h) - 1 = m - 1 /\ h + (m - h) = m
        BY <2>3
      <4> QED BY <2>9, <4>1
    <3>2. SaidNow = Said(phonemes, moras, h, b + 1) /\ SaidNow' = Said(new, moras, h, b + 1)
      BY <1>3, <1>6, <2>1, <2>3, <2>6, <3>1 DEF SaidNow, WordSays
    <3>3. PICK before \in Seq(Seq(Sound)), last \in Seq(Sound), now \in Seq(Sound) :
            /\ before = Said(phonemes, moras, h, b)
            /\ last = SoundsAt(phonemes, moras, m) /\ now = SoundsAt(new, moras, m)
      <4>1. SaidListed(phonemes, moras, h, b)
        BY <2>1, <2>7, <3>1, SaidTyped
      <4>2. SoundsAt(phonemes, moras, m) \in Seq(Sound) /\ SoundsAt(new, moras, m) \in Seq(Sound)
        BY <2>1, <2>4, <2>7, SoundsTyped
      <4> QED BY <4>1, <4>2 DEF SaidListed
    <3>4. SaidNow = Append(before, last)
      <4>1. MorasKept(phonemes, moras, phonemes, moras, h + b - 1)
        BY DEF MorasKept
      <4> QED BY <2>1, <2>7, <3>1, <3>2, <3>3, <4>1, SaidMore, SMTT(60)
    <3>5. SaidNow' = Append(before, now)
      <4>1. MorasKept(phonemes, moras, new, moras, h + b - 1)
        BY <2>10, <3>1
      <4> QED BY <2>1, <2>7, <3>1, <3>2, <3>3, <4>1, SaidMore, SMTT(60)
    <3>6. now = Unvoiced(last)
      <4>1. m \in 1..Len(moras) /\ n \in Nat \ {0}
        BY <2>1, <2>4
      <4>2. SoundsAt(new, moras, m) = Unvoiced(SoundsAt(phonemes, moras, m))
        BY <2>5, <2>7, <2>8, <4>1, MoraUnvoiced
      <4> QED BY <3>3, <4>2
    <3>7. Front(SaidNow) = before /\ Last(SaidNow) = last /\ SaidNow # <<>>
      <4>1. EndsIn(Append(before, last), before, last)
        BY <3>3, FrontOfLonger
      <4> QED BY <3>4, <4>1 DEF EndsIn
    <3>8. Hear(SaidNow, "unvoice") = Append(Front(SaidNow), Unvoiced(Last(SaidNow)))
      BY <3>7 DEF Hear, Unvoiced
    <3> QED BY <3>5, <3>6, <3>7, <3>8
  <2>16. WordHeard'
    BY <1>1, <1>3, <2>15, TokenHeard
  <2>17. UtteranceInv'
    <3>1. Open' => ~shortPause' /\ words'[Len(words')].up = 0
      BY <1>1, <1>3, <1>4
    <3> QED BY <1>2, <2>12, <2>13, <2>16, <3>1 DEF UtteranceInv
  <2>18. PauseDueNow' <=> PauseDueNow
    <3>1. h \in 1..m
      BY <2>3
    <3>2. PauseAt(new, moras, h) <=> PauseAt(phonemes, moras, h)
      BY <2>11, <3>1
    <3> QED BY <1>3, <1>4, <1>6, <2>1, <2>3, <2>6, <3>2 DEF PauseDueNow
  <2>19. PendingNow' <=> PendingNow
    BY <2>17, <2>18, PendingWhen, PendingWhenNext
  <2> QED BY <2>14, <2>17, <2>19, SMTT(60) DEF Refined
<1> QED BY <1>5, <1>6

-----------------------------------------------------------------------------
(* Questions.                                                              *)

\* What is asked is the last phrase.
LEMMA LastIsAsked ==
  ASSUME LabelsInv, Follow(phonemes, moras), ~Open, phonemes # <<>>
  PROVE  Asked = Len(accents) /\ accents # <<>> /\ breaths # <<>>
<1>1. PICK n \in Nat, m \in Nat, W \in Nat : n = Len(phonemes) /\ m = Len(moras) /\ W = Len(words)
  BY Sizes, ZenonT(60)
<1>2. /\ phonemes \in Seq(PhonemeType) /\ moras \in Seq(MoraType) /\ words \in Seq(WordNode)
      /\ accents \in Seq(AccentNode)
      /\ Level(words, moras, m) /\ Level(accents, words, W)
  <2>1. Joined = W
    BY <1>1 DEF Joined
  <2> QED BY <1>1, <2>1 DEF LabelsInv, TypeOK
<1>3. breaths # <<>> /\ words # <<>> /\ moras # <<>>
  BY SomeOfAll
<1>4. m \in Nat \ {0} /\ W \in Nat \ {0} /\ m \in 1..m
  <2>1. m # 0 /\ W # 0
    BY <1>1, <1>2, <1>3, Listed
  <2> QED BY <2>1
<1>5. ~EndsWithPause
  BY NoPauseLast
<1>6. phonemes[n].up = m
  <2>1. moras[m].tail = n
    BY <1>1 DEF Follow
  <2>2. PICK j \in Nat : j = moras[m].head /\ j <= n
    <3>1. moras[m] \in MoraType /\ moras[m].head <= moras[m].tail
      BY <1>1, <1>2, <1>4 DEF LabelsInv, SoundsInv
    <3> QED BY <2>1, <3>1 DEF MoraType
  <2>3. n \in j..n
    BY <2>2
  <2> QED BY <1>1, <1>4, <2>1, <2>2, <2>3 DEF LabelsInv, SoundsInv
<1>7. moras[m].up = W
  BY <1>1, <1>2, <1>4, LastUnderLast
<1>8. words[W].up = Len(accents) /\ accents # <<>>
  BY <1>2, <1>4, LastUnderLast
<1> QED BY <1>1, <1>3, <1>5, <1>6, <1>7, <1>8 DEF Asked

\* A phrase record that asks.
LEMMA OtherQuestion ==
  ASSUME NEW said, NEW mark, NEW asked, NEW now
  PROVE  [[moras |-> said, accent |-> mark, question |-> asked] EXCEPT !.question = now]
           = [moras |-> said, accent |-> mark, question |-> now]
<1>1. PICK r, t : r = [moras |-> said, accent |-> mark, question |-> asked] /\ t = [r EXCEPT !.question = now]
  OBVIOUS
<1>2. /\ t.moras = said /\ t.accent = mark /\ t.question = now
      /\ DOMAIN t = {"moras", "accent", "question"}
  BY <1>1
<1>3. t = [f \in {"moras", "accent", "question"} |-> t[f]]
  BY <1>1
<1> QED BY <1>1, <1>2, <1>3

\* A question is asked of the last phrase, and a pause is due after it.
LEMMA SaysPushQuestion == UtteranceInv /\ PushQuestion => UtteranceInv' /\ Refined
<1> SUFFICES ASSUME UtteranceInv, PushQuestion PROVE UtteranceInv' /\ Refined
  OBVIOUS
<1>1. /\ LabelsInv /\ LabelsInv' /\ Follow(phonemes, moras)
      /\ PausesAtHeads(phonemes, moras, words)
  BY StepPushQuestion DEF UtteranceInv
<1>2. /\ phonemes' = phonemes /\ moras' = moras /\ words' = words /\ breaths' = breaths
      /\ shortPause' = TRUE /\ status = "idle" /\ status' = "idle"
      /\ accents' = IF phonemes = <<>> THEN accents ELSE [accents EXCEPT ![Asked].question = TRUE]
  BY DEF PushQuestion, Push
<1>3. ~Open /\ ~Open' /\ WordHeard'
  BY <1>2 DEF Open, WordHeard
<1>4. UtteranceInv'
  BY <1>1, <1>2, <1>3 DEF UtteranceInv
<1>5. PendingNow' <=> breaths # <<>>
  <2>1. PauseDueNow' <=> breaths # <<>>
    BY <1>2, <1>3 DEF PauseDueNow
  <2> QED BY <1>4, <2>1, PendingWhenNext
<1>6. CASE phonemes = <<>>
  <2>1. breaths = <<>>
    BY <1>1, <1>3, <1>6, SomeOfAll
  <2>2. PhrasesNow' = PhrasesNow
    BY <1>2, <1>6 DEF PhrasesNow
  <2>3. GroupsNow' = GroupsNow
    BY <1>1, <1>2, <2>2, NothingSaid
  <2>4. ~PendingNow
    <3>1. ~PauseDueNow
      BY <1>3, <2>1 DEF PauseDueNow
    <3> QED BY <3>1, PendingWhen
  <2> QED BY <1>4, <1>5, <2>1, <2>3, <2>4 DEF Refined
<1>7. CASE phonemes # <<>>
  <2>1. Asked = Len(accents) /\ accents # <<>> /\ breaths # <<>>
    BY <1>1, <1>3, <1>7, LastIsAsked
  <2>2. PICK A \in Nat \ {0} : A = Len(accents) /\ accents \in Seq(AccentNode)
    <3>1. accents \in Seq(AccentNode)
      BY <1>1 DEF LabelsInv, TypeOK
    <3>2. Len(accents) \in Nat \ {0}
      BY <2>1, <3>1, Listed
    <3> QED BY <3>1, <3>2
  <2>3. A \in 1..A /\ accents[A] \in AccentNode
    BY <2>2
  <2>4. PICK nas, r : nas = accents' /\ r = [accents[A] EXCEPT !.question = TRUE]
    OBVIOUS
  <2>5. /\ r \in AccentNode /\ r.head = accents[A].head /\ r.tail = accents[A].tail
        /\ r.accent = accents[A].accent /\ r.question = TRUE
    BY <2>3, <2>4 DEF AccentNode
  <2>6. nas = [accents EXCEPT ![A] = r]
    BY <1>2, <1>7, <2>1, <2>2, <2>4
  <2>7. Len(nas) = A /\ nas[A] = r /\ \A a \in 1..A : a # A => nas[a] = accents[a]
    BY <2>2, <2>3, <2>5, <2>6, LastChanged
  <2>8. /\ Whole(phonemes, moras, words, accents, breaths, Joined)
        /\ Whole(phonemes, moras, words, nas, breaths, Joined')
    BY <1>1, <1>2, <2>4, ListsWhole, ListsWholeNext DEF WholeNow
  <2>9. \A a \in 1..A : a # A =>
          PhraseAt(phonemes, moras, words, nas, a) = PhraseAt(phonemes, moras, words, accents, a)
    BY <2>7 DEF PhraseAt, FirstAt, CountAt
  <2>10. PICK old \in PhraseSet :
           old = PhraseAt(phonemes, moras, words, accents, A) /\ U!LastPhrase = old
    <3>1. A \in 1..Len(accents)
      BY <2>2, <2>3
    <3>2. /\ PhrasesNow \in Seq(PhraseSet) /\ Len(PhrasesNow) = Len(accents)
          /\ PhrasesNow[A] = PhraseAt(phonemes, moras, words, accents, A)
          /\ U!LastPhrase = PhrasesNow[A]
      BY <1>1, <2>1, <2>2, <3>1, PhrasesThere
    <3>3. PhrasesNow[A] \in PhraseSet
      BY <3>1, <3>2, ElementOfSeq
    <3> QED BY <3>2, <3>3
  <2>11. PICK asked \in PhraseSet :
           asked = PhraseAt(phonemes, moras, words, nas, A) /\ asked = [old EXCEPT !.question = TRUE]
    <3>1. PICK said, mark, open : said = old.moras /\ mark = old.accent /\ open = old.question
      OBVIOUS
    <3>2. /\ old = [moras |-> said, accent |-> mark, question |-> open]
          /\ said \in Seq(Seq(Sound)) /\ mark \in Nat
      BY <3>1 DEF PhraseSet
    <3>3. [old EXCEPT !.question = TRUE] = [moras |-> said, accent |-> mark, question |-> TRUE]
      <4>1. [[moras |-> said, accent |-> mark, question |-> open] EXCEPT !.question = TRUE]
              = [moras |-> said, accent |-> mark, question |-> TRUE]
        BY OtherQuestion, ZenonT(60)
      <4> QED BY <3>2, <4>1
    <3>4. /\ FirstAt(words, nas, A) = FirstAt(words, accents, A)
          /\ CountAt(words, nas, A) = CountAt(words, accents, A)
      BY <2>5, <2>7 DEF FirstAt, CountAt
    <3>5. /\ said = FlattenSeq(ItemsAt(phonemes, moras, FirstAt(words, accents, A), CountAt(words, accents, A)))
          /\ mark = accents[A].accent
      BY <2>10, <3>1 DEF PhraseAt
    <3>6. PhraseAt(phonemes, moras, words, nas, A) = [moras |-> said, accent |-> mark, question |-> TRUE]
      BY <2>5, <2>7, <3>4, <3>5 DEF PhraseAt
    <3>7. [moras |-> said, accent |-> mark, question |-> TRUE] \in PhraseSet
      BY <3>2 DEF PhraseSet
    <3> QED BY <3>3, <3>6, <3>7
  <2>12. PhrasesNow' = LastReplaced(PhrasesNow, asked)
    <3>1. PhrasesAt(phonemes, moras, words, nas) =
            LastReplaced(PhrasesAt(phonemes, moras, words, accents), PhraseAt(phonemes, moras, words, nas, A))
      BY <2>1, <2>2, <2>7, <2>8, <2>9, ListLast
    <3> QED BY <1>2, <2>4, <2>11, <3>1 DEF PhrasesNow
  <2>13. GroupsNow' = U!WithLast(asked)
    BY <1>1, <1>2, <2>1, <2>12, LastSaid
  <2>14. GroupsNow # <<>>
    BY <1>1, <2>1, PhrasesThere
  <2>15. PendingNow' = TRUE
    <3>1. PendingNow' \in BOOLEAN
      BY DEF PendingNow
    <3> QED BY <1>5, <2>1, <3>1
  <2>16. U!Question
    BY <2>10, <2>11, <2>13, <2>14, <2>15 DEF U!Question
  <2> QED BY <1>4, <2>16 DEF Refined, U!Next
<1> QED BY <1>6, <1>7

-----------------------------------------------------------------------------
(* Words that join.                                                        *)

\* The word that joins changes neither its moras nor those of others.
WordsStay ==
  /\ phonemes' = phonemes /\ moras' = moras /\ Len(words') = Len(words)
  /\ \A u \in 1..Len(words) : words'[u].head = words[u].head /\ words'[u].tail = words[u].tail

\* After the word has joined nothing is pending.
LEMMA JoinKeeps ==
  ASSUME UtteranceInv, LabelsInv', Finish, ~NothingPushed, Attached, NEW u \in Nat, Under(u)
  PROVE  UtteranceInv' /\ ~PendingNow' /\ WordsStay
<1>1. /\ LabelsInv /\ Follow(phonemes, moras) /\ PausesAtHeads(phonemes, moras, words)
      /\ (Open => ~shortPause) /\ ~EndsWithPause
  BY NoPauseLast DEF UtteranceInv
<1>2. /\ phonemes' = phonemes /\ moras' = moras /\ shortPause' = shortPause /\ status = "word"
      /\ status' = "idle" /\ ~first
  BY <1>1 DEF Finish, NothingPushed, Attached
<1>3. Open /\ ~Open' /\ ~shortPause' /\ WordHeard'
  BY <1>1, <1>2 DEF Open, WordHeard
<1>4. WordsStay
  <2>1. PICK W \in Nat : W = Len(words)
    BY <1>1, Sizes
  <2>2. words \in Seq(WordNode) /\ W \in 1..W /\ words[W] \in WordNode
    <3>1. words \in Seq(WordNode) /\ words # <<>>
      BY <1>1, <1>3 DEF LabelsInv, TypeOK
    <3>2. W # 0
      BY <2>1, <3>1, Listed
    <3> QED BY <2>1, <3>1, <3>2
  <2>3. PICK r, nws : r = [words[W] EXCEPT !.up = u] /\ nws = words'
    OBVIOUS
  <2>4. r \in WordNode /\ r.head = words[W].head /\ r.tail = words[W].tail
    BY <2>2, <2>3 DEF WordNode
  <2>5. nws = [words EXCEPT ![W] = r]
    BY <2>1, <2>3 DEF Under, Newest
  <2>6. Len(nws) = W /\ nws[W] = r /\ \A k \in 1..W : k # W => nws[k] = words[k]
    BY <2>1, <2>2, <2>4, <2>5, LastChanged
  <2> QED BY <1>2, <2>1, <2>3, <2>4, <2>6 DEF WordsStay
<1>5. PausesAtHeads(phonemes', moras', words')
  <2>1. ASSUME NEW x \in 1..Len(moras) PROVE moras[x].up \in 1..Len(words)
    BY <1>1 DEF LabelsInv, Level
  <2> QED BY <1>1, <1>4, <2>1 DEF WordsStay, PausesAtHeads
<1>6. UtteranceInv'
  BY <1>1, <1>2, <1>3, <1>5 DEF UtteranceInv
<1>7. ~PauseDueNow'
  BY <1>3 DEF PauseDueNow
<1> QED BY <1>4, <1>6, <1>7, PendingWhenNext

AllSayings == {[moras |-> Heard(w.pron), accent |-> w.accent, chain |-> w.chain]
                 : w \in {v \in Words : Heard(v.pron) # <<>>}}

\* The word is one of those that can be said, and lies at the end of the moras.
NewestSays(h, d, said) ==
  /\ h + d = Len(moras) + 1 /\ words[Len(words)].head = h /\ words[Len(words)].tail = Len(moras)
  /\ said \in AllSayings /\ said.moras = Said(phonemes, moras, h, d)
  /\ said.accent = word.accent /\ said.chain = word.chain
  /\ PendingNow <=> PauseAt(phonemes, moras, h)
  /\ \A x \in h + 1..h + d - 1 : ~PauseAt(phonemes, moras, x)

\* What has been pushed of the word by then is one of the sayings.
LEMMA WordIsSaid ==
  ASSUME LabelAssumption, UtteranceInv, Finish, ~NothingPushed
  PROVE  \E h, d \in Nat \ {0} : \E said : NewestSays(h, d, said)
<1>1. /\ LabelsInv /\ TypeOK /\ WordHeard /\ PausesAtHeads(phonemes, moras, words)
      /\ status = "word" /\ ~first /\ word.pron = <<>> /\ Open /\ words # <<>>
  BY DEF UtteranceInv, LabelsInv, Finish, NothingPushed, Open
<1>2. PICK m \in Nat, W \in Nat : m = Len(moras) /\ W = Len(words) /\ W \in 1..W
  <2>1. words \in Seq(WordNode)
    BY <1>1 DEF TypeOK
  <2>2. Len(words) # 0 /\ Len(words) \in Nat /\ Len(moras) \in Nat
    BY <1>1, <2>1, Listed, Sizes
  <2>3. Len(words) \in 1..Len(words)
    BY <2>2
  <2> QED BY <2>2, <2>3
<1>3. PICK h \in Nat \ {0} : h = words[W].head /\ h <= m /\ words[W].tail = m
  <2>1. W \in DOMAIN words
    BY <1>1, <1>2, Sizes
  <2>2. words[W].head \in Nat /\ 1 <= words[W].head /\ words[W].head <= words[W].tail /\ words[W].tail = m
    BY <1>1, <1>2, <2>1 DEF LabelsInv, Level, Tiles
  <2> QED BY <2>2
<1>4. PICK d \in Nat \ {0} : d = m - h + 1 /\ h + d = m + 1 /\ h + d - 1 = m
  <2>1. m - h + 1 \in Nat \ {0} /\ h + (m - h + 1) = m + 1 /\ h + (m - h + 1) - 1 = m
    BY <1>3
  <2> QED BY <2>1
<1>5. SaidNow = Said(phonemes, moras, h, d)
  BY <1>1, <1>2, <1>3, <1>4 DEF SaidNow, WordSays
<1>6. SaidNow # <<>>
  <2>1. MorasIn(phonemes, moras)
    BY <1>1, ListsWhole DEF WholeNow, Whole
  <2>2. h + d - 1 <= Len(moras)
    BY <1>2, <1>4
  <2>3. SaidListed(phonemes, moras, h, d)
    BY <2>1, <2>2, SaidTyped
  <2>4. PICK all : all = Said(phonemes, moras, h, d)
    OBVIOUS
  <2>5. all \in Seq(Seq(Sound)) /\ Len(all) = d
    BY <2>3, <2>4 DEF SaidListed
  <2>6. all = <<>> <=> Len(all) = 0
    BY <2>5, Listed
  <2> QED BY <1>5, <2>4, <2>5, <2>6
<1>7. PICK w \in Words : word.accent = w.accent /\ word.chain = w.chain /\ Heard(w.pron) = SaidNow
  BY <1>1, WholeHeard
<1>8. PICK said : said = [moras |-> Heard(w.pron), accent |-> w.accent, chain |-> w.chain]
  OBVIOUS
<1>9. said \in AllSayings
  BY <1>6, <1>7, <1>8 DEF AllSayings
<1>10. said.moras = Said(phonemes, moras, h, d) /\ said.accent = word.accent /\ said.chain = word.chain
  BY <1>5, <1>7, <1>8
<1>11. PendingNow <=> PauseAt(phonemes, moras, h)
  <2>1. PauseDueNow <=> PauseAt(phonemes, moras, h)
    BY <1>1, <1>2, <1>3 DEF PauseDueNow
  <2> QED BY <2>1, PendingWhen
<1>12. ASSUME NEW x \in h + 1..m PROVE ~PauseAt(phonemes, moras, x)
  <2>1. x \in h..m /\ x \in 1..m /\ x # h
    BY <1>3
  <2>2. W \in DOMAIN words
    BY <1>1, <1>2, Sizes
  <2>3. moras[x].up = W
    BY <1>1, <1>2, <1>3, <2>1, <2>2 DEF LabelsInv, Level, Parents
  <2> QED BY <1>1, <1>2, <1>3, <2>1, <2>3 DEF PausesAtHeads
<1> QED BY <1>2, <1>3, <1>4, <1>9, <1>10, <1>11, <1>12, ZenonT(60) DEF NewestSays

\* A pause is between two words when there is one before the later one.
LEMMA PauseIsBetween ==
  ASSUME LabelsInv, Follow(phonemes, moras), Newest # 1, words # <<>>, NEW h \in Nat \ {0},
         words[Len(words)].head = h, words[Len(words)].tail = Len(moras)
  PROVE  PauseBetween <=> PauseAt(phonemes, moras, h)
<1>1. PICK n \in Nat, m \in Nat, W \in Nat : n = Len(phonemes) /\ m = Len(moras) /\ W = Len(words)
  BY Sizes, ZenonT(60)
<1>2. PICK V \in Nat \ {0} : V = W - 1 /\ V + 1 = W /\ V \in 1..W - 1 /\ V \in 1..W /\ W \in 1..W
  <2>1. W # 0 /\ W # 1
    BY <1>1, Listed DEF LabelsInv, TypeOK, Newest
  <2>2. W - 1 \in Nat \ {0} /\ (W - 1) + 1 = W /\ W - 1 \in 1..W - 1 /\ W - 1 \in 1..W /\ W \in 1..W
    BY <2>1
  <2> QED BY <2>2
<1>3. words[V + 1].head = words[V].tail + 1 /\ words[V].tail \in Nat /\ words[V].tail >= 1
  <2>1. DOMAIN words = 1..W
    BY <1>1, Sizes
  <2>2. words[V].head \in Nat /\ words[V].tail \in Nat /\ 1 <= words[V].head /\ words[V].head <= words[V].tail
    BY <1>1, <1>2, <2>1 DEF LabelsInv, Level, Tiles
  <2>3. words[V + 1].head = words[V].tail + 1
    BY <1>1, <1>2 DEF LabelsInv, Level, Tiles
  <2> QED BY <2>2, <2>3
<1>4. PICK g \in Nat \ {0} : g = words[V].tail /\ h = g + 1
  BY <1>1, <1>2, <1>3, SMTT(60)
<1>5. h <= m
  <2>1. W \in DOMAIN words
    BY <1>1, <1>2, Sizes
  <2>2. words[W].head <= words[W].tail
    BY <1>1, <2>1 DEF LabelsInv, Level, Tiles
  <2> QED BY <1>1, <2>2
<1>6. g \in 1..m /\ g + 1 \in 1..m
  BY <1>4, <1>5
<1>7. PICK t \in Nat, i \in Nat, j \in Nat :
        /\ t = moras[g].tail /\ i = moras[g + 1].head /\ j = moras[g + 1].tail
        /\ 1 <= t /\ t <= n /\ i <= j /\ j <= n
  <2>1. moras[g] \in MoraType /\ moras[g + 1] \in MoraType
    BY <1>1, <1>6 DEF LabelsInv, TypeOK
  <2>2. /\ 1 <= moras[g].head /\ moras[g].head <= moras[g].tail /\ moras[g].tail <= n
        /\ moras[g + 1].head <= moras[g + 1].tail /\ moras[g + 1].tail <= n
    BY <1>1, <1>6 DEF LabelsInv, SoundsInv
  <2>3. moras[g].head \in Nat /\ moras[g].tail \in Nat /\ moras[g + 1].head \in Nat /\ moras[g + 1].tail \in Nat
    BY <2>1 DEF MoraType
  <2>4. 1 <= moras[g].tail
    BY <2>2, <2>3
  <2> QED BY <2>2, <2>3, <2>4
<1>8. i = t + (IF PauseAt(phonemes, moras, g + 1) THEN 2 ELSE 1)
  BY <1>1, <1>6, <1>7 DEF Follow
<1>9. PauseBetween <=> phonemes[t + 1] = pau
  BY <1>1, <1>2, <1>4, <1>7 DEF PauseBetween, Newest
<1>10. CASE PauseAt(phonemes, moras, g + 1)
  <2>1. phonemes[i - 1] = pau
    BY <1>7, <1>10 DEF PauseAt
  <2>2. i - 1 = t + 1
    BY <1>7, <1>8, <1>10
  <2> QED BY <1>4, <1>9, <1>10, <2>1, <2>2
<1>11. CASE ~PauseAt(phonemes, moras, g + 1)
  <2>1. t + 1 = i /\ i \in i..j /\ i \in 1..n
    BY <1>7, <1>8, <1>11, SMTT(60)
  <2>2. phonemes[i].up = g + 1
    BY <1>1, <1>6, <1>7, <2>1 DEF LabelsInv, SoundsInv
  <2>3. g + 1 # 0
    BY <1>4
  <2>4. phonemes[i] # pau
    BY <1>1, <2>1, <2>2, <2>3, IsPause DEF Sounding
  <2> QED BY <1>4, <1>9, <1>11, <2>1, <2>4
<1> QED BY <1>10, <1>11

-----------------------------------------------------------------------------
(* A phrase more: the phrases before it say what they said.                *)
LEMMA PhraseAdded ==
  ASSUME LabelsInv, LabelsInv', WordsStay, NEW b, accents' = NewAccent(b),
         JoinFacts(Len(accents) + 1), NEW h \in Nat \ {0}, NEW d \in Nat \ {0}, NEW said,
         NewestSays(h, d, said)
  PROVE  /\ Added(PhraseSet, PhrasesNow, NewPhraseOf(said.moras, said.accent), PhrasesNow')
         /\ NewPhraseOf(said.moras, said.accent) \in PhraseSet
<1>1. PICK m \in Nat, W \in Nat, A \in Nat : m = Len(moras) /\ W = Len(words) /\ A = Len(accents)
  BY Sizes, ZenonT(60)
<1>2. W \in 1..W /\ accents \in Seq(AccentNode) /\ words # <<>>
  <2>1. words # <<>> /\ words \in Seq(WordNode) /\ accents \in Seq(AccentNode)
    BY DEF JoinFacts, LabelsInv, TypeOK
  <2>2. W # 0
    BY <1>1, <2>1, Listed
  <2> QED BY <2>1, <2>2
<1>3. PICK r, nas, nws : /\ nas = accents' /\ nws = words'
                         /\ r = [head |-> W, tail |-> W, up |-> b, accent |-> word.accent, question |-> FALSE]
  OBVIOUS
<1>4. /\ r.head = W /\ r.tail = W /\ r.accent = word.accent /\ r.question = FALSE
      /\ nas = Append(accents, r)
  BY <1>1, <1>3 DEF NewAccent, Newest
<1>5. Len(nas) = A + 1 /\ nas[A + 1] = r /\ \A a \in 1..A : nas[a] = accents[a]
  BY <1>1, <1>2, <1>4
<1>6. \A u \in 1..W : nws[u].head = words[u].head /\ nws[u].tail = words[u].tail
  BY <1>1, <1>3 DEF WordsStay
<1>7. /\ Whole(phonemes, moras, words, accents, breaths, Joined)
      /\ Whole(phonemes, moras, nws, nas, breaths', Joined')
      /\ MorasIn(phonemes, moras)
  BY <1>3, ListsWhole, ListsWholeNext DEF WholeNow, Whole, WordsStay
<1>8. MorasKept(phonemes, moras, phonemes, moras, m)
  BY DEF MorasKept
<1>9. ASSUME NEW a \in 1..A
      PROVE  PhraseAt(phonemes, moras, nws, nas, a) = PhraseAt(phonemes, moras, words, accents, a)
  <2>1. InPhrase(moras, words, accents, Joined, a)
    BY <1>1, <1>7, PhraseRange
  <2>2. /\ accents[a].head \in 1..W /\ accents[a].tail \in 1..W /\ words[accents[a].tail].tail <= m
    <3>1. Joined = W - 1 /\ \A x \in 1..W - 1 : x \in 1..W
      BY <1>1 DEF JoinFacts
    <3>2. accents[a].head \in 1..W /\ accents[a].tail \in 1..W
      BY <2>1, <3>1 DEF InPhrase
    <3>3. words[accents[a].tail].tail <= m
      BY <1>1, <3>2 DEF LabelsInv, Level
    <3> QED BY <3>2, <3>3
  <2>3. SamePhrase(words, accents, nws, nas, a)
    BY <1>5, <1>6, <2>2 DEF SamePhrase, SameMarks
  <2> QED BY <1>1, <1>7, <1>8, <2>2, <2>3, PhraseSame
<1>10. PICK new : new = PhraseAt(phonemes, moras, nws, nas, A + 1)
  OBVIOUS
<1>11. new = NewPhraseOf(said.moras, said.accent)
  <2>1. nws[W].head = h /\ nws[W].tail = m /\ h + d = m + 1
    BY <1>1, <1>2, <1>6 DEF NewestSays
  <2>2. FirstAt(nws, nas, A + 1) = h /\ CountAt(nws, nas, A + 1) = d
    <3>1. m - h + 1 = d
      BY <1>1, <2>1
    <3> QED BY <1>4, <1>5, <2>1, <3>1 DEF FirstAt, CountAt
  <2>3. h + d - 1 <= Len(moras) /\ \A x \in h + 1..h + d - 1 : ~PauseAt(phonemes, moras, x)
    <3>1. h + d - 1 = m
      BY <1>1, <2>1
    <3> QED BY <1>1, <3>1 DEF NewestSays
  <2>4. nas[A + 1].question = FALSE /\ nas[A + 1].accent = said.accent
    BY <1>4, <1>5 DEF NewestSays
  <2>5. PICK B : B = A + 1
    OBVIOUS
  <2>6. FirstAt(nws, nas, B) = h /\ CountAt(nws, nas, B) = d /\ nas[B].question = FALSE
    BY <2>2, <2>4, <2>5
  <2>7. OpensPhrase(phonemes, moras, nws, nas, B, h, d)
    BY <1>7, <2>3, <2>6 DEF OpensPhrase
  <2>8. PhraseAt(phonemes, moras, nws, nas, B) =
          NewPhraseOf(Said(phonemes, moras, h, d), nas[B].accent)
    BY <2>7, PhraseNew
  <2> QED BY <1>10, <2>4, <2>5, <2>8 DEF NewestSays
<1>12. Added(PhraseSet, PhrasesNow, new, PhrasesNow')
  <2>1. Added(PhraseSet, PhrasesAt(phonemes, moras, words, accents),
              PhraseAt(phonemes, moras, nws, nas, A + 1), PhrasesAt(phonemes, moras, nws, nas))
    BY <1>1, <1>5, <1>7, <1>9, ListAdded
  <2> QED BY <1>3, <1>10, <2>1 DEF PhrasesNow, WordsStay
<1>13. new \in PhraseSet
  <2>1. /\ PhrasesNow' \in Seq(PhraseSet) /\ Len(PhrasesNow') = A + 1 /\ PhrasesNow'[A + 1] = new
    <3>1. Len(PhrasesNow) = A
      BY <1>1, PhrasesThere
    <3> QED BY <1>12, <3>1 DEF Added
  <2>2. A + 1 \in 1..Len(PhrasesNow')
    BY <1>1, <2>1
  <2>3. PhrasesNow'[A + 1] \in PhraseSet
    BY <2>1, <2>2, ElementOfSeq
  <2> QED BY <2>1, <2>3
<1> QED BY <1>11, <1>12, <1>13

\* A phrase in a group of its own, or at the end of the last one.
LEMMA GroupSaid ==
  ASSUME LabelsInv, LabelsInv', NEW phrase \in PhraseSet,
         Added(PhraseSet, PhrasesNow, phrase, PhrasesNow')
  PROVE  /\ Opened(breaths, breaths', Len(accents) + 1) => GroupsNow' = Append(GroupsNow, <<phrase>>)
         /\ breaths # <<>> /\ Longer(breaths, breaths', Len(accents) + 1)
              => GroupsNow' = [GroupsNow EXCEPT ![Len(GroupsNow)] = Append(@, phrase)]
<1>1. PICK list, other, new : list = PhrasesNow /\ other = PhrasesNow' /\ new = breaths'
  OBVIOUS
<1>2. /\ list \in Seq(PhraseSet) /\ Len(list) = Len(accents)
      /\ breaths \in Seq(BreathNode) /\ Level(breaths, accents, Len(list))
  BY <1>1, PhrasesThere DEF LabelsInv, TypeOK
<1>3. Added(PhraseSet, list, phrase, other)
  BY <1>1
<1>4. GroupsNow = GroupsOf(list, breaths) /\ GroupsNow' = GroupsOf(other, new)
  BY <1>1, GroupsByPhrases, GroupsByPhrasesNext
<1>5. ASSUME Opened(breaths, breaths', Len(accents) + 1)
      PROVE  GroupsNow' = Append(GroupsNow, <<phrase>>)
  <2>1. Opened(breaths, new, Len(list) + 1)
    BY <1>1, <1>2, <1>5
  <2>2. GroupsOf(other, new) = Append(GroupsOf(list, breaths), <<phrase>>)
    BY <1>2, <1>3, <2>1, GroupsMore
  <2> QED BY <1>4, <2>2
<1>6. ASSUME breaths # <<>>, Longer(breaths, breaths', Len(accents) + 1)
      PROVE  GroupsNow' = [GroupsNow EXCEPT ![Len(GroupsNow)] = Append(@, phrase)]
  <2>1. Longer(breaths, new, Len(list) + 1)
    BY <1>1, <1>2, <1>6
  <2>2. GroupsOf(other, new) = LongerLast(GroupsOf(list, breaths), phrase)
    BY <1>2, <1>3, <1>6, <2>1, GroupsLonger
  <2> QED BY <1>4, <2>2 DEF LongerLast
<1> QED BY <1>5, <1>6

\* A word that is said is a step of the utterance.
LEMMA WordIsStep ==
  ASSUME NEW said \in AllSayings, U!Word(said)
  PROVE  U!Next
BY DEF AllSayings, U!Next

-----------------------------------------------------------------------------
\* The first word opens a phrase and a group, whatever its chain_flag is.
LEMMA SaysFirstWord == LabelAssumption /\ UtteranceInv /\ FirstWord => UtteranceInv' /\ Refined
<1> SUFFICES ASSUME LabelAssumption, UtteranceInv, FirstWord PROVE UtteranceInv' /\ Refined
  OBVIOUS
<1>1. LabelsInv /\ LabelsInv'
  BY StepFirstWord DEF UtteranceInv
<1>2. /\ Finish /\ ~NothingPushed /\ Attached /\ Under(1) /\ accents' = NewAccent(1)
      /\ breaths' = << [head |-> 1, tail |-> 1] >> /\ Len(words) = 1
  BY DEF FirstWord, Newest
<1>3. JoinFacts(1) /\ UtteranceInv' /\ ~PendingNow' /\ WordsStay
  BY <1>1, <1>2, WordJoins, JoinKeeps
<1>4. accents = <<>> /\ breaths = <<>>
  <2>1. accents \in Seq(AccentNode) /\ Level(accents, words, 0)
    BY <1>1, <1>2, <1>3 DEF JoinFacts, LabelsInv, TypeOK
  <2>2. SUFFICES ASSUME accents # <<>> PROVE FALSE
    BY <1>1, PhrasesThere
  <2>3. 1 \in 1..Len(accents) /\ DOMAIN accents = 1..Len(accents)
    BY <2>1, <2>2, Listed
  <2>4. /\ accents[1].head \in Nat /\ accents[1].tail \in Nat /\ 1 <= accents[1].head
        /\ accents[1].tail <= 0 /\ accents[1].head <= accents[1].tail
    BY <2>1, <2>2, <2>3 DEF Level, Tiles
  <2> QED BY <2>4
<1>5. PICK h \in Nat \ {0}, d \in Nat \ {0} : \E said : NewestSays(h, d, said)
  BY <1>2, WordIsSaid
<1>6. PICK said : NewestSays(h, d, said)
  BY <1>5
<1>7. PICK phrase : phrase = NewPhraseOf(said.moras, said.accent)
  OBVIOUS
<1>8. Added(PhraseSet, PhrasesNow, phrase, PhrasesNow') /\ phrase \in PhraseSet
  <2>1. Len(accents) + 1 = 1
    BY <1>4
  <2> QED BY <1>1, <1>2, <1>3, <1>6, <1>7, <2>1, PhraseAdded
<1>9. GroupsNow = <<>>
  BY <1>1, <1>4, PhrasesThere
<1>10. GroupsNow' = Append(GroupsNow, <<phrase>>)
  <2>1. PICK r, new : r = [head |-> 1, tail |-> 1] /\ new = breaths'
    OBVIOUS
  <2>2. new = <<r>> /\ r.head = 1 /\ r.tail = 1
    BY <1>2, <2>1
  <2>3. Len(new) = 1 /\ new[1] = r
    BY <2>2
  <2>4. Len(breaths) = 0 /\ Len(accents) = 0 /\ 0 + 1 = 1 /\ \A k \in 1..0 : FALSE
    BY <1>4
  <2>5. Opened(breaths, new, Len(accents) + 1)
    BY <2>2, <2>3, <2>4 DEF Opened, SameBounds
  <2>6. Opened(breaths, breaths', Len(accents) + 1)
    BY <2>1, <2>5
  <2> QED BY <1>1, <1>8, <2>6, GroupSaid
<1>11. phrase = U!New(said.moras, said.accent)
  BY <1>7 DEF NewPhraseOf, U!New
<1>12. PendingNow' = FALSE
  <2>1. PendingNow' \in BOOLEAN
    BY DEF PendingNow
  <2> QED BY <1>3, <2>1
<1>13. U!Word(said) /\ said \in AllSayings
  <2>1. U!Part(said.moras, said.accent)
    BY <1>9, <1>10, <1>11, <1>12 DEF U!Part
  <2> QED BY <1>6, <1>9, <2>1 DEF U!Word, NewestSays
<1> QED BY <1>3, <1>13, WordIsStep DEF Refined

\* A word after a pause opens a group.
LEMMA SaysNewGroup == LabelAssumption /\ UtteranceInv /\ NewGroup => UtteranceInv' /\ Refined
<1> SUFFICES ASSUME LabelAssumption, UtteranceInv, NewGroup PROVE UtteranceInv' /\ Refined
  OBVIOUS
<1>1. LabelsInv /\ LabelsInv' /\ Follow(phonemes, moras)
  BY StepNewGroup DEF UtteranceInv
<1>2. PICK a \in Nat, b \in Nat : a = Len(accents) /\ b = Len(breaths)
  BY <1>1, Sizes, ZenonT(60)
<1>3. /\ Finish /\ ~NothingPushed /\ Attached /\ Under(a + 1) /\ accents' = NewAccent(b + 1)
      /\ breaths' = Append(breaths, [head |-> a + 1, tail |-> a + 1])
      /\ Newest # 1 /\ word.chain # 1 /\ PauseBetween
  BY <1>2 DEF NewGroup
<1>4. JoinFacts(a + 1) /\ UtteranceInv' /\ ~PendingNow' /\ WordsStay
  <2>1. a + 1 \in Nat
    BY <1>2
  <2> QED BY <1>1, <1>3, <2>1, WordJoins, JoinKeeps
<1>5. PICK h \in Nat \ {0}, d \in Nat \ {0} : \E said : NewestSays(h, d, said)
  BY <1>3, WordIsSaid
<1>6. PICK said : NewestSays(h, d, said)
  BY <1>5
<1>7. PICK phrase : phrase = NewPhraseOf(said.moras, said.accent)
  OBVIOUS
<1>8. Added(PhraseSet, PhrasesNow, phrase, PhrasesNow') /\ phrase \in PhraseSet
  BY <1>1, <1>2, <1>3, <1>4, <1>6, <1>7, PhraseAdded
<1>9. GroupsNow' = Append(GroupsNow, <<phrase>>)
  <2>1. PICK r, new : r = [head |-> a + 1, tail |-> a + 1] /\ new = breaths'
    OBVIOUS
  <2>2. r \in BreathNode /\ r.head = a + 1 /\ r.tail = a + 1 /\ new = Append(breaths, r)
    BY <1>2, <1>3, <2>1 DEF BreathNode
  <2>3. breaths \in Seq(BreathNode)
    BY <1>1 DEF LabelsInv, TypeOK
  <2>4. Len(new) = b + 1 /\ new[b + 1] = r /\ \A k \in 1..b : new[k] = breaths[k]
    BY <1>2, <2>2, <2>3
  <2>5. Opened(breaths, new, a + 1)
    BY <1>2, <2>2, <2>4 DEF Opened, SameBounds
  <2>6. Opened(breaths, breaths', Len(accents) + 1)
    BY <1>2, <2>1, <2>5
  <2> QED BY <1>1, <1>8, <2>6, GroupSaid
<1>10. PendingNow = TRUE
  <2>1. words # <<>> /\ words[Len(words)].head = h /\ words[Len(words)].tail = Len(moras)
    BY <1>4, <1>6 DEF JoinFacts, NewestSays
  <2>2. PauseAt(phonemes, moras, h)
    BY <1>1, <1>3, <2>1, PauseIsBetween
  <2>3. PendingNow \in BOOLEAN
    BY DEF PendingNow
  <2> QED BY <1>6, <2>2, <2>3 DEF NewestSays
<1>11. phrase = U!New(said.moras, said.accent)
  BY <1>7 DEF NewPhraseOf, U!New
<1>12. PendingNow' = FALSE
  <2>1. PendingNow' \in BOOLEAN
    BY DEF PendingNow
  <2> QED BY <1>4, <2>1
<1>13. U!Word(said) /\ said \in AllSayings
  <2>1. U!Part(said.moras, said.accent)
    BY <1>9, <1>10, <1>11, <1>12 DEF U!Part
  <2>2. said.chain # 1
    BY <1>3, <1>6 DEF NewestSays
  <2> QED BY <1>6, <2>1, <2>2 DEF U!Word, NewestSays
<1> QED BY <1>4, <1>13, WordIsStep DEF Refined

\* A word without a pause before it opens a phrase in the last group.
LEMMA SaysNewPhrase == LabelAssumption /\ UtteranceInv /\ NewPhrase => UtteranceInv' /\ Refined
<1> SUFFICES ASSUME LabelAssumption, UtteranceInv, NewPhrase PROVE UtteranceInv' /\ Refined
  OBVIOUS
<1>1. LabelsInv /\ LabelsInv' /\ Follow(phonemes, moras)
  BY StepNewPhrase DEF UtteranceInv
<1>2. PICK a \in Nat, b \in Nat : a = Len(accents) /\ b = Len(breaths)
  BY <1>1, Sizes, ZenonT(60)
<1>3. /\ Finish /\ ~NothingPushed /\ Attached /\ Under(a + 1) /\ accents' = NewAccent(b)
      /\ breaths' = [breaths EXCEPT ![b].tail = a + 1]
      /\ Newest # 1 /\ word.chain # 1 /\ ~PauseBetween
  BY <1>2 DEF NewPhrase
<1>4. JoinFacts(a + 1) /\ UtteranceInv' /\ ~PendingNow' /\ WordsStay
  <2>1. a + 1 \in Nat
    BY <1>2
  <2> QED BY <1>1, <1>3, <2>1, WordJoins, JoinKeeps
<1>5. PICK h \in Nat \ {0}, d \in Nat \ {0} : \E said : NewestSays(h, d, said)
  BY <1>3, WordIsSaid
<1>6. PICK said : NewestSays(h, d, said)
  BY <1>5
<1>7. PICK phrase : phrase = NewPhraseOf(said.moras, said.accent)
  OBVIOUS
<1>8. Added(PhraseSet, PhrasesNow, phrase, PhrasesNow') /\ phrase \in PhraseSet
  BY <1>1, <1>2, <1>3, <1>4, <1>6, <1>7, PhraseAdded
<1>81. breaths # <<>> /\ breaths \in Seq(BreathNode) /\ GroupsNow # <<>>
  <2>1. breaths # <<>>
    BY <1>1, <1>3, <1>4, SomeBefore
  <2> QED BY <1>1, <2>1, PhrasesThere DEF LabelsInv, TypeOK
<1>9. GroupsNow' = [GroupsNow EXCEPT ![Len(GroupsNow)] = Append(@, phrase)]
  <2>1. PICK r, new : r = [breaths[b] EXCEPT !.tail = a + 1] /\ new = breaths'
    OBVIOUS
  <2>2. b \in 1..Len(breaths) /\ breaths[b] \in BreathNode
    BY <1>2, <1>81
  <2>3. r \in BreathNode /\ r.head = breaths[b].head /\ r.tail = a + 1
    BY <1>2, <2>1, <2>2 DEF BreathNode
  <2>4. new = [breaths EXCEPT ![b] = r]
    BY <1>3, <2>1
  <2>5. Len(new) = Len(breaths) /\ new[b] = r /\ \A k \in 1..Len(breaths) : k # b => new[k] = breaths[k]
    BY <1>81, <2>2, <2>3, <2>4, LastChanged
  <2>6. Longer(breaths, new, a + 1)
    BY <1>2, <2>3, <2>5 DEF Longer
  <2>7. Longer(breaths, breaths', Len(accents) + 1)
    BY <1>2, <2>1, <2>6
  <2> QED BY <1>1, <1>8, <1>81, <2>7, GroupSaid
<1>10. ~PendingNow
  <2>1. words # <<>> /\ words[Len(words)].head = h /\ words[Len(words)].tail = Len(moras)
    BY <1>4, <1>6 DEF JoinFacts, NewestSays
  <2>2. ~PauseAt(phonemes, moras, h)
    BY <1>1, <1>3, <2>1, PauseIsBetween
  <2> QED BY <1>6, <2>2 DEF NewestSays
<1>11. phrase = U!New(said.moras, said.accent)
  BY <1>7 DEF NewPhraseOf, U!New
<1>12. PendingNow' = FALSE
  <2>1. PendingNow' \in BOOLEAN
    BY DEF PendingNow
  <2> QED BY <1>4, <2>1
<1>13. U!Word(said) /\ said \in AllSayings
  <2>1. U!Part(said.moras, said.accent)
    BY <1>9, <1>10, <1>11, <1>12, <1>81 DEF U!Part
  <2>2. said.chain # 1
    BY <1>3, <1>6 DEF NewestSays
  <2> QED BY <1>6, <2>1, <2>2 DEF U!Word, NewestSays
<1> QED BY <1>4, <1>13, WordIsStep DEF Refined

\* A chained word joins the last phrase, the pause before it with it.
LEMMA SaysChainWord == LabelAssumption /\ UtteranceInv /\ ChainWord => UtteranceInv' /\ Refined
<1> SUFFICES ASSUME LabelAssumption, UtteranceInv, ChainWord PROVE UtteranceInv' /\ Refined
  OBVIOUS
<1>1. LabelsInv /\ LabelsInv'
  BY StepChainWord DEF UtteranceInv
<1>2. PICK m \in Nat, W \in Nat, A \in Nat : m = Len(moras) /\ W = Len(words) /\ A = Len(accents)
  BY <1>1, Sizes, ZenonT(60)
<1>3. /\ Finish /\ ~NothingPushed /\ Attached /\ Under(A) /\ Newest # 1 /\ word.chain = 1
      /\ accents' = [accents EXCEPT ![A].tail = W] /\ breaths' = breaths
  BY <1>2 DEF ChainWord, Newest
<1>4. JoinFacts(A) /\ UtteranceInv' /\ ~PendingNow' /\ WordsStay
  BY <1>1, <1>2, <1>3, WordJoins, JoinKeeps
<1>5. /\ accents # <<>> /\ breaths # <<>> /\ A # 0 /\ A \in 1..A
      /\ accents \in Seq(AccentNode) /\ accents[A] \in AccentNode
  <2>1. accents # <<>> /\ breaths # <<>> /\ A # 0 /\ accents \in Seq(AccentNode)
    BY <1>1, <1>2, <1>3, <1>4, SomeBefore DEF LabelsInv, TypeOK
  <2>2. A \in 1..A
    BY <2>1
  <2> QED BY <1>2, <2>1, <2>2
<1>6. PICK h \in Nat \ {0}, d \in Nat \ {0} : \E said : NewestSays(h, d, said)
  BY <1>3, WordIsSaid
<1>7. PICK said : NewestSays(h, d, said)
  BY <1>6
<1>8. PICK r, nas, nws : r = [accents[A] EXCEPT !.tail = W] /\ nas = accents' /\ nws = words'
  OBVIOUS
<1>9. /\ r \in AccentNode /\ r.head = accents[A].head /\ r.tail = W
      /\ r.accent = accents[A].accent /\ r.question = accents[A].question
  BY <1>2, <1>5, <1>8 DEF AccentNode
<1>10. Len(nas) = A /\ nas[A] = r /\ \A a \in 1..A : a # A => nas[a] = accents[a]
  <2>1. nas = [accents EXCEPT ![A] = r]
    BY <1>3, <1>8
  <2> QED BY <1>2, <1>5, <1>9, <2>1, LastChanged
<1>11. \A u \in 1..W : nws[u].head = words[u].head /\ nws[u].tail = words[u].tail
  BY <1>2, <1>4, <1>8 DEF WordsStay
<1>12. /\ Whole(phonemes, moras, words, accents, breaths, Joined)
       /\ Whole(phonemes, moras, nws, nas, breaths, Joined')
       /\ MorasIn(phonemes, moras)
  BY <1>1, <1>3, <1>4, <1>8, ListsWhole, ListsWholeNext DEF WholeNow, Whole, WordsStay
<1>13. MorasKept(phonemes, moras, phonemes, moras, m)
  BY DEF MorasKept
<1>14. PICK V \in Nat \ {0} : V = Joined /\ V + 1 = W /\ V \in 1..W /\ W \in 1..W /\ V \in 1..W - 1
  <2>1. Joined = W - 1 /\ W # 0 /\ W # 1
    <3>1. words \in Seq(WordNode) /\ words # <<>> /\ Joined = W - 1 /\ W # 1
      BY <1>1, <1>2, <1>3, <1>4 DEF JoinFacts, LabelsInv, TypeOK, Newest
    <3> QED BY <1>2, <3>1, Listed
  <2>2. W - 1 \in Nat \ {0} /\ (W - 1) + 1 = W /\ W - 1 \in 1..W /\ W \in 1..W /\ W - 1 \in 1..W - 1
    BY <2>1
  <2> QED BY <2>1, <2>2
<1>15. ASSUME NEW a \in 1..A
       PROVE  /\ InPhrase(moras, words, accents, V, a)
              /\ accents[a].head \in 1..W /\ accents[a].tail \in 1..W
              /\ words[accents[a].tail].tail <= m
  <2>1. InPhrase(moras, words, accents, V, a)
    BY <1>2, <1>12, <1>14, PhraseRange
  <2>2. \A x \in 1..V : x \in 1..W
    BY <1>14
  <2>3. accents[a].head \in 1..W /\ accents[a].tail \in 1..W
    BY <2>1, <2>2 DEF InPhrase
  <2> QED BY <1>1, <1>2, <2>1, <2>3 DEF LabelsInv, Level
<1>16. ASSUME NEW a \in 1..A, a # A
       PROVE  PhraseAt(phonemes, moras, nws, nas, a) = PhraseAt(phonemes, moras, words, accents, a)
  <2>1. SamePhrase(words, accents, nws, nas, a)
    BY <1>10, <1>11, <1>15, <1>16 DEF SamePhrase, SameMarks
  <2> QED BY <1>2, <1>12, <1>13, <1>15, <2>1, PhraseSame
<1>17. PICK old \in PhraseSet :
         old = PhraseAt(phonemes, moras, words, accents, A) /\ U!LastPhrase = old
  <2>1. A \in 1..Len(accents)
    BY <1>2, <1>5
  <2>2. /\ PhrasesNow \in Seq(PhraseSet) /\ Len(PhrasesNow) = Len(accents)
        /\ PhrasesNow[A] = PhraseAt(phonemes, moras, words, accents, A)
        /\ U!LastPhrase = PhrasesNow[A]
    BY <1>1, <1>2, <1>5, <2>1, PhrasesThere
  <2>3. PhrasesNow[A] \in PhraseSet
    BY <2>1, <2>2, ElementOfSeq
  <2> QED BY <2>2, <2>3
<1>18. PICK n \in Nat \ {0}, c \in Nat \ {0} :
         /\ n = FirstAt(words, accents, A) /\ c = CountAt(words, accents, A)
         /\ n + c - 1 = words[V].tail /\ accents[A].tail = V
         /\ words[accents[A].head].head = n
  <2>1. InPhrase(moras, words, accents, V, A) /\ A = Len(accents)
    BY <1>2, <1>5, <1>15
  <2> QED BY <2>1 DEF InPhrase, FirstAt
<1>19. /\ n + c = h /\ h > n /\ h + d = m + 1 /\ words[W].head = h /\ words[W].tail = m
       /\ c \in Nat
  <2>1. words[W].head = h /\ words[W].tail = m /\ h + d = m + 1
    BY <1>2, <1>7 DEF NewestSays
  <2>2. words[V + 1].head = words[V].tail + 1
    BY <1>1, <1>2, <1>14 DEF LabelsInv, Level, Tiles
  <2>3. h = (n + c - 1) + 1
    BY <1>14, <1>18, <2>1, <2>2
  <2>4. n + c = h /\ h > n
    BY <2>3
  <2> QED BY <2>1, <2>4
<1>20. MoreMoras(phonemes, moras, phonemes, moras, n, c, d)
  <2>1. \A x \in h + 1..h + d - 1 : ~PauseAt(phonemes, moras, x)
    BY <1>7 DEF NewestSays
  <2>2. n + c - 1 <= m /\ n + c + d - 1 <= m /\ n + c + 1 = h + 1 /\ n + c + d - 1 = h + d - 1
    BY <1>19
  <2>3. MorasKept(phonemes, moras, phonemes, moras, n + c - 1)
    BY DEF MorasKept
  <2> QED BY <1>2, <2>1, <2>2, <2>3 DEF MoreMoras
<1>21. FirstAt(nws, nas, A) = n /\ CountAt(nws, nas, A) = c + d
  <2>1. accents[A].head \in 1..W
    BY <1>5, <1>15
  <2>2. nws[nas[A].head].head = n /\ nws[nas[A].tail].tail = m
    BY <1>9, <1>10, <1>11, <1>14, <1>18, <1>19, <2>1
  <2>3. m - n + 1 = c + d
    BY <1>19
  <2> QED BY <2>2, <2>3 DEF FirstAt, CountAt
<1>22. PICK longer : longer = PhraseAt(phonemes, moras, nws, nas, A)
  OBVIOUS
<1>23. longer = Prolonged(old, BeforeAt(phonemes, moras, n, n + c), Said(phonemes, moras, n + c, d))
  <2>1. A \in 1..Len(accents) /\ SameMarks(accents, nas, A)
    BY <1>2, <1>5, <1>9, <1>10 DEF SameMarks
  <2> QED BY <1>12, <1>17, <1>18, <1>20, <1>21, <1>22, <2>1, PhraseLonger, SMTT(60)
<1>24. /\ BeforeAt(phonemes, moras, n, n + c) = IF PendingNow THEN <<pauseMora>> ELSE <<>>
       /\ Said(phonemes, moras, n + c, d) = said.moras
  <2>1. (PendingNow <=> PauseAt(phonemes, moras, h)) /\ said.moras = Said(phonemes, moras, h, d)
    BY <1>7 DEF NewestSays
  <2> QED BY <1>19, <2>1 DEF BeforeAt
<1>25. longer = [U!LastPhrase EXCEPT !.moras = (@ \o (IF PendingNow THEN <<pauseMora>> ELSE <<>>)) \o said.moras]
  BY <1>17, <1>23, <1>24 DEF Prolonged
<1>26. longer \in PhraseSet
  <2>1. PhrasesListed(phonemes, moras, nws, nas)
    BY <1>12, PhrasesTyped
  <2>2. A \in 1..Len(nas)
    BY <1>5, <1>10
  <2>3. PhrasesAt(phonemes, moras, nws, nas)[A] \in PhraseSet
    BY <2>1, <2>2, ElementOfSeq DEF PhrasesListed
  <2> QED BY <1>22, <2>1, <2>2, <2>3 DEF PhrasesListed
<1>27. PhrasesNow' = LastReplaced(PhrasesNow, longer)
  <2>1. PhrasesAt(phonemes, moras, nws, nas) =
          LastReplaced(PhrasesAt(phonemes, moras, words, accents), PhraseAt(phonemes, moras, nws, nas, A))
    BY <1>2, <1>5, <1>10, <1>12, <1>16, ListLast
  <2> QED BY <1>4, <1>8, <1>22, <2>1 DEF PhrasesNow, WordsStay
<1>28. GroupsNow' = U!WithLast(longer)
  BY <1>1, <1>3, <1>5, <1>26, <1>27, LastSaid
<1>29. PendingNow' = FALSE
  <2>1. PendingNow' \in BOOLEAN
    BY DEF PendingNow
  <2> QED BY <1>4, <2>1
<1>30. U!Word(said) /\ said \in AllSayings
  <2>1. U!Join(said.moras)
    BY <1>25, <1>28, <1>29 DEF U!Join, U!pause, pauseMora
  <2>2. said.chain = 1 /\ GroupsNow # <<>>
    BY <1>1, <1>3, <1>5, <1>7, PhrasesThere DEF NewestSays
  <2> QED BY <1>7, <2>1, <2>2 DEF U!Word, NewestSays
<1> QED BY <1>4, <1>30, WordIsStep DEF Refined

-----------------------------------------------------------------------------
\* Nothing is said in the beginning.
LEMMA UtteranceStart == LabelAssumption /\ Init => UtteranceInv /\ U!Init
<1> SUFFICES ASSUME LabelAssumption, Init PROVE UtteranceInv /\ U!Init
  OBVIOUS
<1>1. /\ phonemes = <<>> /\ moras = <<>> /\ words = <<>> /\ accents = <<>> /\ breaths = <<>>
      /\ shortPause = FALSE /\ status = "idle" /\ first = TRUE
  BY DEF Init
<1>2. LabelsInv
  BY LabelsStart
<1>3. Len(moras) = 0 /\ \A k \in 1..0 : FALSE
  BY <1>1
<1>4. UtteranceInv
  BY <1>1, <1>2, <1>3 DEF UtteranceInv, Follow, PausesAtHeads, WordHeard, Open
<1>5. GroupsNow = <<>>
  BY <1>1, <1>2, PhrasesThere
<1>6. PendingNow = FALSE
  BY <1>1 DEF PendingNow
<1> QED BY <1>4, <1>5, <1>6 DEF U!Init

\* Every step keeps the invariant and refines a step of Utterance or none.
LEMMA UtteranceStep == LabelAssumption /\ UtteranceInv /\ [Next]_vars => UtteranceInv' /\ Refined
<1> SUFFICES ASSUME LabelAssumption, UtteranceInv, [Next]_vars PROVE UtteranceInv' /\ Refined
  OBVIOUS
<1>1. CASE \E token \in {"v", "cv"} : TakeMora(token)
  BY <1>1, SaysTakeMora
<1>2. CASE UNCHANGED vars
  <2>1. /\ UNCHANGED lists /\ shortPause' = shortPause /\ status' = status /\ word' = word
        /\ first' = first
    BY <1>2 DEF vars
  <2>2. (Open' <=> Open) /\ SaidNow' = SaidNow
    BY <2>1 DEF Open, SaidNow, lists
  <2>3. LabelsInv'
    BY <1>2, LabelsStep DEF UtteranceInv
  <2>4. WordHeard'
    BY <2>1, <2>2 DEF UtteranceInv, WordHeard, HeardOf
  <2>5. UtteranceInv' /\ GroupsNow' = GroupsNow
    BY <2>1, <2>2, <2>3, <2>4, ListsSayTheSame
  <2>6. PendingNow' <=> PendingNow
    BY <2>1, <2>2, <2>5, SameDue
  <2> QED BY <2>5, <2>6 DEF Refined
<1> QED BY <1>1, <1>2, SaysPushPause, SaysPushQuestion, SaysPushWord, SaysTakeLong, SaysSkipLong,
          SaysTakeUnvoice, SaysTakeUnknown, SaysDropWord, SaysFirstWord, SaysChainWord,
          SaysNewPhrase, SaysNewGroup, SaysMake DEF Next

\* push_word implements Utterance, whatever words a text may have: every
\* call of it, and every token it takes from a word, leaves the utterance as it
\* is or takes the one step of Utterance that chain_flag and the pause before
\* the word ask for.
THEOREM UtteranceImplemented == Spec => ImplementsUtterance
<1>1. Init => UtteranceInv /\ U!Init
  BY LabelAssumption, UtteranceStart
<1>2. UtteranceInv /\ [Next]_vars => UtteranceInv'
  BY LabelAssumption, UtteranceStep
<1>3. UtteranceInv /\ [Next]_vars => [U!Next]_U!vars
  <2> SUFFICES ASSUME UtteranceInv, [Next]_vars PROVE [U!Next]_U!vars
    OBVIOUS
  <2>1. Refined
    BY LabelAssumption, UtteranceStep
  <2>2. ASSUME PendingNow' <=> PendingNow PROVE PendingNow' = PendingNow
    BY <2>2 DEF PendingNow
  <2> QED BY <2>1, <2>2 DEF Refined, U!vars
<1> QED BY <1>1, <1>2, <1>3, PTL DEF Spec, ImplementsUtterance, U!Spec
=================================================================================
