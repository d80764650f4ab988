-------------------------- MODULE UdpTransportProofs --------------------------
(***************************************************************************)
(* Proofs about UdpTransport, for any number of exchanges, opens and       *)
(* queued datagrams and any pipeline depth.                                *)
(***************************************************************************)
EXTENDS UdpTransport, SequenceFacts
LOCAL INSTANCE SequencesExt

Baton == [locked : BOOLEAN, line : Seq(Call), task : [Call -> Acquiring]]
InLine == {"queued", "woken", "cancelled", "dying"}
Acquires == {"created", "queued", "woken"}
Reading == {"reading", "received", "severed"}

\* The line of the baton: each task once, those whose state says so; one that was
\* released to, or cancelled after that, is its head and the baton is free.
LineOK(b) ==
    /\ \A i, j \in DOMAIN b.line : b.line[i] = b.line[j] => i = j
    /\ \A i \in DOMAIN b.line : b.task[b.line[i]] \in InLine
    /\ \A c \in Call : b.task[c] \in InLine => \E i \in DOMAIN b.line : b.line[i] = c
    /\ \A c \in Call : b.task[c] \in {"woken", "dying"} => ~b.locked /\ b.line[1] = c

\* It is locked when one exchange holds it, and nobody at its head sleeps while
\* it is free.
BatonOK(b) ==
    /\ LineOK(b)
    /\ \A c, d \in Call : b.task[c] = "held" /\ b.task[d] = "held" => c = d
    /\ \A c \in Call : b.task[c] = "held" => b.locked
    /\ b.locked => \E c \in Call : b.task[c] = "held"
    /\ ~b.locked /\ b.line # <<>> => b.task[b.line[1]] # "queued"

-----------------------------------------------------------------------------
(***************************************************************************)
(* What a list is without one of its elements.                             *)
(***************************************************************************)
LEMMA WithoutEffect ==
    ASSUME NEW s \in Seq(Call), NEW c \in Call,
           \A i, j \in DOMAIN s : s[i] = s[j] => i = j
    PROVE  /\ Without(s, c) \in Seq(Call)
           /\ Len(Without(s, c)) <= Len(s)
           /\ \A i, j \in DOMAIN Without(s, c) : Without(s, c)[i] = Without(s, c)[j] => i = j
           /\ \A i \in DOMAIN Without(s, c) :
                Without(s, c)[i] # c /\ \E j \in DOMAIN s : s[j] = Without(s, c)[i]
           /\ \A j \in DOMAIN s :
                s[j] # c => \E i \in DOMAIN Without(s, c) : Without(s, c)[i] = s[j]
           /\ s # <<>> /\ s[1] # c => Without(s, c) # <<>> /\ Without(s, c)[1] = s[1]
<1>1. CASE ~ \E i \in DOMAIN s : s[i] = c
  <2>1. Without(s, c) = s
    BY <1>1 DEF Without
  <2>2. Len(s) \in Nat
    BY LenProperties
  <2> QED
    BY <1>1, <2>1, <2>2
<1>2. CASE \E i \in DOMAIN s : s[i] = c
  <2> DEFINE n == CHOOSE i \in DOMAIN s : s[i] = c
             r == AllBut(s, n)
  <2>1. Without(s, c) = r
    BY <1>2 DEF Without, RemoveAt, AllBut
  <2>2. n \in DOMAIN s /\ s[n] = c
    BY <1>2
  <2>3. Len(s) \in Nat /\ DOMAIN s = 1 .. Len(s) /\ (s = <<>> <=> Len(s) = 0)
    BY LenProperties, EmptySeq
  <2> HIDE DEF n
  <2>4. /\ r \in Seq(Call) /\ Len(r) = Len(s) - 1
        /\ \A j \in 1 .. Len(s) - 1 : r[j] = IF j < n THEN s[j] ELSE s[j + 1]
    BY <2>2, <2>3, RemoveEffect
  <2> HIDE DEF r
  <2>5. DOMAIN r = 1 .. Len(s) - 1
    BY <2>4, LenProperties
  <2>6. n \in 1 .. Len(s)
    BY <2>2, <2>3
  <2>7. ASSUME NEW i \in DOMAIN r, NEW j \in DOMAIN r, r[i] = r[j]
        PROVE  i = j
    <3> DEFINE at(k) == IF k < n THEN k ELSE k + 1
    <3>1. /\ at(i) \in DOMAIN s /\ r[i] = s[at(i)]
          /\ at(j) \in DOMAIN s /\ r[j] = s[at(j)]
      BY <2>3, <2>4, <2>5, <2>6
    <3>2. at(i) = at(j)
      BY <2>7, <3>1
    <3> QED
      BY <2>3, <2>5, <2>6, <3>2
  <2>8. ASSUME NEW i \in DOMAIN r
        PROVE  r[i] # c /\ \E j \in DOMAIN s : s[j] = r[i]
    <3>1. CASE i < n
      BY <2>2, <2>3, <2>4, <2>5, <2>6, <3>1
    <3>2. CASE ~(i < n)
      <4>1. i + 1 \in DOMAIN s /\ r[i] = s[i + 1] /\ i + 1 # n
        BY <2>3, <2>4, <2>5, <2>6, <3>2
      <4> QED
        BY <2>2, <4>1
    <3> QED
      BY <3>1, <3>2
  <2>9. ASSUME NEW j \in DOMAIN s, s[j] # c
        PROVE  \E i \in DOMAIN r : r[i] = s[j]
    <3>1. CASE j < n
      BY <2>3, <2>4, <2>5, <2>6, <3>1
    <3>2. CASE ~(j < n)
      <4>1. j - 1 \in DOMAIN r /\ ~(j - 1 < n) /\ (j - 1) + 1 = j
        BY <2>2, <2>3, <2>5, <2>6, <2>9, <3>2
      <4> QED
        BY <2>4, <2>5, <4>1
    <3> QED
      BY <3>1, <3>2
  <2>10. ASSUME s # <<>>, s[1] # c
         PROVE  r # <<>> /\ r[1] = s[1]
    <3>1. n > 1 /\ Len(s) > 1
      BY <2>2, <2>3, <2>6, <2>10
    <3>2. Len(r) > 0
      BY <2>3, <2>4, <3>1
    <3> QED
      BY <2>3, <2>4, <2>6, <3>1, <3>2, EmptySeq
  <2>11. Len(r) <= Len(s)
    BY <2>3, <2>4
  <2> QED
    BY <2>1, <2>4, <2>7, <2>8, <2>9, <2>10, <2>11
<1> QED
  BY <1>1, <1>2

-----------------------------------------------------------------------------
(***************************************************************************)
(* What the pieces of the lock do to the baton.                            *)
(***************************************************************************)
\* The baton is free and nobody at its head sleeps once the head was woken.
LEMMA WakeFirstEffect ==
    ASSUME NEW b \in Baton, LineOK(b), ~b.locked,
           \A c \in Call : b.task[c] # "held"
    PROVE  LET w == WakeFirst(b) IN
           /\ w \in Baton /\ BatonOK(w)
           /\ \A c \in Call : \/ w.task[c] = b.task[c]
                              \/ b.task[c] = "queued" /\ w.task[c] = "woken"
<1>1. /\ b.line \in Seq(Call) /\ b.task \in [Call -> Acquiring] /\ b.locked = FALSE
      /\ DOMAIN b.line = 1 .. Len(b.line) /\ Len(b.line) \in Nat
      /\ (b.line # <<>> => Len(b.line) > 0 /\ b.line[1] \in Call /\ Head(b.line) = b.line[1])
  <2>1. b.line \in Seq(Call)
    BY DEF Baton
  <2> QED
    BY <2>1, LenProperties, EmptySeq, HeadTailProperties, ElementOfSeq DEF Baton
<1>2. CASE b.line # <<>> /\ b.task[b.line[1]] = "queued"
  <2> DEFINE h == b.line[1]
             w == [b EXCEPT !.task[h] = "woken"]
  <2>1. WakeFirst(b) = w
    BY <1>1, <1>2 DEF WakeFirst
  <2>2. h \in Call /\ 1 \in DOMAIN b.line
    BY <1>1, <1>2
  <2>3. /\ w.line = b.line /\ w.locked = b.locked /\ w.task = [b.task EXCEPT ![h] = "woken"]
        /\ w \in Baton
    BY <1>1, <2>2 DEF Baton, Acquiring
  <2> HIDE DEF w
  <2>4. LineOK(w)
    <3>1. \A i \in DOMAIN b.line : b.line[i] \in Call
      BY <1>1, ElementOfSeq
    <3>2. \A i \in DOMAIN w.line : w.task[w.line[i]] \in InLine
      BY <1>1, <2>2, <2>3, <3>1 DEF LineOK, InLine
    <3>3. ASSUME NEW c \in Call, w.task[c] \in InLine
          PROVE  \E i \in DOMAIN w.line : w.line[i] = c
      BY <1>1, <2>2, <2>3, <3>3 DEF LineOK, InLine
    <3>4. ASSUME NEW c \in Call, w.task[c] \in {"woken", "dying"}
          PROVE  ~w.locked /\ w.line[1] = c
      BY <1>1, <2>2, <2>3, <3>4 DEF LineOK
    <3> QED
      BY <2>3, <3>2, <3>3, <3>4 DEF LineOK
  <2>5. \A c \in Call : w.task[c] # "held"
    BY <1>1, <2>3
  <2>6. w.task[w.line[1]] # "queued"
    BY <1>1, <2>2, <2>3
  <2>7. BatonOK(w)
    BY <1>1, <2>3, <2>4, <2>5, <2>6 DEF BatonOK
  <2>8. \A c \in Call : \/ w.task[c] = b.task[c]
                        \/ b.task[c] = "queued" /\ w.task[c] = "woken"
    BY <1>1, <1>2, <2>3
  <2> QED
    BY <2>1, <2>3, <2>7, <2>8
<1>3. CASE ~(b.line # <<>> /\ b.task[b.line[1]] = "queued")
  <2>1. WakeFirst(b) = b
    BY <1>1, <1>3 DEF WakeFirst
  <2> QED
    BY <1>1, <1>3, <2>1 DEF BatonOK
<1> QED
  BY <1>2, <1>3

\* An exchange that leaves the race for the baton keeps it no longer and will not
\* be given it; nobody else loses it or gets stuck.
LEMMA LetGoEffect ==
    ASSUME NEW b \in Baton, BatonOK(b), NEW c \in Call
    PROVE  LET r == LetGo(b, c) IN
           /\ r \in Baton /\ BatonOK(r)
           /\ r.task[c] \notin Acquires \cup {"held"}
           /\ b.task[c] = "held" => r.task[c] = "none"
           /\ b.task[c] = "none" => r.task[c] = "none"
           /\ \A d \in Call \ {c} : \/ r.task[d] = b.task[d]
                                    \/ b.task[d] = "queued" /\ r.task[d] = "woken"
<1>1. /\ b.line \in Seq(Call) /\ b.task \in [Call -> Acquiring] /\ b.locked \in BOOLEAN
      /\ DOMAIN b.line = 1 .. Len(b.line) /\ Len(b.line) \in Nat
      /\ \A i \in DOMAIN b.line : b.line[i] \in Call
      /\ (b.line # <<>> => 1 \in DOMAIN b.line)
  <2>1. b.line \in Seq(Call)
    BY DEF Baton
  <2> QED
    BY <2>1, LenProperties, EmptySeq, ElementOfSeq DEF Baton
<1>2. CASE b.task[c] = "held"
  <2> DEFINE f == [b EXCEPT !.locked = FALSE, !.task[c] = "none"]
             r == WakeFirst(f)
  <2>1. LetGo(b, c) = r
    BY <1>2 DEF LetGo, Release
  <2>2. /\ f.line = b.line /\ f.locked = FALSE /\ f.task = [b.task EXCEPT ![c] = "none"]
        /\ f \in Baton
    BY <1>1 DEF Baton, Acquiring
  <2> HIDE DEF f
  <2>3. b.locked /\ \A d \in Call : b.task[d] = "held" => d = c
    BY <1>2 DEF BatonOK
  <2>4. LineOK(f)
    <3>1. \A i \in DOMAIN f.line : f.task[f.line[i]] \in InLine
      BY <1>1, <1>2, <2>2 DEF BatonOK, LineOK, InLine
    <3>2. \A d \in Call : f.task[d] \in InLine => \E i \in DOMAIN f.line : f.line[i] = d
      BY <1>1, <2>2 DEF BatonOK, LineOK, InLine
    <3>3. \A d \in Call : f.task[d] \notin {"woken", "dying"}
      BY <1>1, <2>2, <2>3 DEF BatonOK, LineOK
    <3> QED
      BY <2>2, <3>1, <3>2, <3>3 DEF BatonOK, LineOK
  <2>5. \A d \in Call : f.task[d] # "held"
    BY <1>1, <2>2, <2>3
  <2>6. /\ r \in Baton /\ BatonOK(r)
        /\ \A d \in Call : \/ r.task[d] = f.task[d]
                           \/ f.task[d] = "queued" /\ r.task[d] = "woken"
    BY <2>2, <2>4, <2>5, WakeFirstEffect
  <2> HIDE DEF r
  <2>7. f.task[c] = "none" /\ \A d \in Call \ {c} : f.task[d] = b.task[d]
    BY <1>1, <2>2
  <2>8. r.task[c] = "none"
    BY <2>6, <2>7
  <2> QED
    BY <1>2, <2>1, <2>6, <2>7, <2>8 DEF Acquires
<1>3. CASE b.task[c] # "held"
  <2> DEFINE p == CASE b.task[c] = "created" -> "stillborn"
                    [] b.task[c] = "queued"  -> "cancelled"
                    [] b.task[c] = "woken"   -> "dying"
                    [] OTHER                 -> b.task[c]
             r == [b EXCEPT !.task[c] = p]
  <2>1. LetGo(b, c) = r
    BY <1>3 DEF LetGo, CancelAcquire
  <2>2. /\ p \in Acquiring
        /\ p \notin Acquires \cup {"held"}
        /\ b.task[c] = "none" => p = "none"
        /\ p \in InLine <=> b.task[c] \in InLine
        /\ p \in {"woken", "dying"} <=> b.task[c] \in {"woken", "dying"}
        /\ p # "queued"
    BY <1>1, <1>3 DEF Acquiring, Acquires, InLine
  <2> HIDE DEF p
  <2>3. /\ r.line = b.line /\ r.locked = b.locked /\ r.task = [b.task EXCEPT ![c] = p]
        /\ r \in Baton
    BY <1>1, <2>2 DEF Baton
  <2> HIDE DEF r
  <2>4. r.task[c] = p /\ \A d \in Call \ {c} : r.task[d] = b.task[d]
    BY <1>1, <2>3
  <2>5. LineOK(r)
    <3>1. \A i \in DOMAIN r.line : r.task[r.line[i]] \in InLine
      BY <1>1, <2>2, <2>3, <2>4 DEF BatonOK, LineOK
    <3>2. \A d \in Call : r.task[d] \in InLine => \E i \in DOMAIN r.line : r.line[i] = d
      BY <1>1, <2>2, <2>3, <2>4 DEF BatonOK, LineOK
    <3>3. ASSUME NEW d \in Call, r.task[d] \in {"woken", "dying"}
          PROVE  ~r.locked /\ r.line[1] = d
      BY <2>2, <2>3, <2>4, <3>3 DEF BatonOK, LineOK
    <3> QED
      BY <2>3, <3>1, <3>2, <3>3 DEF BatonOK, LineOK
  <2>6. \A d \in Call : r.task[d] = "held" <=> b.task[d] = "held"
    BY <1>3, <2>2, <2>4
  <2>7. ASSUME ~r.locked, r.line # <<>> PROVE r.task[r.line[1]] # "queued"
    BY <1>1, <2>2, <2>3, <2>4, <2>7 DEF BatonOK
  <2>8. BatonOK(r)
    BY <2>3, <2>5, <2>6, <2>7 DEF BatonOK
  <2> QED
    BY <1>3, <2>1, <2>2, <2>3, <2>4, <2>8
<1> QED
  BY <1>2, <1>3

\* An exchange that has nothing to do with the baton asks for it.
LEMMA AskEffect ==
    ASSUME NEW b \in Baton, BatonOK(b), NEW c \in Call, b.task[c] = "none"
    PROVE  LET r == AskBaton(b, c) IN
           /\ r \in Baton /\ BatonOK(r)
           /\ r.task[c] = IF depth = 1 THEN "none" ELSE "created"
           /\ \A d \in Call \ {c} : r.task[d] = b.task[d]
<1>1. CASE depth = 1
  BY <1>1 DEF AskBaton, Solo
<1>2. CASE depth # 1
  <2> DEFINE r == [b EXCEPT !.task[c] = "created"]
  <2>1. AskBaton(b, c) = r
    BY <1>2 DEF AskBaton, Solo
  <2>2. /\ r.line = b.line /\ r.locked = b.locked /\ r.task = [b.task EXCEPT ![c] = "created"]
        /\ r \in Baton
    BY DEF Baton, Acquiring
  <2>3. b.task \in [Call -> Acquiring]
    BY DEF Baton
  <2> HIDE DEF r
  <2>4. r.task[c] = "created" /\ \A d \in Call \ {c} : r.task[d] = b.task[d]
    BY <2>2, <2>3
  <2>5. /\ \A i \in DOMAIN b.line : b.line[i] # c /\ b.line[i] \in Call
        /\ (b.line # <<>> => 1 \in DOMAIN b.line)
    <3>1. b.line \in Seq(Call)
      BY DEF Baton
    <3> QED
      BY <3>1, LenProperties, EmptySeq, ElementOfSeq DEF BatonOK, LineOK, InLine
  <2>6. BatonOK(r)
    BY <2>2, <2>4, <2>5 DEF BatonOK, LineOK, InLine
  <2> QED
    BY <1>2, <2>1, <2>2, <2>4, <2>6
<1> QED
  BY <1>1, <1>2

\* A baton whose line lost the one place of task c, which is no acquire now.
LEMMA LeaveLine ==
    ASSUME NEW b \in Baton, BatonOK(b), NEW c \in Call, b.task[c] \in InLine,
           NEW r \in Baton, r.line = Without(b.line, c),
           r.task[c] \notin InLine, \A d \in Call \ {c} : r.task[d] = b.task[d],
           r.locked = b.locked \/ b.task[c] = "woken"
    PROVE  LineOK(r)
<1>1. /\ b.line \in Seq(Call) /\ Len(b.line) \in Nat /\ DOMAIN b.line = 1 .. Len(b.line)
      /\ \A i \in DOMAIN b.line : b.line[i] \in Call
      /\ \A i, j \in DOMAIN b.line : b.line[i] = b.line[j] => i = j
  <2>1. b.line \in Seq(Call)
    BY DEF Baton
  <2> QED
    BY <2>1, LenProperties, ElementOfSeq DEF BatonOK, LineOK
<1>2. /\ \A i, j \in DOMAIN r.line : r.line[i] = r.line[j] => i = j
      /\ \A i \in DOMAIN r.line : r.line[i] # c /\ \E j \in DOMAIN b.line : b.line[j] = r.line[i]
      /\ \A j \in DOMAIN b.line : b.line[j] # c => \E i \in DOMAIN r.line : r.line[i] = b.line[j]
      /\ b.line # <<>> /\ b.line[1] # c => r.line # <<>> /\ r.line[1] = b.line[1]
  <2> DEFINE s == b.line
  <2>1. s \in Seq(Call) /\ \A i, j \in DOMAIN s : s[i] = s[j] => i = j
    BY <1>1
  <2>2. r.line = Without(s, c)
    OBVIOUS
  <2> HIDE DEF s
  <2>3. /\ \A i, j \in DOMAIN Without(s, c) :
             Without(s, c)[i] = Without(s, c)[j] => i = j
        /\ \A i \in DOMAIN Without(s, c) :
             Without(s, c)[i] # c /\ \E j \in DOMAIN s : s[j] = Without(s, c)[i]
        /\ \A j \in DOMAIN s :
             s[j] # c => \E i \in DOMAIN Without(s, c) : Without(s, c)[i] = s[j]
        /\ s # <<>> /\ s[1] # c => Without(s, c) # <<>> /\ Without(s, c)[1] = s[1]
    BY <2>1, WithoutEffect
  <2> QED
    BY <2>2, <2>3 DEF s
<1>3. \A i \in DOMAIN r.line : r.task[r.line[i]] \in InLine
  BY <1>1, <1>2 DEF BatonOK, LineOK
<1>4. \A d \in Call : r.task[d] \in InLine => \E i \in DOMAIN r.line : r.line[i] = d
  BY <1>2 DEF BatonOK, LineOK
<1>5. ASSUME NEW d \in Call, r.task[d] \in {"woken", "dying"}
      PROVE  ~r.locked /\ r.line[1] = d
  <2>1. d # c /\ b.task[d] = r.task[d]
    BY <1>5 DEF InLine
  <2>2. ~b.locked /\ b.line[1] = d
    BY <1>5, <2>1 DEF BatonOK, LineOK
  <2>3. b.line # <<>>
    BY <1>1, <1>5, <2>1, EmptySeq DEF BatonOK, LineOK, InLine
  <2>4. b.task[c] # "woken"
    BY <2>1, <2>2 DEF BatonOK, LineOK
  <2> QED
    BY <1>2, <2>1, <2>2, <2>3, <2>4
<1> QED
  BY <1>2, <1>3, <1>4, <1>5 DEF LineOK

\* What a step of the task that acquires the baton for c makes of it.
LEMMA AcquireEffect ==
    ASSUME baton \in Baton, BatonOK(baton), NEW c \in Call, AcquireStep(c)
    PROVE  /\ baton' \in Baton /\ BatonOK(baton')
           /\ \/ baton.task[c] \in Acquires /\ baton'.task[c] \in {"queued", "held"}
              \/ baton.task[c] # "held" /\ baton'.task[c] = "none"
           /\ \A d \in Call \ {c} : \/ baton'.task[d] = baton.task[d]
                                    \/ baton.task[d] = "queued" /\ baton'.task[d] = "woken"
<1> DEFINE line == baton.line
           task == baton.task
<1>1. /\ line \in Seq(Call) /\ task \in [Call -> Acquiring] /\ baton.locked \in BOOLEAN
      /\ DOMAIN line = 1 .. Len(line) /\ Len(line) \in Nat
      /\ \A i \in DOMAIN line : line[i] \in Call
      /\ (line # <<>> => 1 \in DOMAIN line)
  <2>1. line \in Seq(Call)
    BY DEF Baton
  <2> QED
    BY <2>1, LenProperties, EmptySeq, ElementOfSeq DEF Baton
<1>2. CASE /\ task[c] = "created" /\ ~baton.locked
           /\ \A i \in DOMAIN line : task[line[i]] = "cancelled"
  <2> DEFINE r == [baton EXCEPT !.locked = TRUE, !.task[c] = "held"]
  <2>1. baton' = r
    BY <1>2 DEF AcquireStep
  <2>2. /\ r.line = line /\ r.locked = TRUE /\ r.task = [task EXCEPT ![c] = "held"]
        /\ r \in Baton
    BY <1>1 DEF Baton, Acquiring
  <2> HIDE DEF r
  <2>3. r.task[c] = "held" /\ \A d \in Call \ {c} : r.task[d] = task[d]
    BY <1>1, <2>2
  <2>4. \A d \in Call : task[d] \notin {"woken", "dying"}
    BY <1>2 DEF BatonOK, LineOK, InLine
  <2>5. LineOK(r)
    BY <1>1, <1>2, <2>2, <2>3, <2>4 DEF BatonOK, LineOK, InLine
  <2>6. BatonOK(r)
    BY <1>2, <2>2, <2>3, <2>5 DEF BatonOK
  <2> QED
    BY <1>2, <2>1, <2>2, <2>3, <2>6 DEF Acquires
<1>3. CASE /\ task[c] = "created"
           /\ ~(~baton.locked /\ \A i \in DOMAIN line : task[line[i]] = "cancelled")
  <2> DEFINE r == [baton EXCEPT !.line = Append(line, c), !.task[c] = "queued"]
  <2>1. baton' = r
    BY <1>3 DEF AcquireStep
  <2>2. /\ r.line = Append(line, c) /\ r.locked = baton.locked
        /\ r.task = [task EXCEPT ![c] = "queued"]
        /\ r \in Baton
    BY <1>1, AppendProperties DEF Baton, Acquiring
  <2> HIDE DEF r
  <2>3. r.task[c] = "queued" /\ \A d \in Call \ {c} : r.task[d] = task[d]
    BY <1>1, <2>2
  <2>4. /\ r.line # <<>> /\ DOMAIN r.line = 1 .. Len(line) + 1
        /\ \A i \in DOMAIN line : r.line[i] = line[i]
        /\ r.line[Len(line) + 1] = c
    BY <1>1, <2>2, AppendProperties, LenProperties
  <2>5. \A i \in DOMAIN line : line[i] # c
    BY <1>3 DEF BatonOK, LineOK, InLine
  <2>6. LineOK(r)
    <3>1. ASSUME NEW i \in DOMAIN r.line, NEW j \in DOMAIN r.line, r.line[i] = r.line[j]
          PROVE  i = j
      BY <1>1, <2>4, <2>5, <3>1 DEF BatonOK, LineOK
    <3>2. ASSUME NEW i \in DOMAIN r.line PROVE r.task[r.line[i]] \in InLine
      BY <1>1, <2>3, <2>4, <2>5 DEF BatonOK, LineOK, InLine
    <3>3. ASSUME NEW d \in Call, r.task[d] \in InLine
          PROVE  \E i \in DOMAIN r.line : r.line[i] = d
      <4>1. CASE d = c
        BY <1>1, <2>4, <4>1
      <4>2. CASE d # c
        <5>1. PICK i \in DOMAIN line : line[i] = d
          BY <2>3, <3>3, <4>2 DEF BatonOK, LineOK
        <5> QED
          BY <1>1, <2>4, <5>1
      <4> QED
        BY <4>1, <4>2
    <3>4. ASSUME NEW d \in Call, r.task[d] \in {"woken", "dying"}
          PROVE  ~r.locked /\ r.line[1] = d
      <4>1. d # c /\ task[d] \in {"woken", "dying"}
        BY <2>3, <3>4
      <4>2. ~baton.locked /\ line[1] = d /\ \E i \in DOMAIN line : line[i] = d
        BY <4>1 DEF BatonOK, LineOK, InLine
      <4>3. 1 \in DOMAIN line
        BY <1>1, <4>2
      <4> QED
        BY <2>2, <2>4, <4>2, <4>3
    <3> QED
      BY <3>1, <3>2, <3>3, <3>4 DEF LineOK
  <2>7. ASSUME ~r.locked PROVE r.task[r.line[1]] # "queued"
    <3>1. 1 \in DOMAIN line
      BY <1>1, <1>3, <2>2, <2>7
    <3>2. r.line[1] = line[1] /\ line[1] # c /\ line[1] \in Call
      BY <1>1, <2>4, <2>5, <3>1
    <3>3. line # <<>>
      BY <3>1, <1>1, EmptySeq
    <3> QED
      BY <2>2, <2>3, <2>7, <3>2, <3>3 DEF BatonOK
  <2>8. \A d \in Call : r.task[d] = "held" <=> task[d] = "held"
    BY <1>3, <2>3
  <2>9. BatonOK(r)
    BY <2>2, <2>6, <2>7, <2>8 DEF BatonOK
  <2> QED
    BY <1>3, <2>1, <2>2, <2>3, <2>9 DEF Acquires
<1>4. CASE task[c] = "woken"
  <2> DEFINE r == [baton EXCEPT !.locked = TRUE, !.line = Without(line, c), !.task[c] = "held"]
  <2>1. baton' = r
    BY <1>4 DEF AcquireStep
  <2>2. Without(line, c) \in Seq(Call)
    BY <1>1, WithoutEffect DEF BatonOK, LineOK
  <2>3. /\ r.line = Without(line, c) /\ r.locked = TRUE /\ r.task = [task EXCEPT ![c] = "held"]
        /\ r \in Baton
    BY <1>1, <2>2 DEF Baton, Acquiring
  <2> HIDE DEF r
  <2>4. r.task[c] = "held" /\ \A d \in Call \ {c} : r.task[d] = task[d]
    BY <1>1, <2>3
  <2>5. LineOK(r)
    BY <1>4, <2>3, <2>4, LeaveLine DEF InLine
  <2>6. \A d \in Call : task[d] # "held"
    BY <1>4 DEF BatonOK, LineOK
  <2>7. BatonOK(r)
    BY <2>3, <2>4, <2>5, <2>6 DEF BatonOK
  <2> QED
    BY <1>4, <2>1, <2>3, <2>4, <2>7 DEF Acquires
<1>5. CASE task[c] \in {"cancelled", "dying"}
  <2> DEFINE left == [baton EXCEPT !.line = Without(line, c), !.task[c] = "none"]
  <2>1. baton' = IF left.locked THEN left ELSE WakeFirst(left)
    BY <1>5 DEF AcquireStep
  <2>2. /\ Without(line, c) \in Seq(Call)
        /\ Without(line, c) # <<>> => \E j \in DOMAIN line : line[j] = Without(line, c)[1]
    <3>1. /\ Without(line, c) \in Seq(Call)
          /\ \A i \in DOMAIN Without(line, c) :
               \E j \in DOMAIN line : line[j] = Without(line, c)[i]
      <4>1. line \in Seq(Call) /\ \A i, j \in DOMAIN line : line[i] = line[j] => i = j
        BY <1>1 DEF BatonOK, LineOK
      <4> HIDE DEF line
      <4> QED
        BY <4>1, WithoutEffect
    <3>2. Without(line, c) # <<>> => 1 \in DOMAIN Without(line, c)
      BY <3>1, LenProperties, EmptySeq
    <3> QED
      BY <3>1, <3>2
  <2>3. /\ left.line = Without(line, c) /\ left.locked = baton.locked
        /\ left.task = [task EXCEPT ![c] = "none"]
        /\ left \in Baton
    BY <1>1, <2>2 DEF Baton, Acquiring
  <2> HIDE DEF left
  <2>4. left.task[c] = "none" /\ \A d \in Call \ {c} : left.task[d] = task[d]
    BY <1>1, <2>3
  <2>5. LineOK(left)
    BY <1>5, <2>3, <2>4, LeaveLine DEF InLine
  <2>6. CASE baton.locked
    <3>1. \A d \in Call : left.task[d] = "held" <=> task[d] = "held"
      BY <1>5, <2>4
    <3>2. BatonOK(left)
      BY <2>3, <2>5, <2>6, <3>1 DEF BatonOK
    <3> QED
      BY <1>5, <2>1, <2>3, <2>4, <2>6, <3>2
  <2>7. CASE ~baton.locked
    <3>1. \A d \in Call : left.task[d] # "held"
      BY <1>5, <2>4, <2>7 DEF BatonOK
    <3>2. /\ WakeFirst(left) \in Baton /\ BatonOK(WakeFirst(left))
          /\ \A d \in Call : \/ WakeFirst(left).task[d] = left.task[d]
                             \/ left.task[d] = "queued" /\ WakeFirst(left).task[d] = "woken"
      BY <2>3, <2>5, <2>7, <3>1, WakeFirstEffect
    <3>3. baton' = WakeFirst(left)
      BY <2>1, <2>3, <2>7
    <3> QED
      BY <1>5, <2>4, <3>2, <3>3
  <2> QED
    BY <2>6, <2>7
<1>6. CASE task[c] = "stillborn"
  <2> DEFINE r == [baton EXCEPT !.task[c] = "none"]
  <2>1. baton' = r
    BY <1>6 DEF AcquireStep
  <2>2. /\ r.line = line /\ r.locked = baton.locked /\ r.task = [task EXCEPT ![c] = "none"]
        /\ r \in Baton
    BY <1>1 DEF Baton, Acquiring
  <2> HIDE DEF r
  <2>3. r.task[c] = "none" /\ \A d \in Call \ {c} : r.task[d] = task[d]
    BY <1>1, <2>2
  <2>4. \A i \in DOMAIN line : line[i] # c
    BY <1>6 DEF BatonOK, LineOK, InLine
  <2>5. LineOK(r)
    BY <1>1, <2>2, <2>3, <2>4 DEF BatonOK, LineOK, InLine
  <2>6. \A d \in Call : r.task[d] = "held" <=> task[d] = "held"
    BY <1>6, <2>3
  <2>7. ASSUME ~r.locked, r.line # <<>> PROVE r.task[r.line[1]] # "queued"
    BY <1>1, <2>2, <2>3, <2>4, <2>7 DEF BatonOK
  <2>8. BatonOK(r)
    BY <2>2, <2>5, <2>6, <2>7 DEF BatonOK
  <2> QED
    BY <1>6, <2>1, <2>2, <2>3, <2>8
<1> QED
  BY <1>2, <1>3, <1>4, <1>5, <1>6 DEF AcquireStep

-----------------------------------------------------------------------------
(***************************************************************************)
(* The inductive invariant.                                                *)
(***************************************************************************)
Futures == {Pending, Closed} \cup {Got(d) : d \in Datagram}

\* Who acquires or holds the baton waits in the pump of a pipelined transport,
\* and who reads the socket of one holds it.
Ties ==
    \A c \in Call :
      /\ baton.task[c] = "held" => Active(c)
      /\ baton.task[c] \in Acquires => pc[c] = "racing"
      /\ depth # 1 /\ pc[c] \in Reading => baton.task[c] = "held"
      /\ depth = 1 \/ pc[c] = "unsent" => baton.task[c] = "none"

\* A transport that is not pipelined has one exchange at a time.
Alone == depth = 1 => \A c, d \in Call : Active(c) /\ Active(d) => c = d

\* Exchanges are numbered in the order they are made.
Numbered == \A c \in Call : c > calls => pc[c] = "unsent"

\* Whoever is in the pump is a waiter of the open transport, or has been woken by
\* the close.
Awake ==
    /\ \A i, j \in DOMAIN waiters : waiters[i] = waiters[j] => i = j
    /\ \A c \in Call : Active(c) =>
         /\ up => c \in InFlight /\ pc[c] # "severed"
         /\ ~up => future[c] # Pending /\ pc[c] # "reading"

UdpInv ==
    /\ UdpTypeOK /\ BatonOK(baton)
    /\ Ties /\ Alone /\ Numbered /\ Awake

\* How the baton goes from b to r when exchange c leaves it.
Leaves(b, r, c) ==
    /\ r \in Baton /\ BatonOK(r)
    /\ c \in Call => r.task[c] \notin Acquires \cup {"held"}
    /\ c \in Call /\ b.task[c] = "none" => r.task[c] = "none"
    /\ \A d \in Call \ {c} : \/ r.task[d] = b.task[d]
                             \/ b.task[d] = "queued" /\ r.task[d] = "woken"

LEMMA InvInit == UdpInit => UdpInv
<1> SUFFICES ASSUME UdpInit PROVE UdpInv
  OBVIOUS
<1>1. /\ <<>> \in Seq(Call) /\ <<>> \in Seq(Datagram) /\ Len(<<>>) = 0
      /\ \A i \in DOMAIN <<>> : FALSE
  BY EmptySeq, LenProperties
<1>2. depth \in Nat /\ depth > 0
  BY UdpAssumption DEF UdpInit
<1>3. UdpTypeOK
  <2>1. /\ pc \in [Call -> Where] /\ future \in [Call -> Futures] /\ read \in [Call -> Datagram]
        /\ baton \in Baton
    BY <1>1 DEF UdpInit, Where, Futures, Datagram, FreshBaton, Baton, Acquiring
  <2>2. calls \in 0 .. MaxCalls
    BY UdpAssumption DEF UdpInit
  <2>3. /\ buffer \in Seq(Datagram) /\ waiters \in Seq(Call) /\ Len(waiters) <= depth
        /\ \A c \in InFlight : Active(c)
    BY <1>1, <1>2 DEF UdpInit, InFlight
  <2>4. wire \subseteq [port : Nat, answers : Call]
    BY DEF UdpInit
  <2> QED
    BY <2>1, <2>2, <2>3, <2>4 DEF UdpInit, UdpTypeOK, Futures, Baton
<1>4. BatonOK(baton)
  BY <1>1 DEF UdpInit, FreshBaton, BatonOK, LineOK, InLine
<1>5. Ties
  BY DEF UdpInit, FreshBaton, Ties, Acquires, Reading
<1>6. Alone /\ Numbered /\ Awake
  BY <1>1 DEF UdpInit, Alone, Numbered, Awake, Active
<1> QED
  BY <1>3, <1>4, <1>5, <1>6 DEF UdpInv

\* What every step of the exchange c that ends by closing keeps.
LEMMA Closing ==
    ASSUME UdpInv, NEW c \in Call \cup {0}, NEW f \in [Call -> Futures],
           \A d \in Call : f[d] = Pending => future[d] = Pending,
           c \in Call => Active(c),
           CloseBy(f, c), Leaves(baton, baton', c), UNCHANGED <<config, opens, calls, wire>>,
           port' \in Nat, read' \in [Call -> Datagram]
    PROVE  UdpInv'
<1>1. /\ up' = FALSE /\ buffer' = <<>> /\ waiters' = <<>>
      /\ future' = [d \in Call |-> IF d \in InFlight \ {c} /\ f[d] = Pending THEN Closed ELSE f[d]]
      /\ pc' = [d \in Call |-> CASE d = c -> "done"
                                 [] d # c /\ pc[d] = "reading" -> "severed"
                                 [] OTHER -> pc[d]]
  BY DEF CloseBy, FailedBy
<1>2. pc \in [Call -> Where] /\ depth \in Nat /\ depth > 0
  BY UdpAssumption DEF UdpInv, UdpTypeOK
<1>3. /\ \A d \in Call : pc'[d] = IF d = c THEN "done"
                                  ELSE IF pc[d] = "reading" THEN "severed" ELSE pc[d]
      /\ pc' \in [Call -> Where]
  <2>1. ASSUME NEW d \in Call
        PROVE  /\ pc'[d] = IF d = c THEN "done"
                           ELSE IF pc[d] = "reading" THEN "severed" ELSE pc[d]
               /\ pc'[d] \in Where
    BY <1>1, <1>2 DEF Where
  <2> QED
    BY <1>1, <2>1
<1>4. \A d \in Call : /\ Active(d)' <=> Active(d) /\ d # c
                      /\ pc'[d] = "racing" <=> pc[d] = "racing" /\ d # c
                      /\ pc'[d] \in Reading <=> pc[d] \in Reading /\ d # c
                      /\ pc'[d] = "unsent" <=> pc[d] = "unsent"
  BY <1>3 DEF Active, Reading
<1>5. /\ <<>> \in Seq(Call) /\ <<>> \in Seq(Datagram) /\ Len(<<>>) = 0
      /\ \A i \in DOMAIN <<>> : FALSE
  BY EmptySeq, LenProperties
<1>6. future' \in [Call -> Futures]
  BY <1>1 DEF Futures
<1>7. UdpTypeOK'
  <2>1. /\ buffer' \in Seq(Datagram) /\ waiters' \in Seq(Call) /\ Len(waiters') <= depth'
        /\ waiters' = <<>> /\ up' \in BOOLEAN
        /\ \A d \in InFlight' : Active(d)'
    <3>1. depth' = depth
      BY DEF config
    <3>2. Len(waiters') <= depth' /\ waiters' \in Seq(Call)
      BY <1>1, <1>2, <1>5, <3>1
    <3>3. \A d \in InFlight' : FALSE
      BY <1>1, <1>5 DEF InFlight
    <3> QED
      BY <1>1, <1>5, <3>2, <3>3
  <2>2. baton' \in Baton
    BY DEF Leaves
  <2>3. /\ format' \in {"3E", "4E"} /\ depth' \in Depths /\ (depth' > 1 => format' = "4E")
        /\ opens' \in Nat /\ calls' \in 0 .. MaxCalls
        /\ wire' \subseteq [port : Nat, answers : Call]
    BY DEF UdpInv, UdpTypeOK, config
  <2> QED
    BY <1>3, <1>6, <2>1, <2>2, <2>3 DEF UdpTypeOK, Baton, Futures
<1>8. BatonOK(baton')
  BY DEF Leaves
<1>9. Ties'
  <2>1. ASSUME NEW d \in Call
        PROVE  /\ baton'.task[d] = "held" => Active(d)'
               /\ baton'.task[d] \in Acquires => pc'[d] = "racing"
               /\ depth # 1 /\ pc'[d] \in Reading => baton'.task[d] = "held"
               /\ depth = 1 \/ pc'[d] = "unsent" => baton'.task[d] = "none"
    <3>1. CASE d = c
      <4>1. baton'.task[d] \notin Acquires \cup {"held"}
        BY <3>1 DEF Leaves
      <4>2. pc'[d] \notin Reading /\ pc'[d] # "unsent"
        BY <1>4, <3>1 DEF Active
      <4>3. depth = 1 => baton'.task[d] = "none"
        BY <3>1 DEF Leaves, UdpInv, Ties
      <4> QED
        BY <4>1, <4>2, <4>3
    <3>2. CASE d # c
      <4>1. \/ baton'.task[d] = baton.task[d]
            \/ baton.task[d] = "queued" /\ baton'.task[d] = "woken"
        BY <3>2 DEF Leaves
      <4> QED
        BY <1>4, <3>2, <4>1 DEF UdpInv, Ties, Acquires
    <3> QED
      BY <3>1, <3>2
  <2> QED
    BY <2>1 DEF Ties, config, Active
<1>10. Alone'
  BY <1>4 DEF UdpInv, Alone, config
<1>11. Numbered'
  BY <1>4 DEF UdpInv, Numbered
<1>12. Awake'
  <2>1. ASSUME NEW d \in Call, Active(d)'
        PROVE  future'[d] # Pending /\ pc'[d] # "reading"
    <3>1. Active(d) /\ d # c
      BY <1>4, <2>1
    <3>2. pc'[d] # "reading"
      BY <1>3, <3>1
    <3>3. CASE up
      BY <1>1, <3>1, <3>2, <3>3 DEF UdpInv, Awake, Pending, Closed
    <3>4. CASE ~up
      BY <1>1, <3>1, <3>2, <3>4 DEF UdpInv, Awake, Pending, Closed
    <3> QED
      BY <3>3, <3>4 DEF UdpInv, UdpTypeOK
  <2> QED
    BY <1>1, <1>5, <2>1 DEF Awake
<1> QED
  BY <1>7, <1>8, <1>9, <1>10, <1>11, <1>12 DEF UdpInv

\* What the last step of exchange c keeps when it returns its answer.
LEMMA Returning ==
    ASSUME UdpInv, NEW c \in Call, Active(c), NEW f \in [Call -> Futures],
           \A d \in Call : f[d] = Pending => future[d] = Pending,
           waiters' = Without(waiters, c), pc' = [pc EXCEPT ![c] = "done"], future' = f,
           UNCHANGED <<up, buffer, port, config, opens, calls, wire>>,
           Leaves(baton, baton', c), read' \in [Call -> Datagram]
    PROVE  UdpInv'
<1>1. /\ waiters \in Seq(Call) /\ \A i, j \in DOMAIN waiters : waiters[i] = waiters[j] => i = j
      /\ Len(waiters) \in Nat /\ Len(waiters) <= depth
      /\ depth \in Nat /\ pc \in [Call -> Where]
  <2>1. waiters \in Seq(Call) /\ Len(waiters) <= depth /\ depth \in Nat /\ pc \in [Call -> Where]
    BY UdpAssumption DEF UdpInv, UdpTypeOK
  <2> QED
    BY <2>1, LenProperties DEF UdpInv, Awake
<1>2. /\ waiters' \in Seq(Call) /\ Len(waiters') <= Len(waiters)
      /\ \A i, j \in DOMAIN waiters' : waiters'[i] = waiters'[j] => i = j
      /\ \A i \in DOMAIN waiters' :
           waiters'[i] # c /\ \E j \in DOMAIN waiters : waiters[j] = waiters'[i]
      /\ \A j \in DOMAIN waiters :
           waiters[j] # c => \E i \in DOMAIN waiters' : waiters'[i] = waiters[j]
  BY <1>1, WithoutEffect
<1>3. /\ InFlight' \subseteq InFlight \ {c}
      /\ \A d \in InFlight : d # c => d \in InFlight'
  BY <1>2 DEF InFlight
<1>4. /\ pc' \in [Call -> Where] /\ pc'[c] = "done"
      /\ \A d \in Call \ {c} : pc'[d] = pc[d]
  BY <1>1 DEF Where
<1>5. UdpTypeOK'
  <2>1. Len(waiters') <= depth' /\ (~up' => waiters' = <<>>)
    <3>1. Len(waiters') \in Nat /\ depth' = depth
      BY <1>2, LenProperties DEF config
    <3>2. Len(waiters') <= depth'
      BY <1>1, <1>2, <3>1
    <3>3. ASSUME ~up' PROVE waiters' = <<>>
      <4>1. waiters = <<>>
        BY <3>3 DEF UdpInv, UdpTypeOK
      <4> QED
        BY <1>1, <1>2, <3>1, <4>1, EmptySeq
    <3> QED
      BY <3>2, <3>3
  <2>2. \A d \in InFlight' : Active(d)'
    <3>1. \A d \in InFlight : d \in Call /\ Active(d)
      BY <1>1, ElementOfSeq DEF UdpInv, UdpTypeOK, InFlight
    <3> QED
      BY <1>3, <1>4, <3>1 DEF Active
  <2>3. baton' \in Baton
    BY DEF Leaves
  <2>4. /\ format' \in {"3E", "4E"} /\ depth' \in Depths /\ (depth' > 1 => format' = "4E")
        /\ up' \in BOOLEAN /\ port' \in Nat /\ buffer' \in Seq(Datagram)
        /\ opens' \in Nat /\ calls' \in 0 .. MaxCalls
        /\ wire' \subseteq [port : Nat, answers : Call]
    BY DEF UdpInv, UdpTypeOK, config
  <2> QED
    BY <1>2, <1>4, <2>1, <2>2, <2>3, <2>4 DEF UdpTypeOK, Baton, Futures
<1>6. BatonOK(baton')
  BY DEF Leaves
<1>7. Ties'
  <2>1. ASSUME NEW d \in Call
        PROVE  /\ baton'.task[d] = "held" => Active(d)'
               /\ baton'.task[d] \in Acquires => pc'[d] = "racing"
               /\ depth # 1 /\ pc'[d] \in Reading => baton'.task[d] = "held"
               /\ depth = 1 \/ pc'[d] = "unsent" => baton'.task[d] = "none"
    <3>1. CASE d = c
      BY <1>4, <3>1 DEF Leaves, UdpInv, Ties, Reading
    <3>2. CASE d # c
      <4>1. \/ baton'.task[d] = baton.task[d]
            \/ baton.task[d] = "queued" /\ baton'.task[d] = "woken"
        BY <3>2 DEF Leaves
      <4> QED
        BY <1>4, <3>2, <4>1 DEF UdpInv, Ties, Acquires, Active
    <3> QED
      BY <3>1, <3>2
  <2> QED
    BY <2>1 DEF Ties, config, Active
<1>8. \A d \in Call : Active(d)' <=> Active(d) /\ d # c
  BY <1>4 DEF Active
<1>9. Alone' /\ Numbered'
  BY <1>4, <1>8 DEF UdpInv, Alone, Numbered, config, Active
<1>10. Awake'
  <2>1. ASSUME NEW d \in Call, Active(d)'
        PROVE  /\ up => d \in InFlight' /\ pc'[d] # "severed"
               /\ ~up => future'[d] # Pending /\ pc'[d] # "reading"
    BY <1>3, <1>4, <1>8, <2>1 DEF UdpInv, Awake
  <2> QED
    BY <1>2, <2>1 DEF Awake
<1> QED
  BY <1>5, <1>6, <1>7, <1>9, <1>10 DEF UdpInv

-----------------------------------------------------------------------------
(***************************************************************************)
(* The steps.                                                              *)
(***************************************************************************)
LEMMA AcquireKeeps ==
    ASSUME UdpInv, NEW c \in Call, AcquireStep(c)
    PROVE  UdpInv'
<1>1. baton \in Baton /\ BatonOK(baton)
  BY DEF UdpInv, UdpTypeOK, Baton
<1>2. /\ baton' \in Baton /\ BatonOK(baton')
      /\ \/ baton.task[c] \in Acquires /\ baton'.task[c] \in {"queued", "held"}
         \/ baton.task[c] # "held" /\ baton'.task[c] = "none"
      /\ \A d \in Call \ {c} : \/ baton'.task[d] = baton.task[d]
                               \/ baton.task[d] = "queued" /\ baton'.task[d] = "woken"
  BY <1>1, AcquireEffect
<1>3. UNCHANGED <<format, depth, up, port, opens, calls, wire, buffer, waiters, pc, future, read>>
  BY DEF AcquireStep, config, network
<1>4. UdpTypeOK'
  BY <1>2, <1>3 DEF UdpInv, UdpTypeOK, Baton, InFlight, Active
<1>5. ASSUME NEW d \in Call
      PROVE  /\ baton'.task[d] = "held" => Active(d)'
             /\ baton'.task[d] \in Acquires => pc'[d] = "racing"
             /\ depth # 1 /\ pc'[d] \in Reading => baton'.task[d] = "held"
             /\ depth = 1 \/ pc'[d] = "unsent" => baton'.task[d] = "none"
  BY <1>2, <1>3 DEF UdpInv, Ties, Acquires, Active
<1>6. Ties'
  BY <1>3, <1>5 DEF Ties, Active
<1>7. (Alone /\ Numbered /\ Awake)'
  BY <1>3 DEF UdpInv, Alone, Numbered, Awake, Active, InFlight
<1> QED
  BY <1>2, <1>4, <1>6, <1>7 DEF UdpInv

\* Leaving the baton is what LetGo does.
LEMMA LetGoLeaves ==
    ASSUME UdpInv, NEW c \in Call
    PROVE  Leaves(baton, LetGo(baton, c), c)
<1>1. baton \in Baton /\ BatonOK(baton)
  BY DEF UdpInv, UdpTypeOK, Baton
<1> QED
  BY <1>1, LetGoEffect DEF Leaves

LEMMA OpenKeeps == ASSUME UdpInv, Open PROVE UdpInv'
<1>1. /\ up' = TRUE /\ port' = port + 1 /\ opens' = opens + 1 /\ baton' = FreshBaton
      /\ waiters' = <<>> /\ buffer' = <<>>
      /\ UNCHANGED <<format, depth, calls, wire, pc, future, read>>
      /\ \A c \in Call : ~Active(c)
  BY DEF Open, config
<1>2. /\ <<>> \in Seq(Call) /\ <<>> \in Seq(Datagram) /\ Len(<<>>) = 0
      /\ \A i \in DOMAIN <<>> : FALSE
  BY EmptySeq, LenProperties
<1>3. depth \in Nat /\ depth > 0
  BY UdpAssumption DEF UdpInv, UdpTypeOK
<1>4. UdpTypeOK'
  <2>1. waiters' \in Seq(Call) /\ Len(waiters') <= depth' /\ buffer' \in Seq(Datagram)
    BY <1>1, <1>2, <1>3
  <2>2. \A d \in InFlight' : FALSE
    BY <1>1, <1>2 DEF InFlight
  <2>3. baton' \in [locked : BOOLEAN, line : Seq(Call), task : [Call -> Acquiring]]
    BY <1>1, <1>2 DEF FreshBaton, Acquiring
  <2>4. up' \in BOOLEAN /\ port' \in Nat /\ opens' \in Nat
    BY <1>1 DEF UdpInv, UdpTypeOK
  <2> QED
    BY <1>1, <2>1, <2>2, <2>3, <2>4 DEF UdpInv, UdpTypeOK
<1>5. BatonOK(baton')
  BY <1>1, <1>2 DEF FreshBaton, BatonOK, LineOK, InLine
<1>6. Ties'
  <2>1. ASSUME NEW c \in Call PROVE baton'.task[c] = "none" /\ pc'[c] \notin Reading
    BY <1>1, <2>1 DEF FreshBaton, Reading, Active
  <2> QED
    BY <2>1 DEF Ties, Acquires
<1>7. (Alone /\ Numbered /\ Awake)'
  BY <1>1, <1>2 DEF UdpInv, Alone, Numbered, Awake, Active
<1> QED
  BY <1>4, <1>5, <1>6, <1>7 DEF UdpInv

LEMMA CloseKeeps == ASSUME UdpInv, Close PROVE UdpInv'
<1>1. 0 \in Call \cup {0} /\ 0 \notin Call
  BY UdpAssumption DEF Call
<1>2. CloseBy(future, 0) /\ UNCHANGED <<config, port, opens, calls, wire, read, baton>>
  BY DEF Close
<1>3. /\ future \in [Call -> Futures] /\ port' \in Nat /\ read' \in [Call -> Datagram]
      /\ baton \in Baton /\ BatonOK(baton)
  BY <1>2 DEF UdpInv, UdpTypeOK, Futures, Baton
<1>4. Leaves(baton, baton', 0)
  BY <1>1, <1>2, <1>3 DEF Leaves
<1> QED
  BY <1>1, <1>2, <1>3, <1>4, Closing

LEMMA ArrivalKeeps == ASSUME UdpInv, Arrive \/ Stray PROVE UdpInv'
<1>1. UNCHANGED <<format, depth, up, port, opens, calls, waiters, pc, future, read, baton>>
  BY DEF Arrive, Stray, config
<1>2. buffer' \in Seq(Datagram) /\ wire' \subseteq [port : Nat, answers : Call]
  <2>1. buffer \in Seq(Datagram) /\ wire \subseteq [port : Nat, answers : Call]
    BY DEF UdpInv, UdpTypeOK
  <2>2. CASE Arrive
    <3>1. PICK a \in wire : buffer' = Append(buffer, a.answers) /\ wire' \subseteq wire
      BY <2>2 DEF Arrive
    <3>2. a.answers \in Datagram
      BY <2>1, <3>1 DEF Datagram
    <3> QED
      BY <2>1, <3>1, <3>2, AppendProperties
  <2>3. CASE Stray
    BY <2>1, <2>3, AppendProperties DEF Stray, Datagram
  <2> QED
    BY <2>2, <2>3
<1>3. UdpTypeOK'
  BY <1>1, <1>2 DEF UdpInv, UdpTypeOK, InFlight, Active
<1> QED
  BY <1>1, <1>3 DEF UdpInv, BatonOK, LineOK, Ties, Alone, Numbered, Awake, Active, InFlight

LEMMA ExchangeKeeps == ASSUME UdpInv, Exchange PROVE UdpInv'
<1>0. PICK c \in Call : c = calls + 1
  BY DEF Exchange
<1>1. /\ up /\ Len(waiters) < depth /\ calls' = c /\ buffer' = Drained
      /\ wire' = wire \cup {[port |-> port, answers |-> c]}
      /\ waiters' = Append(waiters, c) /\ pc' = [pc EXCEPT ![c] = Pumping]
      /\ baton' = AskBaton(baton, c)
      /\ UNCHANGED <<format, depth, up, port, opens, future, read>>
  BY <1>0 DEF Exchange, config
<1>2. /\ calls \in Nat /\ port \in Nat /\ waiters \in Seq(Call) /\ Len(waiters) \in Nat
      /\ pc \in [Call -> Where] /\ depth \in Nat /\ depth > 0 /\ baton \in Baton
      /\ BatonOK(baton)
  <2>1. waiters \in Seq(Call)
    BY DEF UdpInv, UdpTypeOK
  <2> QED
    BY <2>1, UdpAssumption, LenProperties DEF UdpInv, UdpTypeOK, Baton
<1>3. /\ pc[c] = "unsent" /\ baton.task[c] = "none" /\ c \in 0 .. MaxCalls
      /\ Pumping = IF depth = 1 THEN "reading" ELSE "racing"
  <2>1. c > calls
    BY <1>0, <1>2
  <2>2. c \in 0 .. MaxCalls
    BY <1>0, UdpAssumption DEF Call
  <2> QED
    BY <1>0, <2>1, <2>2 DEF UdpInv, Numbered, Ties, Pumping, Solo
<1>4. /\ baton' \in Baton /\ BatonOK(baton')
      /\ baton'.task[c] = IF depth = 1 THEN "none" ELSE "created"
      /\ \A d \in Call \ {c} : baton'.task[d] = baton.task[d]
  BY <1>1, <1>2, <1>3, AskEffect
<1>5. /\ waiters' \in Seq(Call) /\ Len(waiters') = Len(waiters) + 1
      /\ DOMAIN waiters' = 1 .. Len(waiters) + 1 /\ DOMAIN waiters = 1 .. Len(waiters)
      /\ \A i \in DOMAIN waiters : waiters'[i] = waiters[i]
      /\ waiters'[Len(waiters) + 1] = c
  BY <1>1, <1>2, AppendProperties, LenProperties
<1>6. InFlight' = InFlight \cup {c}
  BY <1>2, <1>5 DEF InFlight
<1>7. /\ pc'[c] = IF depth = 1 THEN "reading" ELSE "racing"
      /\ \A d \in Call \ {c} : pc'[d] = pc[d]
      /\ pc' \in [Call -> Where]
  BY <1>1, <1>2, <1>3 DEF Where
<1>8. ~Active(c) /\ Active(c)' /\ \A d \in Call \ {c} : Active(d)' <=> Active(d)
  BY <1>3, <1>7 DEF Active
<1>9. UdpTypeOK'
  <2>1. wire' \subseteq [port : Nat, answers : Call]
    BY <1>1, <1>2 DEF UdpInv, UdpTypeOK
  <2>2. buffer' \in Seq(Datagram)
    BY <1>1, EmptySeq DEF UdpInv, UdpTypeOK, Drained
  <2>3. Len(waiters') <= depth' /\ waiters' \in Seq(Call)
    BY <1>1, <1>2, <1>5
  <2>4. \A d \in InFlight' : Active(d)'
    <3>1. \A d \in InFlight : d \in Call /\ Active(d)
      BY <1>2, ElementOfSeq DEF UdpInv, UdpTypeOK, InFlight
    <3> QED
      BY <1>6, <1>8, <3>1
  <2>5. /\ format' \in {"3E", "4E"} /\ depth' \in Depths /\ (depth' > 1 => format' = "4E")
        /\ up' \in BOOLEAN /\ up' /\ port' \in Nat /\ opens' \in Nat /\ calls' \in 0 .. MaxCalls
        /\ future' \in [Call -> Futures] /\ read' \in [Call -> Datagram]
    BY <1>1, <1>3 DEF UdpInv, UdpTypeOK, Futures
  <2> QED
    BY <1>4, <1>7, <2>1, <2>2, <2>3, <2>4, <2>5 DEF UdpTypeOK, Baton, Futures
<1>10. Ties'
  <2>1. ASSUME NEW d \in Call
        PROVE  /\ baton'.task[d] = "held" => Active(d)'
               /\ baton'.task[d] \in Acquires => pc'[d] = "racing"
               /\ depth # 1 /\ pc'[d] \in Reading => baton'.task[d] = "held"
               /\ depth = 1 \/ pc'[d] = "unsent" => baton'.task[d] = "none"
    <3>1. CASE d = c
      BY <1>4, <1>7, <1>8, <3>1 DEF Reading, Acquires
    <3>2. CASE d # c
      BY <1>4, <1>7, <1>8, <3>2 DEF UdpInv, Ties
    <3> QED
      BY <3>1, <3>2
  <2> QED
    BY <1>1, <2>1 DEF Ties, Active
<1>11. Alone'
  <2>1. ASSUME depth = 1, NEW d \in Call PROVE ~Active(d)
    <3>1. waiters = <<>>
      BY <1>1, <1>2, <2>1, EmptySeq
    <3>2. \A i \in DOMAIN waiters : FALSE
      BY <1>2, <3>1, LenProperties, EmptySeq
    <3> QED
      BY <1>1, <3>2 DEF UdpInv, Awake, InFlight
  <2> QED
    BY <1>1, <1>8, <2>1 DEF Alone
<1>12. Numbered'
  BY <1>0, <1>1, <1>2, <1>7 DEF UdpInv, Numbered, Call
<1>13. Awake'
  <2>1. c \notin InFlight
    BY <1>8 DEF UdpInv, UdpTypeOK
  <2>2. ASSUME NEW i \in DOMAIN waiters', NEW j \in DOMAIN waiters', waiters'[i] = waiters'[j]
        PROVE  i = j
    <3>1. \A k \in DOMAIN waiters : waiters'[k] # c
      BY <1>5, <2>1 DEF InFlight
    <3> QED
      BY <1>2, <1>5, <2>2, <3>1 DEF UdpInv, Awake
  <2>3. ASSUME NEW d \in Call, Active(d)' PROVE d \in InFlight' /\ pc'[d] # "severed"
    <3>1. CASE d = c
      BY <1>6, <1>7, <3>1
    <3>2. CASE d # c
      BY <1>1, <1>6, <1>7, <1>8, <2>3, <3>2 DEF UdpInv, Awake
    <3> QED
      BY <3>1, <3>2
  <2> QED
    BY <1>1, <2>2, <2>3 DEF Awake
<1> QED
  BY <1>4, <1>9, <1>10, <1>11, <1>12, <1>13 DEF UdpInv

\* The last step of an exchange, returning or closing.
LEMMA EndKeeps ==
    ASSUME UdpInv, NEW c \in Call, Active(c), NEW f \in [Call -> Futures],
           \A d \in Call : f[d] = Pending => future[d] = Pending,
           End(f, c), Leaves(baton, baton', c),
           UNCHANGED <<config, port, opens, calls, wire>>, read' \in [Call -> Datagram]
    PROVE  UdpInv'
<1>1. port' \in Nat
  BY DEF UdpInv, UdpTypeOK
<1>2. CASE CloseBy(f, c)
  <2>1. c \in Call \cup {0}
    OBVIOUS
  <2> QED
    BY <1>1, <1>2, <2>1, Closing
<1>3. CASE /\ waiters' = Without(waiters, c) /\ pc' = [pc EXCEPT ![c] = "done"]
           /\ future' = f /\ UNCHANGED <<up, buffer>>
  BY <1>3, Returning
<1> QED
  BY <1>2, <1>3 DEF End

LEMMA AnsweredKeeps == ASSUME UdpInv, NEW c \in Call, Answered(c) PROVE UdpInv'
<1>1. /\ Active(c) /\ End(future, c) /\ baton' = LetGo(baton, c)
      /\ UNCHANGED <<config, port, opens, calls, wire, read>>
  BY DEF Answered, Active
<1>2. Leaves(baton, baton', c)
  BY <1>1, LetGoLeaves
<1>3. future \in [Call -> Futures] /\ read' \in [Call -> Datagram]
  BY <1>1 DEF UdpInv, UdpTypeOK, Futures
<1> QED
  BY <1>1, <1>2, <1>3, EndKeeps

\* An exchange that takes its place at the socket, or has a datagram.
LEMMA ReaderKeeps == ASSUME UdpInv, NEW c \in Call, Park(c) \/ Receive(c) PROVE UdpInv'
<1>1. UNCHANGED <<format, depth, up, port, opens, calls, wire, waiters, future, baton>>
  BY DEF Park, Receive, config, network
<1>2. /\ pc \in [Call -> Where] /\ waiters \in Seq(Call)
      /\ buffer \in Seq(Datagram) /\ read \in [Call -> Datagram]
      /\ up \in BOOLEAN
  BY DEF UdpInv, UdpTypeOK
<1>3. /\ up
      /\ \/ pc[c] = "racing" /\ baton.task[c] = "held"
         \/ pc[c] = "reading"
  BY <1>2 DEF UdpInv, Awake, Park, Receive, Active
<1>4. /\ pc' \in [Call -> Where] /\ pc'[c] \in {"reading", "received"}
      /\ \A d \in Call \ {c} : pc'[d] = pc[d]
  BY <1>2 DEF Park, Receive, Where
<1>5. \A d \in Call : Active(d)' <=> Active(d)
  BY <1>3, <1>4 DEF Active
<1>6. buffer' \in Seq(Datagram) /\ read' \in [Call -> Datagram]
  <2>1. CASE Park(c)
    BY <1>2, <2>1 DEF Park, network
  <2>2. CASE Receive(c)
    BY <1>2, <2>2, HeadTailProperties DEF Receive
  <2> QED
    BY <2>1, <2>2
<1>7. UdpTypeOK'
  <2>1. \A d \in InFlight' : Active(d)'
    <3>1. \A d \in InFlight : d \in Call
      BY <1>2, ElementOfSeq DEF InFlight
    <3> QED
      BY <1>1, <1>5, <3>1 DEF UdpInv, UdpTypeOK, InFlight
  <2> QED
    BY <1>1, <1>4, <1>6, <2>1 DEF UdpInv, UdpTypeOK
<1>8. Ties'
  <2>1. ASSUME NEW d \in Call
        PROVE  /\ baton'.task[d] = "held" => Active(d)'
               /\ baton'.task[d] \in Acquires => pc'[d] = "racing"
               /\ depth # 1 /\ pc'[d] \in Reading => baton'.task[d] = "held"
               /\ depth = 1 \/ pc'[d] = "unsent" => baton'.task[d] = "none"
    <3>1. CASE d = c
      BY <1>1, <1>3, <1>4, <1>5, <3>1 DEF UdpInv, Ties, Acquires, Reading
    <3>2. CASE d # c
      BY <1>1, <1>4, <1>5, <3>2 DEF UdpInv, Ties
    <3> QED
      BY <3>1, <3>2
  <2> QED
    BY <1>1, <2>1 DEF Ties, Active
<1>9. Alone' /\ Numbered'
  BY <1>1, <1>3, <1>4, <1>5 DEF UdpInv, Alone, Numbered
<1>10. Awake'
  <2>1. ASSUME NEW d \in Call, Active(d)' PROVE d \in InFlight' /\ pc'[d] # "severed"
    BY <1>1, <1>3, <1>4, <1>5, <2>1 DEF UdpInv, Awake, InFlight
  <2> QED
    BY <1>1, <1>3, <2>1 DEF UdpInv, Awake
<1> QED
  BY <1>1, <1>7, <1>8, <1>9, <1>10 DEF UdpInv

\* What a dispatch makes of the futures: nobody's answer is taken back.
LEMMA DeliveredEffect ==
    ASSUME UdpInv, NEW d \in Datagram
    PROVE  /\ Delivered(d) \in [Call -> Futures]
           /\ \A c \in Call : Delivered(d)[c] = Pending => future[c] = Pending
           /\ \A c \in Call : \/ Delivered(d)[c] = future[c]
                              \/ Delivered(d)[c] = Got(d) /\ d # Foreign /\ Matches(d, c)
<1>1. future \in [Call -> Futures]
  BY DEF UdpInv, UdpTypeOK, Futures
<1>2. \A c \in Call : \/ Delivered(d)[c] = future[c]
                      \/ Delivered(d)[c] = Got(d) /\ d # Foreign /\ Matches(d, c)
  BY DEF Delivered, Claimants
<1>3. Got(d) \in Futures /\ Got(d) # Pending
  BY DEF Futures, Got, Pending
<1>4. Delivered(d) \in [Call -> Futures]
  BY <1>1, <1>3 DEF Delivered
<1> QED
  BY <1>2, <1>3, <1>4

LEMMA DispatchKeeps == ASSUME UdpInv, NEW c \in Call, Dispatch(c) PROVE UdpInv'
<1> DEFINE f == Delivered(read[c])
           b == LetGo(baton, c)
<1>1. /\ pc[c] = "received" /\ Active(c) /\ read' = [read EXCEPT ![c] = Foreign]
      /\ UNCHANGED <<config, port, opens, calls, wire>>
  BY DEF Dispatch, Active
<1>2. /\ read[c] \in Datagram /\ read' \in [Call -> Datagram] /\ pc \in [Call -> Where]
      /\ up \in BOOLEAN /\ waiters \in Seq(Call) /\ depth \in Nat
  BY <1>1, UdpAssumption DEF UdpInv, UdpTypeOK, Datagram
<1>3. f \in [Call -> Futures] /\ \A d \in Call : f[d] = Pending => future[d] = Pending
  BY <1>2, DeliveredEffect
<1>4. Leaves(baton, b, c)
  BY LetGoLeaves
<1>5. \/ /\ baton' = b
         /\ End(f, c)
      \/ /\ f[c] = Pending /\ baton' = AskBaton(b, c) /\ pc' = [pc EXCEPT ![c] = Pumping]
         /\ future' = f /\ UNCHANGED <<up, buffer, waiters>>
  BY DEF Dispatch
<1>6. b.task[c] = "none"
  <2>1. baton \in Baton /\ BatonOK(baton)
    BY DEF UdpInv, UdpTypeOK, Baton
  <2>2. baton.task[c] = "none" \/ baton.task[c] = "held"
    BY <1>1 DEF UdpInv, Ties, Reading
  <2> QED
    BY <2>1, <2>2, LetGoEffect
<1> HIDE DEF f, b
<1>7. CASE /\ baton' = b
           /\ End(f, c)
  BY <1>1, <1>2, <1>3, <1>4, <1>7, EndKeeps
<1>8. CASE /\ f[c] = Pending /\ baton' = AskBaton(b, c) /\ pc' = [pc EXCEPT ![c] = Pumping]
           /\ future' = f /\ UNCHANGED <<up, buffer, waiters>>
  <2>1. /\ baton' \in Baton /\ BatonOK(baton')
        /\ baton'.task[c] = IF depth = 1 THEN "none" ELSE "created"
        /\ \A d \in Call \ {c} : baton'.task[d] = b.task[d]
    BY <1>4, <1>6, <1>8, AskEffect DEF Leaves
  <2>2. /\ pc'[c] = IF depth = 1 THEN "reading" ELSE "racing"
        /\ \A d \in Call \ {c} : pc'[d] = pc[d]
        /\ pc' \in [Call -> Where]
    BY <1>2, <1>8 DEF Pumping, Solo, Where
  <2>3. \A d \in Call : Active(d)' <=> Active(d)
    BY <1>1, <2>2 DEF Active
  <2>4. UdpTypeOK'
    <3>1. \A d \in InFlight' : Active(d)'
      <4>1. \A d \in InFlight : d \in Call
        BY <1>2, ElementOfSeq DEF InFlight
      <4> QED
        BY <1>8, <2>3, <4>1 DEF UdpInv, UdpTypeOK, InFlight
    <3> QED
      BY <1>1, <1>2, <1>3, <1>8, <2>1, <2>2, <3>1 DEF UdpInv, UdpTypeOK, Baton, Futures, config
  <2>5. Ties'
    <3>1. ASSUME NEW d \in Call
          PROVE  /\ baton'.task[d] = "held" => Active(d)'
                 /\ baton'.task[d] \in Acquires => pc'[d] = "racing"
                 /\ depth # 1 /\ pc'[d] \in Reading => baton'.task[d] = "held"
                 /\ depth = 1 \/ pc'[d] = "unsent" => baton'.task[d] = "none"
      <4>1. CASE d = c
        BY <2>1, <2>2, <4>1 DEF Acquires, Reading
      <4>2. CASE d # c
        <5>1. \/ baton'.task[d] = baton.task[d]
              \/ baton.task[d] = "queued" /\ baton'.task[d] = "woken"
          BY <1>4, <2>1, <4>2 DEF Leaves
        <5> QED
          BY <2>2, <2>3, <4>2, <5>1 DEF UdpInv, Ties, Acquires
      <4> QED
        BY <4>1, <4>2
    <3> QED
      BY <1>1, <3>1 DEF Ties, Active, config
  <2>6. Alone' /\ Numbered'
    BY <1>1, <2>2, <2>3 DEF UdpInv, Alone, Numbered, config
  <2>7. up
    BY <1>1, <1>2, <1>3, <1>8 DEF UdpInv, Awake
  <2>8. Awake'
    <3>1. ASSUME NEW d \in Call, Active(d)' PROVE d \in InFlight' /\ pc'[d] # "severed"
      BY <1>8, <2>2, <2>3, <2>7, <3>1 DEF UdpInv, Awake, InFlight
    <3> QED
      BY <1>8, <2>7, <3>1 DEF UdpInv, Awake
  <2> QED
    BY <2>1, <2>4, <2>5, <2>6, <2>8 DEF UdpInv
<1> QED
  BY <1>5, <1>7, <1>8

\* An exchange that is lost, cancelled or severed closes the socket.
LEMMA FailureKeeps ==
    ASSUME UdpInv, NEW c \in Call, Lose(c) \/ Cancel(c) \/ Severed(c) PROVE UdpInv'
<1>1. /\ Active(c) /\ baton' = LetGo(baton, c) /\ CloseBy(future, c)
      /\ UNCHANGED <<config, opens, calls, wire>>
      /\ read' \in {read, [read EXCEPT ![c] = Foreign]}
      /\ port' \in {port, port + 1}
  BY DEF Lose, Cancel, Severed, Active, Rebound
<1>2. Leaves(baton, baton', c)
  BY <1>1, LetGoLeaves
<1>3. future \in [Call -> Futures] /\ read' \in [Call -> Datagram] /\ port' \in Nat
  <2>1. /\ future \in [Call -> Futures] /\ read \in [Call -> Datagram] /\ port \in Nat
        /\ Foreign \in Datagram
    BY DEF UdpInv, UdpTypeOK, Futures, Datagram
  <2>2. [read EXCEPT ![c] = Foreign] \in [Call -> Datagram]
    BY <2>1
  <2> QED
    BY <1>1, <2>1, <2>2
<1>4. c \in Call \cup {0}
  OBVIOUS
<1> QED
  BY <1>1, <1>2, <1>3, <1>4, Closing

-----------------------------------------------------------------------------
(***************************************************************************)
(* The theorems.                                                           *)
(***************************************************************************)
\* UdpInv is inductive: nothing the transport, its tasks or the network does, in
\* any order, breaks it.
THEOREM UdpInvariant == UdpSpec => []UdpInv
<1>1. UdpInit => UdpInv
  BY InvInit
<1>2. ASSUME UdpInv, [UdpNext]_udpVars PROVE UdpInv'
  <2>1. CASE Open
    BY <1>2, <2>1, OpenKeeps
  <2>2. CASE Close
    BY <1>2, <2>2, CloseKeeps
  <2>3. CASE Arrive \/ Stray
    BY <1>2, <2>3, ArrivalKeeps
  <2>4. CASE Exchange
    BY <1>2, <2>4, ExchangeKeeps
  <2>5. ASSUME NEW c \in Call, AcquireStep(c) PROVE UdpInv'
    BY <1>2, <2>5, AcquireKeeps
  <2>6. ASSUME NEW c \in Call, Step(c) PROVE UdpInv'
    <3>1. CASE Answered(c)
      BY <1>2, <3>1, AnsweredKeeps
    <3>2. CASE Park(c) \/ Receive(c)
      BY <1>2, <3>2, ReaderKeeps
    <3>3. CASE Dispatch(c)
      BY <1>2, <3>3, DispatchKeeps
    <3>4. CASE Severed(c)
      BY <1>2, <3>4, FailureKeeps
    <3> QED
      BY <2>6, <3>1, <3>2, <3>3, <3>4 DEF Step
  <2>7. ASSUME NEW c \in Call, Lose(c) \/ Cancel(c) PROVE UdpInv'
    BY <1>2, <2>7, FailureKeeps
  <2>8. CASE UNCHANGED udpVars
    BY <1>2, <2>8 DEF udpVars, config, network, UdpInv, UdpTypeOK, BatonOK, LineOK, Ties,
                      Alone, Numbered, Awake, Active, InFlight
  <2> QED
    BY <1>2, <2>1, <2>2, <2>3, <2>4, <2>5, <2>6, <2>7, <2>8 DEF UdpNext
<1> QED
  BY <1>1, <1>2, PTL DEF UdpSpec

\* The types: never more than `depth` waiters, each of an exchange in its pump, and
\* none on a closed transport.
THEOREM UdpTypeCorrect == UdpSpec => []UdpTypeOK
<1>1. UdpInv => UdpTypeOK
  BY DEF UdpInv
<1> QED
  BY <1>1, UdpInvariant, PTL

\* Two coroutines never read the socket at once.
THEOREM NeverTwoReaders == UdpSpec => []OneReader
<1>1. UdpInv => OneReader
  <2> SUFFICES ASSUME UdpInv, NEW c \in Call, NEW d \in Call, pc[c] \in Reading, pc[d] \in Reading
               PROVE  c = d
    BY DEF OneReader, Reading
  <2>1. CASE depth = 1
    BY <2>1 DEF UdpInv, Alone, Active, Reading
  <2>2. CASE depth # 1
    BY <2>2 DEF UdpInv, Ties, BatonOK
  <2> QED
    BY <2>1, <2>2
<1> QED
  BY <1>1, UdpInvariant, PTL

\* The baton is held by an exchange in its pump or about to be taken.
THEOREM BatonSafe == UdpSpec => []BatonIsNeverStranded
<1>1. UdpInv => BatonIsNeverStranded
  <2> SUFFICES ASSUME UdpInv PROVE BatonIsNeverStranded
    OBVIOUS
  <2>1. baton.line \in Seq(Call)
    BY DEF UdpInv, UdpTypeOK
  <2>2. ASSUME ~baton.locked, baton.line # <<>>
        PROVE  \E i \in DOMAIN baton.line :
                 baton.task[baton.line[i]] \in {"woken", "cancelled", "dying"}
    <3>1. 1 \in DOMAIN baton.line
      BY <2>1, <2>2, LenProperties, EmptySeq
    <3> QED
      BY <2>2, <3>1 DEF UdpInv, BatonOK, LineOK, InLine
  <2>3. baton.locked => \E c \in Call : baton.task[c] = "held" /\ Active(c)
    BY DEF UdpInv, BatonOK, Ties
  <2> QED
    BY <2>2, <2>3 DEF BatonIsNeverStranded
<1> QED
  BY <1>1, UdpInvariant, PTL

\* Nobody waits on a transport that is closed.
THEOREM CloseWakes == UdpSpec => []ClosedWakesEverybody
<1>1. UdpInv => ClosedWakesEverybody
  BY DEF UdpInv, Awake, Active, ClosedWakesEverybody
<1> QED
  BY <1>1, UdpInvariant, PTL

\* With a serial in the frame an exchange is only ever given its own answer,
\* whatever the network loses, delays, repeats or makes up.
THEOREM SerialKeepsAnswers == UdpSpec => [](format = "4E" => AnswerIsMine)
<1> DEFINE Mine == format = "4E" => AnswerIsMine
<1>1. UdpInit => Mine
  BY DEF UdpInit, AnswerIsMine
<1>2. ASSUME UdpInv, Mine, [UdpNext]_udpVars PROVE Mine'
  <2> SUFFICES ASSUME format = "4E", NEW c \in Call PROVE future'[c] \in {Pending, Closed, Got(c)}
    <3>1. format' = format
      BY <1>2 DEF UdpNext, udpVars, config, Open, Close, Arrive, Stray, Exchange, AcquireStep,
                  Step, Answered, Park, Receive, Dispatch, Severed, Lose, Cancel
    <3> QED
      BY <3>1 DEF AnswerIsMine
  <2> DEFINE Good(f) == f[c] \in {Pending, Closed, Got(c)}
  <2>1. Good(future)
    BY <1>2 DEF AnswerIsMine
  <2>2. \A f, d : Good(f) => Good(FailedBy(f, d))
    BY DEF FailedBy
  <2>3. \A f, d : Good(f) /\ (End(f, d) \/ CloseBy(f, d)) => Good(future)'
    BY <2>2 DEF End, CloseBy
  <2>4. ASSUME NEW d \in Call, Dispatch(d) PROVE Good(future)'
    <3>1. Good(Delivered(read[d]))
      <4>1. read[d] \in Datagram
        BY <1>2 DEF UdpInv, UdpTypeOK
      <4> QED
        BY <1>2, <2>1, <4>1, DeliveredEffect DEF Matches
    <3> QED
      BY <2>3, <2>4, <3>1 DEF Dispatch
  <2>5. ASSUME NEW d \in Call, Answered(d) \/ Lose(d) \/ Cancel(d) \/ Severed(d)
        PROVE  Good(future)'
    BY <2>1, <2>3, <2>5 DEF Answered, Lose, Cancel, Severed
  <2>6. CASE Close
    BY <2>1, <2>3, <2>6 DEF Close
  <2>7. CASE UNCHANGED future
    BY <2>1, <2>7
  <2> QED
    BY <1>2, <2>4, <2>5, <2>6, <2>7 DEF UdpNext, Step, Open, Arrive, Stray, Exchange,
                                        AcquireStep, Park, Receive, udpVars
<1> QED
  BY <1>1, <1>2, UdpInvariant, PTL DEF UdpSpec

-----------------------------------------------------------------------------
(***************************************************************************)
(* No answer is thrown away.                                               *)
(***************************************************************************)
\* What is in hand stays there when the socket is left alone.
LEMMA HandKept ==
    ASSUME NEW c, c \in InHand, UNCHANGED <<buffer, read>>,
           \A d \in Call : pc[d] = "received" => pc'[d] = "received"
    PROVE  c \in InHand'
BY DEF InHand

\* The exchange whose answer it is, and which is still in flight, is the one claimant.
LEMMA OwnAnswer ==
    ASSUME UdpInv, NEW c \in InFlight, future[c] = Pending
    PROVE  Delivered(c)[c] = Got(c)
<1>1. waiters \in Seq(Call) /\ Len(waiters) <= depth /\ c \in Call /\ c # Foreign
      /\ Len(waiters) \in Nat /\ DOMAIN waiters = 1 .. Len(waiters)
  <2>1. waiters \in Seq(Call) /\ Len(waiters) <= depth
    BY DEF UdpInv, UdpTypeOK
  <2>2. c \in Call
    BY <2>1, ElementOfSeq DEF InFlight
  <2> QED
    BY <2>1, <2>2, LenProperties DEF Call, Foreign
<1>2. PICK i \in DOMAIN waiters : waiters[i] = c
  BY DEF InFlight
<1>3. i \in Claimants(c)
  BY <1>1, <1>2 DEF Claimants, Matches
<1>4. ASSUME NEW j \in Claimants(c) PROVE j = i
  <2>1. j \in DOMAIN waiters /\ Matches(c, waiters[j])
    BY <1>4 DEF Claimants
  <2>2. CASE format = "3E"
    <3>1. depth = 1
      BY <2>2, UdpAssumption DEF UdpInv, UdpTypeOK
    <3> QED
      BY <1>1, <2>1, <3>1
  <2>3. CASE format # "3E"
    <3>1. waiters[j] = c
      <4>1. waiters[j] \in Call
        BY <1>1, <2>1, ElementOfSeq
      <4> QED
        BY <1>1, <2>1, <2>3, <4>1 DEF Matches, Foreign
    <3> QED
      BY <1>2, <2>1, <3>1 DEF UdpInv, Awake
  <2> QED
    BY <2>2, <2>3
<1>5. i \in Nat /\ \A j \in Claimants(c) : i <= j
  BY <1>1, <1>4
<1> QED
  BY <1>1, <1>2, <1>3, <1>5 DEF Delivered

\* As long as the socket stays, neither the drain, nor a dispatch, nor another reader
\* throws away the answer of an exchange in flight.
THEOREM NothingIsThrownAway == UdpSpec => NoAnswerThrownAway
<1>1. UdpInv /\ [UdpNext]_udpVars =>
        [\A c \in InFlight :
           up /\ up' /\ future[c] = Pending /\ c \in InHand =>
             c \in InHand' \/ future'[c] = Got(c)]_udpVars
  <2> SUFFICES ASSUME UdpInv, UdpNext, NEW c \in InFlight, up, up', future[c] = Pending,
                      c \in InHand
               PROVE  c \in InHand' \/ future'[c] = Got(c)
    OBVIOUS
  <2>1. /\ waiters # <<>>
        /\ pc \in [Call -> Where] /\ read \in [Call -> Datagram] /\ buffer \in Seq(Datagram)
        /\ calls \in Nat
    BY DEF InFlight, UdpInv, UdpTypeOK
  <2>2. ~Open
    BY DEF Open
  <2>3. \A f, d : ~CloseBy(f, d)
    BY DEF CloseBy
  <2>4. CASE Arrive \/ Stray
    <3>1. PICK d \in Datagram : buffer' = Append(buffer, d) /\ UNCHANGED <<read, pc>>
      BY <2>4 DEF Arrive, Stray, UdpInv, UdpTypeOK, Datagram
    <3>2. \A i \in DOMAIN buffer : i \in DOMAIN buffer' /\ buffer'[i] = buffer[i]
      BY <2>1, <3>1, AppendProperties, LenProperties
    <3> QED
      BY <3>1, <3>2 DEF InHand
  <2>5. CASE Exchange
    <3>1. calls + 1 \in Call /\ pc' = [pc EXCEPT ![calls + 1] = Pumping]
          /\ UNCHANGED <<buffer, read>>
      BY <2>1, <2>5 DEF Exchange, Drained
    <3>2. pc[calls + 1] = "unsent"
      BY <2>1, <3>1 DEF UdpInv, Numbered
    <3> QED
      BY <2>1, <3>1, <3>2, HandKept
  <2>6. ASSUME NEW d \in Call, AcquireStep(d) PROVE c \in InHand'
    BY <2>6, HandKept DEF AcquireStep, network
  <2>7. ASSUME NEW d \in Call, Answered(d) PROVE c \in InHand'
    <3>1. pc[d] = "racing" /\ pc' = [pc EXCEPT ![d] = "done"] /\ UNCHANGED <<buffer, read>>
      BY <2>3, <2>7 DEF Answered, End
    <3> QED
      BY <2>1, <3>1, HandKept
  <2>8. ASSUME NEW d \in Call, Park(d) PROVE c \in InHand'
    <3>1. pc[d] = "racing" /\ pc' = [pc EXCEPT ![d] = "reading"] /\ UNCHANGED <<buffer, read>>
      BY <2>8 DEF Park, network
    <3> QED
      BY <2>1, <3>1, HandKept
  <2>9. ASSUME NEW d \in Call, Receive(d) PROVE c \in InHand'
    <3>1. /\ pc[d] = "reading" /\ buffer # <<>>
          /\ read' = [read EXCEPT ![d] = Head(buffer)] /\ buffer' = Tail(buffer)
          /\ pc' = [pc EXCEPT ![d] = "received"]
      BY <2>9 DEF Receive
    <3>2. read'[d] = Head(buffer) /\ pc'[d] = "received"
      BY <2>1, <3>1
    <3>3. CASE \E e \in Call : pc[e] = "received" /\ read[e] = c
      <4>1. PICK e \in Call : pc[e] = "received" /\ read[e] = c
        BY <3>3
      <4>2. e # d /\ pc'[e] = "received" /\ read'[e] = c
        BY <2>1, <3>1, <4>1
      <4> QED
        BY <4>2 DEF InHand
    <3>4. CASE \E i \in DOMAIN buffer : buffer[i] = c
      <4>1. PICK i \in DOMAIN buffer : buffer[i] = c
        BY <3>4
      <4>2. Len(buffer) \in Nat /\ DOMAIN buffer = 1 .. Len(buffer)
        BY <2>1, LenProperties
      <4>3. /\ Head(buffer) = buffer[1] /\ Tail(buffer) \in Seq(Datagram)
            /\ Len(Tail(buffer)) = Len(buffer) - 1
            /\ \A j \in 1 .. Len(Tail(buffer)) : Tail(buffer)[j] = buffer[j + 1]
        BY <2>1, <3>1, HeadTailProperties
      <4>4. CASE i = 1
        BY <3>2, <4>1, <4>3, <4>4 DEF InHand
      <4>5. CASE i # 1
        <5>1. i - 1 \in 1 .. Len(Tail(buffer)) /\ (i - 1) + 1 = i
          BY <4>2, <4>3, <4>5
        <5>2. i - 1 \in DOMAIN buffer' /\ buffer'[i - 1] = c
          BY <3>1, <4>1, <4>3, <5>1, LenProperties
        <5> QED
          BY <5>2 DEF InHand
      <4> QED
        BY <4>4, <4>5
    <3> QED
      BY <3>3, <3>4 DEF InHand
  <2>10. ASSUME NEW d \in Call, Dispatch(d) PROVE c \in InHand' \/ future'[c] = Got(c)
    <3>1. /\ pc[d] = "received" /\ read' = [read EXCEPT ![d] = Foreign]
          /\ future' = Delivered(read[d]) /\ UNCHANGED buffer
          /\ \A e \in Call \ {d} : pc'[e] = pc[e]
      BY <2>1, <2>3, <2>10 DEF Dispatch, End
    <3>2. CASE read[d] = c
      BY <3>1, <3>2, OwnAnswer
    <3>3. CASE read[d] # c
      <4>1. CASE \E i \in DOMAIN buffer : buffer[i] = c
        BY <3>1, <4>1 DEF InHand
      <4>2. CASE \E e \in Call : pc[e] = "received" /\ read[e] = c
        <5>1. PICK e \in Call : pc[e] = "received" /\ read[e] = c
          BY <4>2
        <5>2. e # d /\ pc'[e] = "received" /\ read'[e] = c
          BY <2>1, <3>1, <3>3, <5>1
        <5> QED
          BY <5>2 DEF InHand
      <4> QED
        BY <4>1, <4>2 DEF InHand
    <3> QED
      BY <3>2, <3>3
  <2>11. ~Close /\ \A d \in Call : ~Severed(d) /\ ~Lose(d) /\ ~Cancel(d)
    BY <2>3 DEF Close, Severed, Lose, Cancel
  <2> QED
    BY <2>2, <2>4, <2>5, <2>6, <2>7, <2>8, <2>9, <2>10, <2>11 DEF UdpNext, Step
<1> QED
  BY <1>1, UdpInvariant, PTL DEF UdpSpec, NoAnswerThrownAway
=============================================================================
