----------------------------- MODULE WireProofs -----------------------------
(***************************************************************************)
(* That both readers of a stream read every payload once and in order: the *)
(* bytes an upstream sends have marks, where each payload begins and where *)
(* its reader has it; a reader is always just after an end of a line or a  *)
(* frame, so that what it holds is a window on the stream, and its loop    *)
(* takes the window up to its last end.                                    *)
(*                                                                         *)
(* And that a turn of the Responses surface is closed: what each event     *)
(* renders makes of an open turn an open one, or a closed one, and the     *)
(* calls in the renderer are the fragments of their index, joined.         *)
(*                                                                         *)
(* And that the text arrives: what a client has been sent is what the      *)
(* frames read so far show, on every surface, and what they show is the    *)
(* front of what the upstream says.                                        *)
(***************************************************************************)
EXTENDS Wire, SequenceTheorems, FiniteSetTheorems, WellFoundedInduction, TLAPS

-----------------------------------------------------------------------------
(* Bytes: what a cut may damage.                                           *)

(* The bytes of a stream, and those a cut has damaged.                       *)
Damaged(f, h) == [Half(f, h) EXCEPT ![4] = FALSE]

Symbols == {LF, CR, DATA, NAME} \cup {Half(f, h) : f \in Int, h \in Int} \cup {Damaged(f, h) : f \in Int, h \in Int}

(* A byte and what the upstream wrote: all but the damage is the same.       *)
Like(b, c) == b = c \/ (IsHalf(b) /\ IsHalf(c) /\ b[2] = c[2] /\ b[3] = c[3])

LEMMA SymbolsAre ==
  /\ LF \in Symbols /\ CR \in Symbols /\ DATA \in Symbols /\ NAME \in Symbols
  /\ \A f, h \in Int : Half(f, h) \in Symbols
BY DEF Symbols

LEMMA SymbolsDiffer ==
  /\ LF # CR /\ LF # DATA /\ LF # NAME /\ CR # DATA /\ CR # NAME /\ DATA # NAME
  /\ ~IsHalf(LF) /\ ~IsHalf(CR) /\ ~IsHalf(DATA) /\ ~IsHalf(NAME)
  /\ \A f, h : IsHalf(Half(f, h)) /\ Half(f, h)[2] = f /\ Half(f, h)[3] = h
BY DEF LF, CR, DATA, NAME, Half, IsHalf

LEMMA LikeIs ==
  ASSUME NEW b, NEW c, Like(b, c)
  PROVE  /\ b = LF <=> c = LF
         /\ b = CR <=> c = CR
         /\ b = DATA <=> c = DATA
         /\ IsHalf(b) <=> IsHalf(c)
         /\ IsHalf(c) => b[2] = c[2] /\ b[3] = c[3]
BY SymbolsDiffer DEF Like

LEMMA Damage ==
  ASSUME NEW b \in Symbols, IsHalf(b)
  PROVE  [b EXCEPT ![4] = FALSE] \in Symbols /\ Like([b EXCEPT ![4] = FALSE], b)
<1>1. \A f, h : Damaged(f, h)[1] = "half" /\ Damaged(f, h)[2] = f /\ Damaged(f, h)[3] = h
  BY DEF Damaged, Half
<1>2. \A f, h : [Damaged(f, h) EXCEPT ![4] = FALSE] = Damaged(f, h)
  BY DEF Damaged, Half
<1>3. CASE \E f, h \in Int : b = Half(f, h)
  <2>1. PICK f, h \in Int : b = Half(f, h)
    BY <1>3
  <2>2. [b EXCEPT ![4] = FALSE] = Damaged(f, h)
    BY <2>1 DEF Damaged
  <2>3. Damaged(f, h) \in Symbols
    BY DEF Symbols
  <2>4. Like(Damaged(f, h), b)
    BY <1>1, <2>1, SymbolsDiffer DEF Like, IsHalf
  <2> QED
    BY <2>2, <2>3, <2>4
<1>4. CASE \E f, h \in Int : b = Damaged(f, h)
  BY <1>2, <1>4 DEF Like
<1> QED
  BY <1>3, <1>4, SymbolsDiffer DEF Symbols

LEMMA LossyIsLike ==
  ASSUME NEW chunk \in Seq(Symbols), NEW wide
  PROVE  /\ Lossy(chunk, wide) \in Seq(Symbols) /\ Len(Lossy(chunk, wide)) = Len(chunk)
         /\ \A i \in 1 .. Len(chunk) : Like(Lossy(chunk, wide)[i], chunk[i])
<1> DEFINE t == Lossy(chunk, wide)
           n == Len(chunk)
           cut(i) == /\ IsHalf(chunk[i]) /\ chunk[i][2] \in wide
                     /\ \/ i = 1 /\ chunk[i][3] = 2
                        \/ i = Len(chunk) /\ chunk[i][3] = 1
<1>1. n \in Nat /\ DOMAIN chunk = 1 .. n /\ \A i \in 1 .. n : chunk[i] \in Symbols
  OBVIOUS
<1>2. t = [i \in 1 .. n |-> IF cut(i) THEN [chunk[i] EXCEPT ![4] = FALSE] ELSE chunk[i]]
  BY <1>1 DEF Lossy
<1>3. \A i \in 1 .. n : cut(i) => IsHalf(chunk[i])
  OBVIOUS
<1> HIDE DEF t, n, cut
<1>4. \A i \in 1 .. n : t[i] \in Symbols /\ Like(t[i], chunk[i])
  BY <1>1, <1>2, <1>3, Damage DEF Like
<1>5. t \in [1 .. n -> Symbols]
  BY <1>2, <1>4
<1>6. t \in Seq(Symbols) /\ Len(t) = n
  BY <1>1, <1>5
<1> QED
  BY <1>4, <1>6 DEF t, n

-----------------------------------------------------------------------------
(* The bytes of one frame.                                                 *)

LEMMA GluedIs ==
  ASSUME NEW s \in Seq(Symbols), NEW t \in Seq(Symbols)
  PROVE  /\ s \o t \in Seq(Symbols) /\ Len(s \o t) = Len(s) + Len(t)
         /\ Len(s) \in Nat /\ Len(t) \in Nat
         /\ \A i \in 1 .. Len(s) : (s \o t)[i] = s[i]
         /\ \A i \in 1 .. Len(t) : (s \o t)[Len(s) + i] = t[i]
<1>1. s \o t \in Seq(Symbols) /\ Len(s \o t) = Len(s) + Len(t) /\ Len(s) \in Nat /\ Len(t) \in Nat
  OBVIOUS
<1>2. \A i \in 1 .. Len(s) : (s \o t)[i] = s[i]
  BY <1>1
<1>3. \A i \in 1 .. Len(t) : (s \o t)[Len(s) + i] = t[i]
  BY <1>1
<1> QED
  BY <1>1, <1>2, <1>3

LEMMA EolIs ==
  ASSUME NEW layout
  PROVE  /\ Eol(layout) \in Seq(Symbols)
         /\ \/ Len(Eol(layout)) = 1 /\ Eol(layout)[1] = LF
            \/ Len(Eol(layout)) = 2 /\ Eol(layout)[1] = CR /\ Eol(layout)[2] = LF
<1>1. <<LF>> \in Seq(Symbols) /\ Len(<<LF>>) = 1 /\ <<LF>>[1] = LF
  BY SymbolsAre
<1>2. <<CR, LF>> \in Seq(Symbols) /\ Len(<<CR, LF>>) = 2 /\ <<CR, LF>>[1] = CR /\ <<CR, LF>>[2] = LF
  BY SymbolsAre
<1>3. CASE layout[1] = "crlf"
  BY <1>2, <1>3 DEF Eol
<1>4. CASE layout[1] # "crlf"
  BY <1>1, <1>4 DEF Eol
<1> QED
  BY <1>3, <1>4

(* Where a line ends, or for SseParser a blank one.                          *)
IsEnd(native, s, o) ==
  /\ s[o] = LF
  /\ native \/ (o > 1 /\ s[o - 1] = LF) \/ (o > 2 /\ s[o - 1] = CR /\ s[o - 2] = LF)

(* Bytes before the payload: none of them is data, and the blank line of a   *)
(* comment is their last.                                                    *)
IsLead(s) ==
  /\ s \in Seq(Symbols)
  /\ \A o \in 1 .. Len(s) : s[o] \in {NAME, LF, CR} /\ (o = 1 => s[o] = NAME)
  /\ \A o \in 1 .. Len(s) : IsEnd(FALSE, s, o) => o = Len(s)

LEMMA LeadWithEol ==
  ASSUME NEW layout
  PROVE  /\ IsLead(<<NAME>> \o Eol(layout))
         /\ IsLead(<<NAME>> \o Eol(layout) \o Eol(layout))
<1> DEFINE n == <<NAME>>
           eol == Eol(layout)
           e == Len(eol)
           one == n \o eol
           two == one \o eol
<1>1. n \in Seq(Symbols) /\ Len(n) = 1 /\ n[1] = NAME
  BY SymbolsAre
<1>2. /\ eol \in Seq(Symbols)
      /\ (e = 1 /\ eol[1] = LF) \/ (e = 2 /\ eol[1] = CR /\ eol[2] = LF)
  BY EolIs
<1> HIDE DEF n, eol
<1>3. one \in Seq(Symbols) /\ Len(one) = 1 + e /\ one[1] = NAME /\ \A i \in 1 .. e : one[1 + i] = eol[i]
  BY <1>1, <1>2, GluedIs
<1> HIDE DEF one
<1>4. /\ two \in Seq(Symbols) /\ Len(two) = 1 + e + e
      /\ \A i \in 1 .. 1 + e : two[i] = one[i]
      /\ \A i \in 1 .. e : two[1 + e + i] = eol[i]
  <2>1. /\ two \in Seq(Symbols) /\ Len(two) = Len(one) + Len(eol)
        /\ \A i \in 1 .. Len(one) : two[i] = one[i]
        /\ \A i \in 1 .. Len(eol) : two[Len(one) + i] = eol[i]
    BY <1>2, <1>3, GluedIs
  <2> HIDE DEF two
  <2> QED
    BY <1>2, <1>3, <2>1
<1> HIDE DEF two, e
<1>5. CASE e = 1
  <2>1. /\ Len(one) = 2 /\ one[1] = NAME /\ one[2] = LF
        /\ Len(two) = 3 /\ two[1] = NAME /\ two[2] = LF /\ two[3] = LF
    <3>1. 1 \in 1 .. e /\ 1 \in 1 .. 1 + e /\ 2 \in 1 .. 1 + e
      BY <1>5
    <3>2. one[1 + 1] = LF /\ two[1 + e + 1] = LF /\ two[1] = one[1] /\ two[2] = one[2]
      BY <1>2, <1>3, <1>4, <1>5, <3>1
    <3> QED
      BY <1>3, <1>4, <1>5, <3>2
  <2>2. IsLead(one)
    <3>1. \A o \in 1 .. Len(one) : o = 1 \/ o = 2
      BY <2>1
    <3> QED
      BY <1>3, <2>1, <3>1, SymbolsDiffer DEF IsLead, IsEnd
  <2>3. IsLead(two)
    <3>1. \A o \in 1 .. Len(two) : o = 1 \/ o = 2 \/ o = 3
      BY <2>1
    <3> QED
      BY <1>4, <2>1, <3>1, SymbolsDiffer DEF IsLead, IsEnd
  <2> QED
    BY <2>2, <2>3 DEF one, two, n, eol
<1>6. CASE e = 2
  <2>1. /\ Len(one) = 3 /\ one[1] = NAME /\ one[2] = CR /\ one[3] = LF
        /\ Len(two) = 5 /\ two[1] = NAME /\ two[2] = CR /\ two[3] = LF /\ two[4] = CR /\ two[5] = LF
    <3>1. 1 \in 1 .. e /\ 2 \in 1 .. e /\ 1 \in 1 .. 1 + e /\ 2 \in 1 .. 1 + e /\ 3 \in 1 .. 1 + e
      BY <1>6
    <3>2. /\ one[1 + 1] = CR /\ one[1 + 2] = LF
          /\ two[1 + e + 1] = CR /\ two[1 + e + 2] = LF /\ two[1] = one[1] /\ two[2] = one[2] /\ two[3] = one[3]
      BY <1>2, <1>3, <1>4, <1>6, <3>1
    <3> QED
      BY <1>3, <1>4, <1>6, <3>2
  <2>2. IsLead(one)
    <3>1. \A o \in 1 .. Len(one) : o = 1 \/ o = 2 \/ o = 3
      BY <2>1
    <3> QED
      BY <1>3, <2>1, <3>1, SymbolsDiffer DEF IsLead, IsEnd
  <2>3. IsLead(two)
    <3>1. \A o \in 1 .. Len(two) : o = 1 \/ o = 2 \/ o = 3 \/ o = 4 \/ o = 5
      BY <2>1
    <3> QED
      BY <1>4, <2>1, <3>1, SymbolsDiffer DEF IsLead, IsEnd
  <2> QED
    BY <2>2, <2>3 DEF one, two, n, eol
<1> QED
  BY <1>2, <1>5, <1>6 DEF e

LEMMA LeadIs ==
  ASSUME NEW layout
  PROVE  IsLead(Lead(layout))
<1>1. IsLead(<< >>)
  BY DEF IsLead
<1>2. CASE layout[2] = "event"
  BY <1>2, LeadWithEol DEF Lead
<1>3. CASE layout[2] = "comment"
  BY <1>3, LeadWithEol DEF Lead
<1>4. CASE layout[2] # "event" /\ layout[2] # "comment"
  BY <1>1, <1>4 DEF Lead
<1> QED
  BY <1>2, <1>3, <1>4

(* The shape of the bytes of one frame: the payload begins at c.             *)
IsFramed(s, f, c, e, len) ==
  /\ s \in Seq(Symbols) /\ Len(s) = len
  /\ s[c] = DATA /\ s[c + 1] = Half(f, 1) /\ s[c + 2] = Half(f, 2)
  /\ \A o \in 1 .. len : o < c \/ o > c + 2 => s[o] \in {NAME, LF, CR}
  /\ s[1] # LF /\ s[1] # CR
  /\ IsEnd(TRUE, s, len - e) /\ IsEnd(FALSE, s, len)
  /\ \A o \in c .. len : IsEnd(TRUE, s, o) => o >= len - e
  /\ \A o \in c .. len : IsEnd(FALSE, s, o) => o = len
  /\ \A o \in 1 .. len : IsEnd(FALSE, s, o) /\ o < len => s[o + 1] # LF /\ s[o + 1] # CR

LEMMA FramedIs ==
  ASSUME NEW f \in Int, NEW layout,
         NEW c, c = Len(Lead(layout)) + 1, NEW e, e = Len(Eol(layout))
  PROVE  /\ c \in Nat /\ c >= 1 /\ e \in {1, 2}
         /\ IsFramed(Framed(f, layout), f, c, e, c + 2 + e + e)
<1> DEFINE lead == Lead(layout)
           data == <<DATA, Half(f, 1), Half(f, 2)>>
           eol == Eol(layout)
           a == lead \o data
           b == a \o eol
           s == b \o eol
           l == Len(lead)
           len == c + 2 + e + e
<1>0. s = Framed(f, layout)
  BY DEF Framed
<1>1. data \in Seq(Symbols) /\ Len(data) = 3 /\ data[1] = DATA /\ data[2] = Half(f, 1) /\ data[3] = Half(f, 2)
  BY SymbolsAre
<1>2. /\ eol \in Seq(Symbols)
      /\ (e = 1 /\ eol[1] = LF) \/ (e = 2 /\ eol[1] = CR /\ eol[2] = LF)
  BY EolIs
<1>3. /\ lead \in Seq(Symbols) /\ l \in Nat /\ c = l + 1
      /\ \A o \in 1 .. l : lead[o] \in {NAME, LF, CR} /\ (o = 1 => lead[o] = NAME)
      /\ \A o \in 1 .. l : IsEnd(FALSE, lead, o) => o = l
  <2>1. IsLead(lead) /\ c = l + 1
    BY LeadIs
  <2> HIDE DEF lead
  <2>2. l \in Nat
    BY <2>1 DEF IsLead
  <2> QED
    BY <2>1, <2>2 DEF IsLead
<1>e. Len(eol) = e
  OBVIOUS
<1> HIDE DEF lead, data, eol
<1>4. /\ a \in Seq(Symbols) /\ Len(a) = l + 3
      /\ \A i \in 1 .. l : a[i] = lead[i]
      /\ \A i \in 1 .. 3 : a[l + i] = data[i]
  <2>1. /\ a \in Seq(Symbols) /\ Len(a) = Len(lead) + Len(data)
        /\ \A i \in 1 .. Len(lead) : a[i] = lead[i]
        /\ \A i \in 1 .. Len(data) : a[Len(lead) + i] = data[i]
    BY <1>1, <1>3, GluedIs
  <2> HIDE DEF a
  <2> QED
    BY <1>1, <2>1
<1> HIDE DEF a
<1>5. /\ b \in Seq(Symbols) /\ Len(b) = l + 3 + e
      /\ \A i \in 1 .. l + 3 : b[i] = a[i]
      /\ \A i \in 1 .. e : b[l + 3 + i] = eol[i]
  <2>1. /\ b \in Seq(Symbols) /\ Len(b) = Len(a) + Len(eol)
        /\ \A i \in 1 .. Len(a) : b[i] = a[i]
        /\ \A i \in 1 .. Len(eol) : b[Len(a) + i] = eol[i]
    BY <1>2, <1>4, GluedIs
  <2> HIDE DEF b
  <2> QED
    BY <1>4, <1>e, <2>1
<1> HIDE DEF b
<1>6. /\ s \in Seq(Symbols) /\ Len(s) = l + 3 + e + e
      /\ \A i \in 1 .. l + 3 + e : s[i] = b[i]
      /\ \A i \in 1 .. e : s[l + 3 + e + i] = eol[i]
  <2>1. /\ s \in Seq(Symbols) /\ Len(s) = Len(b) + Len(eol)
        /\ \A i \in 1 .. Len(b) : s[i] = b[i]
        /\ \A i \in 1 .. Len(eol) : s[Len(b) + i] = eol[i]
    BY <1>2, <1>5, GluedIs
  <2> HIDE DEF s
  <2> QED
    BY <1>5, <1>e, <2>1
<1> HIDE DEF s, l
<1>7. c \in Nat /\ c >= 1 /\ e \in {1, 2} /\ len = l + 3 + e + e
  BY <1>2, <1>3
<1>8. /\ \A o \in 1 .. l : s[o] = lead[o]
      /\ s[c] = DATA /\ s[c + 1] = Half(f, 1) /\ s[c + 2] = Half(f, 2)
      /\ \A i \in 1 .. e : s[l + 3 + i] = eol[i]
      /\ \A i \in 1 .. e : s[l + 3 + e + i] = eol[i]
  <2>1. \A o \in 1 .. l : o \in 1 .. l + 3 /\ o \in 1 .. l + 3 + e
    BY <1>3, <1>7
  <2>2. \A i \in 1 .. 3 : l + i \in 1 .. l + 3 /\ l + i \in 1 .. l + 3 + e
    BY <1>3, <1>7
  <2>3. \A i \in 1 .. e : l + 3 + i \in 1 .. l + 3 + e
    BY <1>3, <1>7
  <2>4. \A i \in 1 .. 3 : s[l + i] = data[i]
    BY <1>4, <1>5, <1>6, <2>2
  <2>5. c = l + 1 /\ c + 1 = l + 2 /\ c + 2 = l + 3
    BY <1>3
  <2>6. s[l + 1] = data[1] /\ s[l + 2] = data[2] /\ s[l + 3] = data[3]
    BY <2>4
  <2> QED
    BY <1>1, <1>4, <1>5, <1>6, <2>1, <2>3, <2>5, <2>6
<1> HIDE DEF len
<1>9. \A o \in 1 .. len : \/ o \in 1 .. l
                          \/ o = c \/ o = c + 1 \/ o = c + 2
                          \/ \E i \in 1 .. e : o = l + 3 + i
                          \/ \E i \in 1 .. e : o = l + 3 + e + i
  <2> TAKE o \in 1 .. len
  <2>1. CASE o > c + 2 /\ o <= c + 2 + e
    <3>1. o - (l + 3) \in 1 .. e /\ o = l + 3 + (o - (l + 3))
      BY <1>3, <1>7, <2>1
    <3> QED
      BY <3>1
  <2>2. CASE o > c + 2 + e
    <3>1. o - (l + 3 + e) \in 1 .. e /\ o = l + 3 + e + (o - (l + 3 + e))
      BY <1>3, <1>7, <2>2
    <3> QED
      BY <3>1
  <2>3. CASE o <= c + 2
    BY <1>3, <1>7, <2>3
  <2> QED
    BY <1>3, <1>7, <2>1, <2>2, <2>3
<1>10. \A o \in 1 .. len : o < c \/ o > c + 2 => s[o] \in {NAME, LF, CR}
  <2> TAKE o \in 1 .. len
  <2>1. \A i \in 1 .. e : eol[i] \in {LF, CR}
    BY <1>2
  <2> HAVE o < c \/ o > c + 2
  <2>2. o \in 1 .. l \/ (\E i \in 1 .. e : o = l + 3 + i) \/ (\E i \in 1 .. e : o = l + 3 + e + i)
    BY <1>7, <1>9
  <2>3. ASSUME o \in 1 .. l PROVE s[o] \in {NAME, LF, CR}
    BY <1>3, <1>8, <2>3
  <2>4. ASSUME NEW i \in 1 .. e, o = l + 3 + i PROVE s[o] \in {NAME, LF, CR}
    <3>1. s[o] = eol[i] /\ eol[i] \in {LF, CR}
      BY <1>8, <2>1, <2>4
    <3> QED
      BY <3>1
  <2>5. ASSUME NEW i \in 1 .. e, o = l + 3 + e + i PROVE s[o] \in {NAME, LF, CR}
    <3>1. s[o] = eol[i] /\ eol[i] \in {LF, CR}
      BY <1>8, <2>1, <2>5
    <3> QED
      BY <3>1
  <2> QED
    BY ONLY <2>2, <2>3, <2>4, <2>5
<1>11. s[1] # LF /\ s[1] # CR
  <2>1. CASE l = 0
    BY <1>3, <1>8, <2>1, SymbolsDiffer
  <2>2. CASE l # 0
    <3>1. 1 \in 1 .. l
      BY <1>3, <2>2
    <3> QED
      BY <1>3, <1>8, <3>1, SymbolsDiffer
  <2> QED
    BY <2>1, <2>2
(* The last bytes, by the kind of line end.                                  *)
<1>12. \/ /\ e = 1 /\ len = c + 4 /\ s[c + 3] = LF /\ s[c + 4] = LF
       \/ /\ e = 2 /\ len = c + 6 /\ s[c + 3] = CR /\ s[c + 4] = LF /\ s[c + 5] = CR /\ s[c + 6] = LF
  <2>1. CASE e = 1
    <3>1. 1 \in 1 .. e
      BY <2>1
    <3>2. s[l + 3 + 1] = eol[1] /\ s[l + 3 + e + 1] = eol[1]
      BY <1>8, <3>1
    <3>3. l + 3 + 1 = c + 3 /\ l + 3 + e + 1 = c + 4 /\ len = c + 4
      BY <1>3, <1>7, <2>1
    <3> QED
      BY <1>2, <2>1, <3>2, <3>3
  <2>2. CASE e = 2
    <3>1. 1 \in 1 .. e /\ 2 \in 1 .. e
      BY <2>2
    <3>2. s[l + 3 + 1] = eol[1] /\ s[l + 3 + e + 1] = eol[1] /\ s[l + 3 + 2] = eol[2] /\ s[l + 3 + e + 2] = eol[2]
      BY <1>8, <3>1
    <3>3. l + 3 + 1 = c + 3 /\ l + 3 + e + 1 = c + 5 /\ l + 3 + 2 = c + 4 /\ l + 3 + e + 2 = c + 6 /\ len = c + 6
      BY <1>3, <1>7, <2>2
    <3> QED
      BY <1>2, <2>2, <3>2, <3>3
  <2> QED
    BY <1>7, <2>1, <2>2
<1>13. s[c] # LF /\ s[c] # CR /\ s[c + 1] # LF /\ s[c + 1] # CR /\ s[c + 2] # LF /\ s[c + 2] # CR
  BY <1>8, SymbolsDiffer
<1>14. /\ IsEnd(TRUE, s, len - e) /\ IsEnd(FALSE, s, len)
       /\ \A o \in c .. len : IsEnd(TRUE, s, o) => o >= len - e
       /\ \A o \in c .. len : IsEnd(FALSE, s, o) => o = len
  <2>1. CASE e = 1
    <3>1. /\ len = c + 4 /\ len - e = c + 3 /\ s[c + 3] = LF /\ s[c + 4] = LF /\ c + 4 - 1 = c + 3 /\ c + 4 > 1
          /\ c + 3 - 1 = c + 2 /\ c + 3 - 2 = c + 1 /\ c + 4 >= c + 3
      BY <1>7, <1>12, <2>1
    <3>2. \A o \in c .. len : o = c \/ o = c + 1 \/ o = c + 2 \/ o = c + 3 \/ o = c + 4
      BY <1>7, <3>1
    <3>3. IsEnd(TRUE, s, len - e) /\ IsEnd(FALSE, s, len)
      BY <1>7, <3>1 DEF IsEnd
    <3>4. ASSUME NEW o \in c .. len, IsEnd(TRUE, s, o) PROVE o >= len - e
      BY <1>7, <1>13, <3>1, <3>2, <3>4 DEF IsEnd
    <3>5. ASSUME NEW o \in c .. len, IsEnd(FALSE, s, o) PROVE o = len
      <4>1. s[o] = LF
        BY <3>5 DEF IsEnd
      <4>2. o = c + 3 \/ o = c + 4
        BY <1>13, <3>2, <4>1
      <4>3. o # c + 3
        BY <1>7, <1>13, <3>1, <3>5, SymbolsDiffer DEF IsEnd
      <4> QED
        BY <3>1, <4>2, <4>3
    <3> QED
      BY <3>3, <3>4, <3>5
  <2>2. CASE e = 2
    <3>1. /\ len = c + 6 /\ len - e = c + 4 /\ s[c + 3] = CR /\ s[c + 4] = LF /\ s[c + 5] = CR /\ s[c + 6] = LF
          /\ c + 6 - 1 = c + 5 /\ c + 6 - 2 = c + 4 /\ c + 6 > 2
          /\ c + 4 - 1 = c + 3 /\ c + 4 - 2 = c + 2 /\ c + 6 >= c + 4
      BY <1>7, <1>12, <2>2
    <3>2. \A o \in c .. len : o = c \/ o = c + 1 \/ o = c + 2 \/ o = c + 3 \/ o = c + 4 \/ o = c + 5 \/ o = c + 6
      BY <1>7, <3>1
    <3>3. IsEnd(TRUE, s, len - e) /\ IsEnd(FALSE, s, len)
      BY <3>1 DEF IsEnd
    <3>4. ~IsEnd(TRUE, s, c) /\ ~IsEnd(TRUE, s, c + 1) /\ ~IsEnd(TRUE, s, c + 2) /\ ~IsEnd(TRUE, s, c + 3)
      BY <1>13, <3>1, SymbolsDiffer DEF IsEnd
    <3>5. \A o : IsEnd(FALSE, s, o) => IsEnd(TRUE, s, o)
      BY DEF IsEnd
    <3>6. ~IsEnd(FALSE, s, c + 4) /\ ~IsEnd(FALSE, s, c + 5)
      BY <1>13, <3>1, SymbolsDiffer DEF IsEnd
    <3>7. c + 5 >= len - e /\ c + 6 >= len - e /\ c + 4 >= len - e
      BY <1>7, <3>1
    <3> QED
      BY <3>1, <3>2, <3>3, <3>4, <3>5, <3>6, <3>7
  <2> QED
    BY <1>7, <2>1, <2>2
<1>15. \A o \in 1 .. len : IsEnd(FALSE, s, o) /\ o < len => s[o + 1] # LF /\ s[o + 1] # CR
  <2> TAKE o \in 1 .. len
  <2> HAVE IsEnd(FALSE, s, o) /\ o < len
  <2>0. ~(o \in c .. len)
    <3> SUFFICES ASSUME o \in c .. len PROVE FALSE
      OBVIOUS
    <3>1. o = len
      BY <1>14
    <3>2. o < len /\ len \in Int
      BY <1>3, <1>7
    <3> QED
      BY <3>1, <3>2
  <2>1. o \in 1 .. l
    BY <1>3, <1>7, <2>0
  <2>2. /\ lead[o] = s[o] /\ (o > 1 => lead[o - 1] = s[o - 1]) /\ (o > 2 => lead[o - 2] = s[o - 2])
    <3>1. (o > 1 => o - 1 \in 1 .. l) /\ (o > 2 => o - 2 \in 1 .. l)
      BY <1>3, <2>1
    <3> QED
      BY <1>8, <2>1, <3>1
  <2>3. IsEnd(FALSE, lead, o)
    BY <2>2 DEF IsEnd
  <2>4. o + 1 = c
    BY <1>3, <2>1, <2>3
  <2> QED
    BY <1>13, <2>4
<1>16. IsFramed(s, f, c, e, len)
  <2>1. Len(s) = len
    BY <1>6, <1>7
  <2> QED
    BY <1>6, <1>8, <1>10, <1>11, <1>14, <1>15, <2>1 DEF IsFramed
<1> QED
  BY <1>0, <1>7, <1>16 DEF len

-----------------------------------------------------------------------------
(* The bytes of a stream.                                                  *)

(* Induction over the naturals, for a set of them.                           *)
LEMMA Induction ==
  ASSUME NEW S, 0 \in S, \A n \in Nat : n \in S => n + 1 \in S
  PROVE  \A n \in Nat : n \in S
<1> DEFINE T == {n \in Nat : n \notin S}
<1> SUFFICES ASSUME T # {} PROVE FALSE
  OBVIOUS
<1> DEFINE R == OpToRel(<, Nat)
<1>1. PICK x \in T : \A y \in T : ~ (<<y, x>> \in R)
  BY WFMin, NatLessThanWellFounded
<1>2. \A y, z \in Nat : y < z => <<y, z>> \in R
  BY DEF OpToRel
<1>3. x \in Nat /\ x \notin S
  OBVIOUS
<1> HIDE DEF R, T
<1>4. x # 0
  BY <1>3
<1>5. x - 1 \in Nat /\ x - 1 < x
  BY <1>3, <1>4
<1>6. x - 1 \in S
  BY <1>1, <1>2, <1>3, <1>5 DEF T
<1> QED
  BY <1>3, <1>5, <1>6
(* Functions that begin alike and go on alike are alike.                     *)
LEMMA Alike ==
  ASSUME NEW n \in Nat, NEW f, NEW g, f[0] = g[0],
         \A i \in 1 .. n : f[i - 1] = g[i - 1] => f[i] = g[i]
  PROVE  \A i \in 0 .. n : f[i] = g[i]
<1> DEFINE S == {i \in Nat : i <= n => f[i] = g[i]}
<1>1. 0 \in S
  OBVIOUS
<1>2. ASSUME NEW i \in Nat, i \in S
      PROVE  i + 1 \in S
  <2> SUFFICES ASSUME i + 1 <= n PROVE f[i + 1] = g[i + 1]
    OBVIOUS
  <2>1. i + 1 \in 1 .. n /\ i + 1 - 1 = i /\ f[i] = g[i]
    BY <1>2
  <2> QED
    BY <2>1
<1> HIDE DEF S
<1>3. \A i \in Nat : i \in S
  BY <1>1, <1>2, Induction
<1> QED
  BY <1>3 DEF S

(* Where the frames of one length begin in a stream of them.                 *)
Offset(i, len) == i * len

LEMMA Offsets ==
  ASSUME NEW len \in Nat, len > 0
  PROVE  /\ Offset(0, len) = 0 /\ Offset(1, len) = len
         /\ \A i \in Nat : Offset(i, len) \in Nat /\ Offset(i + 1, len) = Offset(i, len) + len
         /\ \A i, j \in Nat : i < j => Offset(i, len) + len <= Offset(j, len)
         /\ \A i \in Nat : \A o \in 1 .. Offset(i, len) :
              \E k \in 1 .. i : \E x \in 1 .. len : o = Offset(k - 1, len) + x
<1>1. Offset(0, len) = 0 /\ Offset(1, len) = len
  BY DEF Offset
<1>2. \A i \in Nat : Offset(i, len) \in Nat /\ Offset(i + 1, len) = Offset(i, len) + len
  BY DEF Offset
<1>3. \A i, j \in Nat : i < j => Offset(i, len) + len <= Offset(j, len)
  <2> TAKE i \in Nat
  <2> DEFINE S == {j \in Nat : i < j => Offset(i, len) + len <= Offset(j, len)}
  <2>1. 0 \in S
    OBVIOUS
  <2>2. \A j \in Nat : j \in S => j + 1 \in S
    <3> SUFFICES ASSUME NEW j \in Nat, j \in S, i < j + 1 PROVE Offset(i, len) + len <= Offset(j + 1, len)
      OBVIOUS
    <3>1. i < j \/ i = j
      OBVIOUS
    <3> QED
      BY <1>2, <3>1
  <2> HIDE DEF S
  <2>3. \A j \in Nat : j \in S
    BY <2>1, <2>2, Induction
  <2> QED
    BY <2>3 DEF S
<1>4. \A i \in Nat : \A o \in 1 .. Offset(i, len) :
        \E k \in 1 .. i : \E x \in 1 .. len : o = Offset(k - 1, len) + x
  <2> DEFINE S == {i \in Nat : \A o \in 1 .. Offset(i, len) :
                     \E k \in 1 .. i : \E x \in 1 .. len : o = Offset(k - 1, len) + x}
  <2>1. 0 \in S
    BY <1>1
  <2>2. \A i \in Nat : i \in S => i + 1 \in S
    <3> SUFFICES ASSUME NEW i \in Nat, i \in S, NEW o \in 1 .. Offset(i + 1, len)
                 PROVE  \E k \in 1 .. i + 1 : \E x \in 1 .. len : o = Offset(k - 1, len) + x
      OBVIOUS
    <3>1. Offset(i, len) \in Nat /\ Offset(i + 1, len) = Offset(i, len) + len
      BY <1>2
    <3>2. CASE o <= Offset(i, len)
      <4>1. \E k \in 1 .. i : \E x \in 1 .. len : o = Offset(k - 1, len) + x
        BY <3>1, <3>2
      <4> QED
        BY <4>1
    <3>3. CASE o > Offset(i, len)
      <4>1. o - Offset(i, len) \in 1 .. len /\ o = Offset(i, len) + (o - Offset(i, len))
        BY <3>1, <3>3
      <4>2. i + 1 \in 1 .. i + 1 /\ i + 1 - 1 = i
        OBVIOUS
      <4> QED
        BY <4>1, <4>2
    <3> QED
      BY <3>1, <3>2, <3>3
  <2> HIDE DEF S
  <2>3. \A i \in Nat : i \in S
    BY <2>1, <2>2, Induction
  <2> QED
    BY <2>3 DEF S
<1> QED
  BY <1>1, <1>2, <1>3, <1>4

(* A function that makes a list of lists one, as FlattenSeq has it.          *)
Flattens(f, seqs, n, len) ==
  /\ f \in [1 .. n -> Seq(Symbols)]
  /\ n >= 1 => f[1] = seqs[1]
  /\ \A i \in 2 .. n : f[i] = f[i - 1] \o seqs[i]
  /\ \A i \in 1 .. n : /\ Len(f[i]) = Offset(i, len)
                       /\ \A k \in 1 .. i : \A x \in 1 .. len : f[i][Offset(k - 1, len) + x] = seqs[k][x]

Pieces(seqs, n, len) ==
  Len(seqs) = n /\ \A i \in 1 .. n : seqs[i] \in Seq(Symbols) /\ Len(seqs[i]) = len

(* One list of bytes is the pieces one after another.                        *)
MadeOf(s, seqs, n, len) ==
  /\ s \in Seq(Symbols) /\ Len(s) = Offset(n, len)
  /\ \A k \in 1 .. n : \A x \in 1 .. len : s[Offset(k - 1, len) + x] = seqs[k][x]

LEMMA FlatteningIs ==
  ASSUME NEW n \in Nat, n > 0, NEW len \in Nat, len > 0, NEW seqs, Pieces(seqs, n, len)
  PROVE  MadeOf(FlattenSeq(seqs), seqs, n, len)
<1> USE DEF Pieces
<1> DEFINE D == {m \in Nat : m <= n => \E f : Flattens(f, seqs, m, len)}
<1>0. /\ Offset(0, len) = 0 /\ Offset(1, len) = len
      /\ \A i \in Nat : Offset(i, len) \in Nat /\ Offset(i + 1, len) = Offset(i, len) + len
      /\ \A i, j \in Nat : i < j => Offset(i, len) + len <= Offset(j, len)
  BY Offsets
<1>1. 0 \in D
  <2> DEFINE f == [i \in 1 .. 0 |-> <<LF>>]
  <2>1. Flattens(f, seqs, 0, len)
    BY DEF Flattens
  <2> QED
    BY <2>1
<1>2. ASSUME NEW m \in Nat, m \in D
      PROVE  m + 1 \in D
  <2> SUFFICES ASSUME m + 1 <= n PROVE \E f : Flattens(f, seqs, m + 1, len)
    OBVIOUS
  <2>1. PICK f : Flattens(f, seqs, m, len)
    BY <1>2
  <2> DEFINE last == IF m = 0 THEN seqs[1] ELSE f[m] \o seqs[m + 1]
             g == [i \in 1 .. m + 1 |-> IF i = m + 1 THEN last ELSE f[i]]
  <2>2. /\ last \in Seq(Symbols) /\ Len(last) = Offset(m + 1, len)
        /\ \A k \in 1 .. m + 1 : \A x \in 1 .. len : last[Offset(k - 1, len) + x] = seqs[k][x]
    <3>1. CASE m = 0
      <4>1. \A k \in 1 .. m + 1 : k = 1 /\ Offset(k - 1, len) = 0
        BY <1>0, <3>1
      <4>2. last = seqs[1] /\ 1 \in 1 .. n /\ m + 1 = 1
        BY <3>1
      <4> HIDE DEF last
      <4>3. seqs[1] \in Seq(Symbols) /\ Len(seqs[1]) = len
        BY <4>2
      <4>4. Len(last) = Offset(m + 1, len)
        BY <1>0, <4>2, <4>3
      <4>5. \A k \in 1 .. m + 1 : \A x \in 1 .. len : Offset(k - 1, len) + x = x /\ seqs[k] = last
        BY <4>1, <4>2
      <4> QED
        BY <4>2, <4>3, <4>4, <4>5
    <3>2. CASE m # 0
      <4>1. m \in 1 .. m /\ m + 1 \in 1 .. n
        BY <3>2
      <4>2. /\ f[m] \in Seq(Symbols) /\ Len(f[m]) = Offset(m, len) /\ seqs[m + 1] \in Seq(Symbols)
            /\ Len(seqs[m + 1]) = len /\ last = f[m] \o seqs[m + 1]
            /\ \A k \in 1 .. m : \A x \in 1 .. len : f[m][Offset(k - 1, len) + x] = seqs[k][x]
        BY <2>1, <3>2, <4>1 DEF Flattens
      <4> DEFINE a == f[m]
                 b == seqs[m + 1]
      <4>3. /\ a \in Seq(Symbols) /\ Len(a) = Offset(m, len) /\ b \in Seq(Symbols) /\ Len(b) = len
            /\ last = a \o b
            /\ \A k \in 1 .. m : \A x \in 1 .. len : a[Offset(k - 1, len) + x] = seqs[k][x]
        BY <4>2
      <4> HIDE DEF a, b, last
      <4>4. /\ last \in Seq(Symbols) /\ Len(last) = Len(a) + Len(b)
            /\ \A i \in 1 .. Len(a) : last[i] = a[i]
            /\ \A i \in 1 .. Len(b) : last[Len(a) + i] = b[i]
        BY <4>3, GluedIs
      <4>5. Len(last) = Offset(m + 1, len)
        BY <1>0, <4>3, <4>4
      <4>6. ASSUME NEW k \in 1 .. m + 1, NEW x \in 1 .. len
            PROVE  last[Offset(k - 1, len) + x] = seqs[k][x]
        <5>1. CASE k = m + 1
          <6>1. k - 1 = m
            BY <5>1
          <6> QED
            BY <4>3, <4>4, <5>1, <6>1 DEF b
        <5>2. CASE k \in 1 .. m
          <6>1. k - 1 \in Nat /\ k - 1 < m
            BY <5>2
          <6>2. Offset(k - 1, len) \in Nat /\ Offset(k - 1, len) + len <= Offset(m, len)
            BY <1>0, <6>1
          <6> DEFINE z == Offset(k - 1, len)
          <6>4. z \in Nat /\ z + len <= Len(a) /\ Len(a) \in Nat
            BY <1>0, <4>3, <6>2
          <6> HIDE DEF z
          <6>5. z + x \in 1 .. Len(a)
            BY <6>4
          <6>3. Offset(k - 1, len) + x \in 1 .. Len(a)
            BY <6>5 DEF z
          <6> QED
            BY <4>3, <4>4, <5>2, <6>3
        <5> QED
          BY <5>1, <5>2
      <4> QED
        BY <4>4, <4>5, <4>6
    <3> QED
      BY <3>1, <3>2
  <2>3. Flattens(g, seqs, m + 1, len)
    <3>1. m + 1 \in 1 .. m + 1 /\ g[m + 1] = last /\ \A i \in 1 .. m : i \in 1 .. m + 1 /\ g[i] = f[i]
      <4> HIDE DEF last
      <4> QED
        OBVIOUS
    <3>2. \A i \in 1 .. m + 1 : i = m + 1 \/ i \in 1 .. m
      OBVIOUS
    <3>3. f \in [1 .. m -> Seq(Symbols)]
      BY <2>1 DEF Flattens
    <3>4. \A i \in 1 .. m : f[i] \in Seq(Symbols)
      BY <3>3
    <3>5. g \in [1 .. m + 1 -> Seq(Symbols)]
      <4>1. last \in Seq(Symbols)
        BY <2>2
      <4> HIDE DEF last
      <4> QED
        BY <3>4, <4>1
    <3>6. m = 0 => last = seqs[1]
      OBVIOUS
    <3>7. m # 0 => last = f[m] \o seqs[m + 1]
      OBVIOUS
    <3> HIDE DEF g, last
    <3>8. g[1] = seqs[1]
      <4>1. CASE m = 0
        BY <3>1, <3>6, <4>1
      <4>2. CASE m # 0
        <5>1. 1 \in 1 .. m /\ m >= 1
          BY <4>2
        <5> QED
          BY <2>1, <3>1, <5>1 DEF Flattens
      <4> QED
        BY <4>1, <4>2
    <3>9. \A i \in 2 .. m + 1 : g[i] = g[i - 1] \o seqs[i]
      <4> TAKE i \in 2 .. m + 1
      <4>1. i - 1 \in 1 .. m
        OBVIOUS
      <4>2. CASE i = m + 1
        <5>1. i - 1 = m /\ m # 0
          BY <4>2
        <5> QED
          BY <3>1, <3>7, <4>1, <4>2, <5>1
      <4>3. CASE i # m + 1
        <5>1. i \in 2 .. m /\ i \in 1 .. m
          BY <4>3
        <5>2. f[i] = f[i - 1] \o seqs[i]
          BY <2>1, <5>1 DEF Flattens
        <5> QED
          BY <3>1, <4>1, <5>1, <5>2
      <4> QED
        BY <4>2, <4>3
    <3>10. \A i \in 1 .. m + 1 : /\ Len(g[i]) = Offset(i, len)
                                 /\ \A k \in 1 .. i : \A x \in 1 .. len : g[i][Offset(k - 1, len) + x] = seqs[k][x]
      <4> TAKE i \in 1 .. m + 1
      <4>1. CASE i = m + 1
        BY <2>2, <3>1, <4>1
      <4>2. CASE i \in 1 .. m
        BY <2>1, <3>1, <4>2 DEF Flattens
      <4> QED
        BY <3>2, <4>1, <4>2
    <3> QED
      BY <3>5, <3>8, <3>9, <3>10 DEF Flattens
  <2> QED
    BY <2>3
<1> HIDE DEF D
<1>3. n \in D
  BY <1>1, <1>2, Induction
<1>4. PICK f : Flattens(f, seqs, n, len)
  BY <1>3 DEF D
<1> DEFINE Body(g) == [i \in 1 .. Len(seqs) |-> IF i = 1 THEN seqs[i] ELSE g[i - 1] \o seqs[i]]
           flatten == CHOOSE flatten : flatten = Body(flatten)
<1>5. f = Body(f)
  <2>1. \A i \in 1 .. n : i = 1 \/ i \in 2 .. n
    OBVIOUS
  <2>2. /\ f \in [1 .. n -> Seq(Symbols)] /\ f[1] = seqs[1]
        /\ \A i \in 2 .. n : f[i] = f[i - 1] \o seqs[i]
    <3>1. n >= 1
      OBVIOUS
    <3> QED
      BY <1>4, <3>1 DEF Flattens
  <2>3. \A i \in 1 .. n : f[i] = Body(f)[i]
    BY <2>1, <2>2
  <2> QED
    BY <2>2, <2>3
<1>6. flatten = Body(flatten)
  <2> HIDE DEF Body
  <2> QED
    BY <1>5
<1>7. FlattenSeq(seqs) = flatten[n]
  BY DEF FlattenSeq
<1> HIDE DEF flatten
<1>8. \A i \in 1 .. n : flatten[i] = IF i = 1 THEN seqs[i] ELSE flatten[i - 1] \o seqs[i]
  BY <1>6
<1>12. \A i \in 2 .. n : flatten[i] = flatten[i - 1] \o seqs[i]
  <2>1. \A i \in 2 .. n : i \in 1 .. n /\ i # 1
    OBVIOUS
  <2> QED
    BY <1>8, <2>1
<1>13. \A i \in 2 .. n : f[i] = f[i - 1] \o seqs[i]
  BY <1>4 DEF Flattens
<1>9. flatten[n] = f[n]
  <2> DEFINE S == {i \in Nat : i + 1 <= n => flatten[i + 1] = f[i + 1]}
  <2>1. 0 \in S
    <3>1. 1 \in 1 .. n /\ 0 + 1 = 1
      OBVIOUS
    <3>2. flatten[1] = seqs[1]
      BY <1>8, <3>1
    <3>3. f[1] = seqs[1]
      BY <1>4 DEF Flattens
    <3> QED
      BY <3>1, <3>2, <3>3
  <2>2. ASSUME NEW i \in Nat, i \in S
        PROVE  i + 1 \in S
    <3> SUFFICES ASSUME NEW j, j = i + 1 + 1, j <= n PROVE flatten[j] = f[j]
      OBVIOUS
    <3>1. j \in 2 .. n /\ j - 1 = i + 1 /\ i + 1 <= n
      OBVIOUS
    <3>2. flatten[i + 1] = f[i + 1]
      BY <2>2, <3>1
    <3> HIDE DEF S
    <3>3. flatten[j] = flatten[j - 1] \o seqs[j]
      BY <1>12, <3>1
    <3>4. f[j] = f[j - 1] \o seqs[j]
      BY <1>13, <3>1
    <3>5. flatten[j - 1] = f[j - 1]
      BY <3>1, <3>2
    <3> QED
      BY <3>3, <3>4, <3>5
  <2> HIDE DEF S
  <2>3. n - 1 \in S /\ n - 1 + 1 = n
    BY <2>1, <2>2, Induction
  <2> QED
    BY <2>3 DEF S
<1>10. n \in 1 .. n
  OBVIOUS
<1>11. /\ f[n] \in Seq(Symbols) /\ Len(f[n]) = Offset(n, len)
       /\ \A k \in 1 .. n : \A x \in 1 .. len : f[n][Offset(k - 1, len) + x] = seqs[k][x]
  BY <1>4, <1>10 DEF Flattens
<1> QED
  BY <1>7, <1>9, <1>11 DEF MadeOf

(* The marks of a stream of n payloads: the k-th begins at p[k], and with the *)
(* byte q[k] its reader has it.  Both are past the end for one more payload.  *)
Marks(s, n, p, q, native) ==
  /\ s \in Seq(Symbols) /\ n \in Nat
  /\ p \in [1 .. n + 1 -> Nat] /\ q \in [0 .. n + 1 -> Nat]
  /\ q[0] = 0 /\ p[n + 1] = Len(s) + 1 /\ q[n + 1] = Len(s) + 2
  /\ \A j \in 0 .. n + 1 : \A k \in 1 .. n + 1 : j < k => q[j] < p[k]
  /\ \A k \in 1 .. n : /\ p[k] + 2 < q[k] /\ q[k] <= Len(s)
                       /\ s[p[k]] = DATA /\ s[p[k] + 1] = Half(k, 1) /\ s[p[k] + 2] = Half(k, 2)
                       /\ IsEnd(native, s, q[k])
  /\ \A o \in 1 .. Len(s) : s[o] = DATA => \E k \in 1 .. n : o = p[k]
  /\ \A o \in 1 .. Len(s) : IsHalf(s[o]) => \E k \in 1 .. n : o = p[k] + 1 \/ o = p[k] + 2
  /\ \A o \in 1 .. Len(s) : IsEnd(native, s, o) => \A k \in 1 .. n : ~(p[k] <= o /\ o < q[k])
  /\ \A o \in 1 .. Len(s) : ~native /\ (o = 1 \/ IsEnd(native, s, o - 1)) => s[o] # LF /\ s[o] # CR

AreFramed(seqs, n, c, e, len) == \A k \in 1 .. n : IsFramed(seqs[k], k, c, e, len)

Sizes(c, e, len) == c \in Nat /\ c >= 1 /\ e \in {1, 2} /\ len = c + 2 + e + e

LEMMA MarksAre ==
  ASSUME NEW n \in Nat, n > 0, NEW c, NEW e, NEW len, Sizes(c, e, len),
         NEW s, NEW seqs, AreFramed(seqs, n, c, e, len), MadeOf(s, seqs, n, len),
         NEW native \in BOOLEAN
  PROVE  \E p, q : /\ Marks(s, n, p, q, native)
                   /\ \A k \in 1 .. n : q[k] = Offset(k, len) - (IF native THEN e ELSE 0)
<1> USE DEF AreFramed, Sizes, MadeOf
<1> DEFINE d == IF native THEN e ELSE 0
           p == [k \in 1 .. n + 1 |-> IF k = n + 1 THEN Len(s) + 1 ELSE Offset(k - 1, len) + c]
           q == [k \in 0 .. n + 1 |-> IF k = n + 1 THEN Len(s) + 2 ELSE IF k = 0 THEN 0 ELSE Offset(k, len) - d]
<1>0. /\ Offset(0, len) = 0 /\ Offset(1, len) = len
      /\ \A i \in Nat : Offset(i, len) \in Nat /\ Offset(i + 1, len) = Offset(i, len) + len
      /\ \A i, j \in Nat : i < j => Offset(i, len) + len <= Offset(j, len)
      /\ \A o \in 1 .. Offset(n, len) : \E k \in 1 .. n : \E x \in 1 .. len : o = Offset(k - 1, len) + x
  <2>1. len \in Nat /\ len > 0 /\ n \in Nat
    OBVIOUS
  <2>2. /\ Offset(0, len) = 0 /\ Offset(1, len) = len
        /\ \A i \in Nat : Offset(i, len) \in Nat /\ Offset(i + 1, len) = Offset(i, len) + len
        /\ \A i, j \in Nat : i < j => Offset(i, len) + len <= Offset(j, len)
        /\ \A i \in Nat : \A o \in 1 .. Offset(i, len) :
              \E k \in 1 .. i : \E x \in 1 .. len : o = Offset(k - 1, len) + x
    BY ONLY <2>1, Offsets
  <2> QED
    BY ONLY <2>1, <2>2
<1>1. len \in Nat /\ d \in 0 .. e /\ len - d > c + 2 /\ Len(s) \in Nat
  <2>1. e = 1 \/ e = 2
    OBVIOUS
  <2>2. d = 0 \/ d = e
    OBVIOUS
  <2>3. Len(s) \in Nat
    BY <1>0
  <2> HIDE DEF d
  <2> QED
    BY <2>1, <2>2, <2>3
<1>2. \A k \in 1 .. n : /\ k - 1 \in Nat /\ Offset(k - 1, len) \in Nat /\ Offset(k, len) = Offset(k - 1, len) + len
                        /\ Offset(k, len) <= Len(s)
  <2> TAKE k \in 1 .. n
  <2>1. k - 1 \in Nat /\ k - 1 + 1 = k /\ k \in Nat /\ (k < n \/ k = n)
    OBVIOUS
  <2>2. Offset(k - 1, len) \in Nat /\ Offset(k - 1 + 1, len) = Offset(k - 1, len) + len
    BY <1>0, <2>1
  <2>3. Offset(k, len) <= Offset(n, len)
    <3>1. Offset(k, len) \in Nat /\ Offset(n, len) \in Nat
      BY <1>0, <2>1
    <3>2. CASE k < n
      <4>1. Offset(k, len) + len <= Offset(n, len)
        BY <1>0, <2>1, <3>2
      <4> QED
        BY <1>1, <3>1, <4>1
    <3>3. CASE k = n
      BY <3>1, <3>3
    <3> QED
      BY <2>1, <3>2, <3>3
  <2> QED
    BY <2>1, <2>2, <2>3
<1>3. \A k \in 1 .. n : /\ p[k] = Offset(k - 1, len) + c /\ q[k] = Offset(k - 1, len) + len - d
                        /\ q[k] = Offset(k, len) - d
                        /\ p[k] \in Nat /\ q[k] \in Nat
  <2> TAKE k \in 1 .. n
  <2>1. k \in 1 .. n + 1 /\ k \in 0 .. n + 1 /\ k # n + 1 /\ k # 0
    OBVIOUS
  <2>2. p[k] = Offset(k - 1, len) + c /\ q[k] = Offset(k, len) - d
    BY <2>1
  <2>3. c \in Nat /\ c + 1 > 0
    OBVIOUS
  <2>4. e \in Nat
    OBVIOUS
  <2> DEFINE z == Offset(k - 1, len)
             y == Offset(k, len)
  <2>5. z \in Nat /\ y = z + len
    BY <1>2
  <2>6. len \in Nat /\ d \in 0 .. e /\ len - d > c + 2
    BY <1>1
  <2> HIDE DEF p, q, d, z, y
  <2>7. z + c \in Nat /\ y - d = z + len - d /\ y - d \in Nat
    BY ONLY <2>3, <2>4, <2>5, <2>6
  <2> QED
    BY ONLY <2>2, <2>7 DEF z, y
<1>4. q[0] = 0 /\ p[n + 1] = Len(s) + 1 /\ q[n + 1] = Len(s) + 2
  BY DEF p, q
<1>5. p \in [1 .. n + 1 -> Nat] /\ q \in [0 .. n + 1 -> Nat]
  <2>1. \A k \in 1 .. n + 1 : k = n + 1 \/ k \in 1 .. n
    OBVIOUS
  <2>2. \A k \in 0 .. n + 1 : k = n + 1 \/ k = 0 \/ k \in 1 .. n
    OBVIOUS
  <2>5. p = [k \in 1 .. n + 1 |-> p[k]] /\ q = [k \in 0 .. n + 1 |-> q[k]]
    OBVIOUS
  <2> HIDE DEF p, q
  <2> HIDE DEF AreFramed, Sizes, MadeOf
  <2>6. Len(s) + 1 \in Nat /\ Len(s) + 2 \in Nat
    BY ONLY <1>1
  <2>3. \A k \in 1 .. n + 1 : p[k] \in Nat
    BY ONLY <1>3, <1>4, <2>1, <2>6
  <2>4. \A k \in 0 .. n + 1 : q[k] \in Nat
    BY ONLY <1>3, <1>4, <2>2, <2>6
  <2> QED
    BY <2>3, <2>4, <2>5
<1> HIDE DEF p, q, d
<1>6. ASSUME NEW j \in 0 .. n + 1, NEW k \in 1 .. n + 1, j < k PROVE q[j] < p[k]
  <2>1. j = 0 \/ j \in 1 .. n
    BY <1>6
  <2>2. CASE k = n + 1
    <3>1. p[k] = Len(s) + 1
      BY <1>4, <2>2
    <3>2. CASE j = 0
      BY <1>1, <1>4, <3>1, <3>2
    <3>3. CASE j \in 1 .. n
      <4>1. q[j] = Offset(j, len) - d /\ Offset(j, len) <= Len(s) /\ q[j] \in Nat /\ Offset(j, len) = Offset(j - 1, len) + len
            /\ Offset(j - 1, len) \in Nat
        BY <1>2, <1>3, <3>3
      <4> QED
        BY <1>1, <3>1, <4>1
    <3> QED
      BY <2>1, <3>2, <3>3
  <2>3. CASE k # n + 1
    <3>1. k \in 1 .. n
      BY <2>3
    <3>2. CASE j = 0
      <4>1. p[k] = Offset(k - 1, len) + c /\ Offset(k - 1, len) \in Nat
        BY <1>2, <1>3, <3>1
      <4> QED
        BY <1>4, <3>2, <4>1
    <3>3. CASE j \in 1 .. n
      <4>1. j = k - 1 \/ j < k - 1
        BY <1>6, <3>1, <3>3
      <4>2. k - 1 \in Nat /\ j \in Nat
        BY <3>1, <3>3
      <4>3. Offset(j, len) <= Offset(k - 1, len) /\ Offset(j, len) \in Nat /\ Offset(k - 1, len) \in Nat
        <5>1. Offset(j, len) \in Nat /\ Offset(k - 1, len) \in Nat
          BY <1>0, <4>2
        <5>2. CASE j = k - 1
          BY <5>1, <5>2
        <5>3. CASE j < k - 1
          <6>1. Offset(j, len) + len <= Offset(k - 1, len)
            BY <1>0, <4>2, <5>3
          <6> QED
            BY <1>1, <5>1, <6>1
        <5> QED
          BY <4>1, <5>1, <5>2, <5>3
      <4>4. q[j] = Offset(j, len) - d /\ p[k] = Offset(k - 1, len) + c
        BY <1>3, <3>1, <3>3
      <4> QED
        BY <1>1, <4>3, <4>4
    <3> QED
      BY <2>1, <3>2, <3>3
  <2> QED
    BY <2>2, <2>3
<1>7. ASSUME NEW k \in 1 .. n, NEW x \in 1 .. len
      PROVE  /\ s[Offset(k - 1, len) + x] = seqs[k][x]
             /\ IsEnd(native, s, Offset(k - 1, len) + x) <=> IsEnd(native, seqs[k], x)
             /\ Offset(k - 1, len) + x \in 1 .. Len(s)
  <2> DEFINE z == Offset(k - 1, len)
             t == seqs[k]
  <2>1. z \in Nat /\ z + len <= Len(s)
    BY <1>2
  <2>2. \A y \in 1 .. len : s[z + y] = t[y]
    OBVIOUS
  <2>3. t[1] # LF /\ t[1] # CR
    BY DEF IsFramed
  <2> HIDE DEF z, t
  <2>4. z + x \in 1 .. Len(s)
    BY <1>1, <2>1
  <2>5. s[z + x] = t[x]
    BY <2>2
  <2>6. x > 1 => z + x > 1 /\ s[z + x - 1] = t[x - 1]
    <3> SUFFICES ASSUME x > 1 PROVE z + x > 1 /\ s[z + x - 1] = t[x - 1]
      OBVIOUS
    <3>1. x - 1 \in 1 .. len /\ z + (x - 1) = z + x - 1 /\ z + x > 1
      BY <1>1, <2>1
    <3> QED
      BY <2>2, <3>1
  <2>7. x > 2 => z + x > 2 /\ s[z + x - 2] = t[x - 2]
    <3> SUFFICES ASSUME x > 2 PROVE z + x > 2 /\ s[z + x - 2] = t[x - 2]
      OBVIOUS
    <3>1. x - 2 \in 1 .. len /\ z + (x - 2) = z + x - 2 /\ z + x > 2
      BY <1>1, <2>1
    <3> QED
      BY <2>2, <3>1
  <2>8. IsEnd(native, s, z + x) <=> IsEnd(native, t, x)
    <3>1. CASE x > 2
      <4>1. x > 1 /\ z + x > 2 /\ z + x > 1
        BY <3>1, <2>6, <2>7
      <4>2. s[z + x - 1] = t[x - 1] /\ s[z + x - 2] = t[x - 2]
        BY <2>6, <2>7, <3>1, <4>1
      <4>3. CASE native = TRUE
        BY <2>5, <4>3 DEF IsEnd
      <4>4. CASE native = FALSE
        <5>1. IsEnd(FALSE, s, z + x) <=> IsEnd(FALSE, t, x)
          BY <2>1, <2>5, <3>1, <4>1, <4>2 DEF IsEnd
        <5> QED
          BY <4>4, <5>1
      <4> QED
        BY <4>3, <4>4
    <3>2. CASE x = 2
      <4>1. x > 1 /\ ~(x > 2) /\ x - 1 = 1
        BY <3>2
      <4>2. ~(t[x - 1] = LF) /\ ~(t[x - 1] = CR) /\ s[z + x - 1] = t[x - 1]
        BY <2>3, <2>6, <4>1
      <4>3. CASE native = TRUE
        BY <2>5, <4>3 DEF IsEnd
      <4>4. CASE native = FALSE
        <5>1. IsEnd(FALSE, s, z + x) <=> IsEnd(FALSE, t, x)
          BY <2>1, <2>5, <4>1, <4>2 DEF IsEnd
        <5> QED
          BY <4>4, <5>1
      <4> QED
        BY <4>3, <4>4
    <3>3. CASE x = 1
      BY <2>3, <2>5, <3>3 DEF IsEnd
    <3> QED
      BY <3>1, <3>2, <3>3
  <2> QED
    BY <2>4, <2>5, <2>8 DEF z, t
<1>8. \A o \in 1 .. Len(s) : \E k \in 1 .. n : \E x \in 1 .. len : o = Offset(k - 1, len) + x
  BY <1>0
<1>9. ASSUME NEW k \in 1 .. n
      PROVE  /\ p[k] + 2 < q[k] /\ q[k] <= Len(s)
             /\ s[p[k]] = DATA /\ s[p[k] + 1] = Half(k, 1) /\ s[p[k] + 2] = Half(k, 2)
             /\ IsEnd(native, s, q[k])
  <2> DEFINE z == Offset(k - 1, len)
             t == seqs[k]
  <2>1. z \in Nat /\ z + len <= Len(s) /\ p[k] = z + c /\ q[k] = z + len - d
    BY <1>2, <1>3
  <2>2. t[c] = DATA /\ t[c + 1] = Half(k, 1) /\ t[c + 2] = Half(k, 2)
    BY DEF IsFramed
  <2>3. IsEnd(native, t, len - d)
    <3>1. CASE native = TRUE
      BY <3>1 DEF IsFramed, d
    <3>2. CASE native = FALSE
      <4>1. d = 0 /\ len - d = len
        BY <1>1, <3>2 DEF d
      <4> QED
        BY <3>2, <4>1 DEF IsFramed
    <3> QED
      BY <3>1, <3>2
  <2>4. \A x \in 1 .. len : s[z + x] = t[x] /\ (IsEnd(native, s, z + x) <=> IsEnd(native, t, x))
    BY <1>7
  <2> HIDE DEF z, t
  <2>5. /\ c \in 1 .. len /\ c + 1 \in 1 .. len /\ c + 2 \in 1 .. len /\ len - d \in 1 .. len
        /\ z + (c + 1) = p[k] + 1 /\ z + (c + 2) = p[k] + 2 /\ z + (len - d) = q[k]
    <3>1. c \in Nat /\ d \in Nat /\ e \in Nat /\ d <= e /\ len = c + 2 + e + e
      BY <1>1
    <3>2. c \in 1 .. len /\ c + 1 \in 1 .. len /\ c + 2 \in 1 .. len
      OBVIOUS
    <3>3. len - d \in 1 .. len
      BY <1>1, <3>1
    <3> QED
      BY ONLY <2>1, <3>1, <3>2, <3>3
  <2>6. s[p[k]] = DATA /\ s[p[k] + 1] = Half(k, 1) /\ s[p[k] + 2] = Half(k, 2)
    BY <2>1, <2>2, <2>4, <2>5
  <2>7. IsEnd(native, s, q[k])
    BY <2>3, <2>4, <2>5
  <2>8. p[k] + 2 < q[k] /\ q[k] <= Len(s)
    BY <1>1, <2>1
  <2> QED
    BY <2>6, <2>7, <2>8
<1>10. ASSUME NEW o \in 1 .. Len(s)
       PROVE  /\ s[o] = DATA => \E k \in 1 .. n : o = p[k]
              /\ IsHalf(s[o]) => \E k \in 1 .. n : o = p[k] + 1 \/ o = p[k] + 2
  <2>1. PICK k \in 1 .. n, x \in 1 .. len : o = Offset(k - 1, len) + x
    BY <1>8
  <2>2. s[o] = seqs[k][x]
    BY <1>7, <2>1
  <2>3. /\ x < c \/ x > c + 2 => seqs[k][x] \in {NAME, LF, CR}
        /\ seqs[k][c + 1] = Half(k, 1) /\ seqs[k][c + 2] = Half(k, 2) /\ seqs[k][c] = DATA
    BY DEF IsFramed
  <2>4. x < c \/ x > c + 2 \/ x = c \/ x = c + 1 \/ x = c + 2
    BY <1>1
  <2>5. Offset(k - 1, len) \in Nat /\ p[k] = Offset(k - 1, len) + c
    BY <1>2, <1>3
  <2>9. ~IsHalf(DATA) /\ DATA # NAME /\ DATA # LF /\ DATA # CR /\ IsHalf(Half(k, 1)) /\ IsHalf(Half(k, 2))
    BY SymbolsDiffer
  <2>6. s[o] = DATA => x = c
    <3> SUFFICES ASSUME s[o] = DATA PROVE x = c
      OBVIOUS
    <3>1. ~(x < c \/ x > c + 2)
      <4>1. DATA \notin {NAME, LF, CR} /\ seqs[k][x] = DATA
        BY <2>2, <2>9
      <4> QED
        BY ONLY <2>3, <4>1
    <3>2. x # c + 1 /\ x # c + 2
      <4>1. seqs[k][x] = DATA
        BY <2>2
      <4> QED
        BY ONLY <2>3, <2>9, <4>1
    <3> QED
      BY ONLY <2>4, <3>1, <3>2
  <2>7. IsHalf(s[o]) => x = c + 1 \/ x = c + 2
    BY <2>2, <2>3, <2>4, SymbolsDiffer
  <2>8. (x = c + 1 => o = p[k] + 1) /\ (x = c + 2 => o = p[k] + 2) /\ (x = c => o = p[k])
    <3> DEFINE z == Offset(k - 1, len)
    <3>1. z \in Nat /\ p[k] = z + c /\ o = z + x
      BY <2>1, <2>5
    <3> HIDE DEF z
    <3>2. c \in Nat
      OBVIOUS
    <3>3. CASE x = c
      BY <3>1, <3>2, <3>3
    <3>4. CASE x = c + 1
      BY <3>1, <3>2, <3>4
    <3>5. CASE x = c + 2
      BY <3>1, <3>2, <3>5
    <3>6. c # c + 1 /\ c # c + 2 /\ c + 1 # c + 2
      BY <3>2
    <3> QED
      BY <3>3, <3>4, <3>5, <3>6
  <2> QED
    BY <2>6, <2>7, <2>8
<1>11. ASSUME NEW o \in 1 .. Len(s), IsEnd(native, s, o), NEW k \in 1 .. n, p[k] <= o, o < q[k]
       PROVE  FALSE
  <2>1. PICK j \in 1 .. n, x \in 1 .. len : o = Offset(j - 1, len) + x
    BY <1>8
  <2>2. /\ Offset(k - 1, len) \in Nat /\ p[k] = Offset(k - 1, len) + c /\ q[k] = Offset(k - 1, len) + len - d
        /\ Offset(j - 1, len) \in Nat
    BY <1>2, <1>3
  <2>3. CASE j < k
    <3>1. Offset(j - 1, len) + len <= Offset(k - 1, len)
      BY <1>0, <2>3
    <3>2. c \in Nat /\ c >= 1 /\ x \in 1 .. len /\ o \in Int
      OBVIOUS
    <3> QED
      BY ONLY <1>1, <1>11, <2>1, <2>2, <3>1, <3>2
  <2>4. CASE j > k
    <3>1. Offset(k - 1, len) + len <= Offset(j - 1, len)
      BY <1>0, <2>4
    <3>2. x \in 1 .. len /\ o \in Int /\ e \in Nat
      OBVIOUS
    <3> QED
      BY ONLY <1>1, <1>11, <2>1, <2>2, <3>1, <3>2
  <2>5. CASE j = k
    <3>1. x >= c /\ x < len - d /\ x \in c .. len
      BY <1>1, <1>11, <2>1, <2>2, <2>5
    <3>2. IsEnd(native, seqs[k], x)
      BY <1>7, <1>11, <2>1, <2>5
    <3>3. CASE native = TRUE
      <4>1. x >= len - e
        BY <3>1, <3>2, <3>3 DEF IsFramed
      <4>2. d = e
        BY <3>3 DEF d
      <4> QED
        BY <1>1, <3>1, <4>1, <4>2
    <3>4. CASE native = FALSE
      <4>1. x = len
        BY <3>1, <3>2, <3>4 DEF IsFramed
      <4>2. d = 0
        BY <3>4 DEF d
      <4> QED
        BY <1>1, <3>1, <4>1, <4>2
    <3> QED
      BY <3>3, <3>4
  <2> QED
    BY <2>3, <2>4, <2>5
<1>12. ASSUME NEW o \in 1 .. Len(s), ~native, o = 1 \/ IsEnd(native, s, o - 1)
       PROVE  s[o] # LF /\ s[o] # CR
  <2>1. PICK k \in 1 .. n, x \in 1 .. len : o = Offset(k - 1, len) + x
    BY <1>8
  <2>2. s[o] = seqs[k][x] /\ Offset(k - 1, len) \in Nat
    BY <1>2, <1>7, <2>1
  <2>3. CASE x = 1
    BY <2>2, <2>3 DEF IsFramed
  <2>4. CASE x # 1
    <3> DEFINE z == Offset(k - 1, len)
    <3>0. z \in Nat /\ o = z + x
      BY <2>1, <2>2
    <3> HIDE DEF z
    <3>5. x - 1 \in 1 .. len /\ x - 1 < len /\ x - 1 + 1 = x /\ o # 1 /\ o - 1 = z + (x - 1)
      BY <1>1, <2>4, <3>0
    <3>1. x - 1 \in 1 .. len /\ x - 1 < len /\ x - 1 + 1 = x /\ o # 1 /\ o - 1 = Offset(k - 1, len) + (x - 1)
      BY <3>5 DEF z
    <3>2. IsEnd(native, seqs[k], x - 1)
      BY <1>7, <1>12, <3>1
    <3>3. native = FALSE
      BY <1>12
    <3>4. seqs[k][x - 1 + 1] # LF /\ seqs[k][x - 1 + 1] # CR
      BY <3>1, <3>2, <3>3 DEF IsFramed
    <3> QED
      BY <2>2, <3>1, <3>4
  <2> QED
    BY <2>3, <2>4
<1>13. Marks(s, n, p, q, native)
  BY <1>4, <1>5, <1>6, <1>9, <1>10, <1>11, <1>12 DEF Marks
<1>14. \A k \in 1 .. n : q[k] = Offset(k, len) - (IF native THEN e ELSE 0)
  BY <1>3 DEF d
<1> QED
  BY <1>13, <1>14

(* How long a frame is, and where in it the payload begins.                  *)
Before(layout) == Len(Lead(layout)) + 1
EolLen(layout) == Len(Eol(layout))
FrameLen(layout) == Before(layout) + 2 + EolLen(layout) + EolLen(layout)

LEMMA BytesAre ==
  ASSUME deal.kind # "responses", NEW n \in Nat, n > 0, NEW frames, DOMAIN frames = 1 .. n, NEW layout
  PROVE  /\ Sizes(Before(layout), EolLen(layout), FrameLen(layout))
         /\ Len(Bytes(frames, layout)) = Offset(n, FrameLen(layout))
         /\ \E seqs : /\ AreFramed(seqs, n, Before(layout), EolLen(layout), FrameLen(layout))
                      /\ MadeOf(Bytes(frames, layout), seqs, n, FrameLen(layout))
<1> DEFINE seqs == [f \in 1 .. n |-> Framed(f, layout)]
           c == Before(layout)
           e == EolLen(layout)
           len == FrameLen(layout)
<1>0. \A f \in Int : c \in Nat /\ c >= 1 /\ e \in {1, 2} /\ IsFramed(Framed(f, layout), f, c, e, len)
  BY FramedIs DEF Before, EolLen, FrameLen
<1>1. AreFramed(seqs, n, c, e, len)
  <2> SUFFICES ASSUME NEW k \in 1 .. n PROVE IsFramed(seqs[k], k, c, e, len)
    BY DEF AreFramed
  <2>1. k \in Int /\ seqs[k] = Framed(k, layout)
    OBVIOUS
  <2> HIDE DEF seqs, c, e, len
  <2> QED
    BY <1>0, <2>1
<1>2. Sizes(c, e, len)
  <2>1. 1 \in Int
    OBVIOUS
  <2>2. len = c + 2 + e + e
    BY DEF FrameLen
  <2> HIDE DEF c, e, len
  <2> QED
    BY <1>0, <2>1, <2>2 DEF Sizes
<1>3. Bytes(frames, layout) = FlattenSeq(seqs)
  BY DEF Bytes
<1>4. Len(seqs) = n
  <2>1. seqs \in [1 .. n -> {Framed(f, layout) : f \in 1 .. n}]
    OBVIOUS
  <2> QED
    BY <2>1
<1> HIDE DEF seqs, c, e, len
<1>5. Pieces(seqs, n, len)
  BY <1>1, <1>4 DEF IsFramed, AreFramed, Pieces
<1>6. len \in Nat /\ len > 0
  BY <1>2 DEF Sizes
<1>7. MadeOf(FlattenSeq(seqs), seqs, n, len)
  BY <1>5, <1>6, FlatteningIs
<1>8. MadeOf(Bytes(frames, layout), seqs, n, len)
  BY <1>3, <1>7
<1>9. Len(Bytes(frames, layout)) = Offset(n, len)
  BY <1>8 DEF MadeOf
<1> QED
  BY <1>1, <1>2, <1>8, <1>9 DEF c, e, len

LEMMA SendingIs ==
  ASSUME deal.kind # "responses", NEW frames, Len(frames) \in Nat, DOMAIN frames = 1 .. Len(frames),
         NEW layout, NEW native \in BOOLEAN
  PROVE  \E p, q : /\ Marks(Bytes(frames, layout), Len(frames), p, q, native)
                   /\ \A k \in 1 .. Len(frames) :
                        q[k] = Len(Bytes(SubSeq(frames, 1, k), layout)) - (IF native THEN Len(Eol(layout)) ELSE 0)
<1> DEFINE n == Len(frames)
           s == Bytes(frames, layout)
<1>1. CASE n = 0
  <2> DEFINE p == [k \in 1 .. 1 |-> 1]
             q == [k \in 0 .. 1 |-> IF k = 0 THEN 0 ELSE 2]
             seqs == [f \in 1 .. 0 |-> Framed(f, layout)]
  <2>1. s = FlattenSeq(seqs)
    BY <1>1 DEF Bytes
  <2>2. Len(seqs) = 0 /\ seqs \in Seq(Symbols)
    <3>1. seqs \in [1 .. 0 -> Symbols]
      OBVIOUS
    <3> QED
      BY <3>1
  <2>3. s = seqs
    BY <2>1, <2>2 DEF FlattenSeq
  <2> HIDE DEF s, seqs
  <2>4. s \in Seq(Symbols) /\ Len(s) = 0
    BY <2>2, <2>3
  <2>5. /\ n + 1 = 1 /\ p \in [1 .. 1 -> Nat] /\ q \in [0 .. 1 -> Nat] /\ q[0] = 0 /\ p[1] = 1 /\ q[1] = 2
        /\ \A j \in 0 .. 1 : \A k \in 1 .. 1 : j < k => j = 0 /\ k = 1
        /\ 1 .. n = {} /\ 1 .. Len(s) = {}
    BY <1>1, <2>4
  <2> HIDE DEF p, q
  <2>6. Marks(s, n, p, q, native)
    BY <1>1, <2>4, <2>5 DEF Marks
  <2> QED
    BY <2>5, <2>6 DEF s
<1>2. CASE n # 0
  <2> DEFINE c == Before(layout)
             e == EolLen(layout)
             len == FrameLen(layout)
  <2>1. n \in Nat /\ n > 0 /\ DOMAIN frames = 1 .. n
    BY <1>2
  <2> HIDE DEF n, s, c, e, len
  <2>2. Sizes(c, e, len) /\ \E seqs : AreFramed(seqs, n, c, e, len) /\ MadeOf(s, seqs, n, len)
    BY <2>1, BytesAre DEF s, c, e, len
  <2>3. \A k \in 1 .. n : Len(Bytes(SubSeq(frames, 1, k), layout)) = Offset(k, len)
    <3> TAKE k \in 1 .. n
    <3>1. DOMAIN SubSeq(frames, 1, k) = 1 .. k
      BY <2>1 DEF n
    <3>2. k \in Nat /\ k > 0
      BY <2>1
    <3> DEFINE sub == SubSeq(frames, 1, k)
    <3> HIDE DEF sub
    <3>3. DOMAIN sub = 1 .. k
      BY <3>1 DEF sub
    <3>4. Len(Bytes(sub, layout)) = Offset(k, len)
      BY <3>2, <3>3, BytesAre DEF len
    <3> QED
      BY <3>4 DEF sub
  <2>4. PICK seqs : AreFramed(seqs, n, c, e, len) /\ MadeOf(s, seqs, n, len)
    BY <2>2
  <2>6. \E p, q : /\ Marks(s, n, p, q, native)
                  /\ \A k \in 1 .. n : q[k] = Offset(k, len) - (IF native THEN e ELSE 0)
    BY <2>1, <2>2, <2>4, MarksAre
  <2>7. PICK p, q : /\ Marks(s, n, p, q, native)
                    /\ \A k \in 1 .. n : q[k] = Offset(k, len) - (IF native THEN e ELSE 0)
    BY <2>6
  <2>8. \A k \in 1 .. n :
          q[k] = Len(Bytes(SubSeq(frames, 1, k), layout)) - (IF native THEN Len(Eol(layout)) ELSE 0)
    BY <2>3, <2>7 DEF e, EolLen
  <2> QED
    BY <2>7, <2>8 DEF n, s
<1> QED
  BY <1>1, <1>2

-----------------------------------------------------------------------------
(* The readers.                                                            *)

LEMMA MinIs ==
  ASSUME NEW S \in SUBSET Nat, S # {}
  PROVE  Min(S) \in S /\ \A x \in S : Min(S) <= x
<1> DEFINE R == OpToRel(<, Nat)
<1>1. PICK m \in S : \A y \in S : ~ (<<y, m>> \in R)
  BY WFMin, NatLessThanWellFounded
<1>2. \A y, z \in Nat : y < z => <<y, z>> \in R
  BY DEF OpToRel
<1> HIDE DEF R
<1>3. \A y \in S : m <= y
  <2> TAKE y \in S
  <2>1. y \in Nat /\ m \in Nat
    OBVIOUS
  <2>2. ~(y < m)
    BY <1>1, <1>2, <2>1
  <2> QED
    BY <2>1, <2>2
<1> QED
  BY <1>1, <1>3 DEF Min

(* What two alike functions end with is the same.                            *)
LEMMA AlikeAtTheEnd ==
  ASSUME NEW n \in Nat, NEW f, NEW g, f[0] = g[0],
         \A i \in 1 .. n : f[i - 1] = g[i - 1] => f[i] = g[i]
  PROVE  f[n] = g[n]
<1>1. \A i \in 0 .. n : f[i] = g[i]
  BY Alike
<1>2. n \in 0 .. n
  OBVIOUS
<1> QED
  BY <1>1, <1>2

(* One more symbol.                                                          *)
LEMMA OneMore ==
  ASSUME NEW seq \in Seq(Symbols), NEW elt \in Symbols
  PROVE  /\ Append(seq, elt) \in Seq(Symbols)
         /\ Len(Append(seq, elt)) = Len(seq) + 1
         /\ \A i \in 1 .. Len(seq) : Append(seq, elt)[i] = seq[i]
         /\ Append(seq, elt)[Len(seq) + 1] = elt
BY AppendProperties

(* Halves keeps the two halves of the only payload.                          *)
LEMMA HalvesAre ==
  ASSUME NEW raw \in Seq(Symbols), NEW a \in Nat, a >= 1, a + 1 <= Len(raw),
         \A i \in 1 .. Len(raw) : IsHalf(raw[i]) <=> (i = a \/ i = a + 1)
  PROVE  /\ Halves(raw) \in Seq(Symbols) /\ Len(Halves(raw)) = 2
         /\ Halves(raw)[1] = raw[a] /\ Halves(raw)[2] = raw[a + 1]
<1> DEFINE n == Len(raw)
           one == Append(<< >>, raw[a])
           two == Append(one, raw[a + 1])
           f == [i \in 0 .. n |-> IF i < a THEN << >> ELSE IF i = a THEN one ELSE two]
           Body(g) == [i \in 0 .. Len(raw) |->
                         IF i = 0 THEN << >>
                         ELSE IF IsHalf(raw[i]) THEN Append(g[i - 1], raw[i]) ELSE g[i - 1]]
           kept == CHOOSE kept : kept = Body(kept)
<1>1. n \in Nat /\ raw[a] \in Symbols /\ raw[a + 1] \in Symbols
  BY SMTT(30)
<1>2. f = Body(f)
  <2>1. \A i \in 0 .. n : f[i] = Body(f)[i]
    <3> TAKE i \in 0 .. n
    <3> HIDE DEF one
    <3>1. CASE i = 0
      BY <1>1, <3>1
    <3>2. CASE i # 0 /\ i < a
      <4>1. i \in 1 .. n /\ i - 1 \in 0 .. n /\ i - 1 < a /\ ~(i = a \/ i = a + 1)
        BY <1>1, <3>2
      <4> QED
        BY <3>2, <4>1
    <3>3. CASE i = a
      <4>1. i \in 1 .. n /\ i - 1 \in 0 .. n /\ i - 1 < a /\ IsHalf(raw[i]) /\ i # 0 /\ ~(i < a)
        BY <1>1, <3>3
      <4>2. f[i - 1] = << >> /\ f[i] = one
        BY <3>3, <4>1
      <4> HIDE DEF f
      <4> QED
        BY <3>3, <4>1, <4>2 DEF one
    <3>4. CASE i = a + 1
      <4>1. i \in 1 .. n /\ i - 1 \in 0 .. n /\ i - 1 = a /\ IsHalf(raw[i]) /\ i # 0 /\ ~(i < a) /\ i # a /\ ~(a < a)
        BY <1>1, <3>4
      <4>2. f[i - 1] = one /\ f[i] = two
        BY <3>4, <4>1
      <4> HIDE DEF f
      <4> QED
        BY <3>4, <4>1, <4>2
    <3>5. CASE i > a + 1
      <4>1. i \in 1 .. n /\ i - 1 \in 0 .. n /\ ~(i - 1 < a) /\ i - 1 # a /\ ~IsHalf(raw[i]) /\ i # 0 /\ ~(i < a) /\ i # a
        BY <1>1, <3>5
      <4>2. f[i - 1] = two /\ f[i] = two
        BY <4>1
      <4> HIDE DEF f, two
      <4> QED
        BY <4>1, <4>2
    <3>6. i = 0 \/ (i # 0 /\ i < a) \/ i = a \/ i = a + 1 \/ i > a + 1
      BY <1>1
    <3> QED
      BY <3>1, <3>2, <3>3, <3>4, <3>5, <3>6
  <2> HIDE DEF one, two
  <2> QED
    BY <2>1
<1>3. kept = Body(kept)
  <2> HIDE DEF Body
  <2> QED
    BY <1>2
<1>4. Halves(raw) = kept[n]
  BY DEF Halves
<1> HIDE DEF kept
<1>5. \A i \in 0 .. n : kept[i] = IF i = 0 THEN << >>
                                  ELSE IF IsHalf(raw[i]) THEN Append(kept[i - 1], raw[i]) ELSE kept[i - 1]
  BY <1>3
<1>6. \A i \in 0 .. n : f[i] = IF i = 0 THEN << >>
                               ELSE IF IsHalf(raw[i]) THEN Append(f[i - 1], raw[i]) ELSE f[i - 1]
  <2> HIDE DEF f
  <2> QED
    BY <1>2
<1>7. f[n] = two
  BY <1>1
<1> HIDE DEF f
<1>8. kept[n] = f[n]
  <2>1. kept[0] = f[0]
    <3>1. 0 \in 0 .. n
      BY <1>1
    <3> QED
      BY <1>5, <1>6, <3>1
  <2>2. \A i \in 1 .. n : kept[i - 1] = f[i - 1] => kept[i] = f[i]
    <3>1. \A i \in 1 .. n : i \in 0 .. n /\ i # 0
      BY <1>1
    <3> QED
      BY <1>5, <1>6, <3>1
  <2>3. n \in Nat
    BY <1>1
  <2> HIDE DEF n, one, two, Body
  <2> QED
    BY <2>1, <2>2, <2>3, AlikeAtTheEnd
<1>9. two \in Seq(Symbols) /\ Len(two) = 2 /\ two[1] = raw[a] /\ two[2] = raw[a + 1]
  <2>1. << >> \in Seq(Symbols) /\ Len(<< >>) = 0
    OBVIOUS
  <2> DEFINE x == raw[a]
             y == raw[a + 1]
  <2>2. x \in Symbols /\ y \in Symbols
    BY <1>1
  <2> HIDE DEF x, y
  <2>3. Append(<< >>, x) \in Seq(Symbols) /\ Len(Append(<< >>, x)) = 1 /\ Append(<< >>, x)[1] = x
    <3> HIDE DEF one, two, Body
    <3> DEFINE z == << >>
    <3>1. z \in Seq(Symbols) /\ Len(z) = 0
      BY <2>1
    <3> HIDE DEF z
    <3>2. Append(z, x) \in Seq(Symbols) /\ Len(Append(z, x)) = Len(z) + 1 /\ Append(z, x)[Len(z) + 1] = x
      BY <2>2, <3>1, OneMore
    <3>3. Append(z, x) \in Seq(Symbols) /\ Len(Append(z, x)) = 1 /\ Append(z, x)[1] = x
      <4>1. 0 + 1 = 1
        OBVIOUS
      <4> QED
        BY <3>1, <3>2, <4>1
    <3> QED
      BY <3>3 DEF z
  <2> DEFINE o == Append(<< >>, x)
  <2> HIDE DEF o
  <2>4. o \in Seq(Symbols) /\ Len(o) = 1 /\ o[1] = x
    BY <2>3 DEF o
  <2>5. Append(o, y) \in Seq(Symbols) /\ Len(Append(o, y)) = 2 /\ Append(o, y)[1] = x /\ Append(o, y)[2] = y
    <3>1. /\ Append(o, y) \in Seq(Symbols) /\ Len(Append(o, y)) = Len(o) + 1
          /\ \A i \in 1 .. Len(o) : Append(o, y)[i] = o[i]
          /\ Append(o, y)[Len(o) + 1] = y
      BY <2>2, <2>4, OneMore
    <3>2. 1 \in 1 .. Len(o)
      BY <2>4
    <3>3. Append(o, y)[1] = o[1]
      BY <3>1, <3>2
    <3>4. 1 + 1 = 2
      OBVIOUS
    <3> QED
      BY <2>4, <3>1, <3>2, <3>3, <3>4
  <2> QED
    BY <2>5 DEF o, x, y
<1> QED
  BY <1>4, <1>7, <1>8, <1>9

(* Both readers look for the first end of what they read.                    *)
LEMMA EndsAre ==
  ASSUME NEW bytes \in Seq(Symbols)
  PROVE  /\ LineEnd(bytes) = 0 => \A o \in 1 .. Len(bytes) : ~IsEnd(TRUE, bytes, o)
         /\ LineEnd(bytes) # 0 =>
              /\ LineEnd(bytes) \in 1 .. Len(bytes) /\ IsEnd(TRUE, bytes, LineEnd(bytes))
              /\ \A o \in 1 .. Len(bytes) : IsEnd(TRUE, bytes, o) => LineEnd(bytes) <= o
         /\ FrameEnd(bytes) = 0 => \A o \in 1 .. Len(bytes) : ~IsEnd(FALSE, bytes, o)
         /\ FrameEnd(bytes) # 0 =>
              /\ FrameEnd(bytes) \in Nat /\ FrameEnd(bytes) + 1 \in 1 .. Len(bytes) /\ IsEnd(FALSE, bytes, FrameEnd(bytes) + 1)
              /\ \A o \in 1 .. Len(bytes) : IsEnd(FALSE, bytes, o) => FrameEnd(bytes) + 1 <= o
<1> DEFINE n == Len(bytes)
<1>0. n \in Nat /\ DOMAIN bytes = 1 .. n
  OBVIOUS
<1>1. /\ LineEnd(bytes) = 0 => \A o \in 1 .. n : ~IsEnd(TRUE, bytes, o)
      /\ LineEnd(bytes) # 0 =>
           /\ LineEnd(bytes) \in 1 .. n /\ IsEnd(TRUE, bytes, LineEnd(bytes))
           /\ \A o \in 1 .. n : IsEnd(TRUE, bytes, o) => LineEnd(bytes) <= o
  <2> DEFINE ends == {i \in 1 .. n : bytes[i] = LF}
  <2>1. LineEnd(bytes) = IF ends = {} THEN 0 ELSE Min(ends)
    BY <1>0 DEF LineEnd
  <2>2. \A o \in 1 .. n : IsEnd(TRUE, bytes, o) <=> o \in ends
    BY DEF IsEnd
  <2>3. ends \in SUBSET Nat /\ ends \subseteq 1 .. n
    BY <1>0
  <2>6. \A x \in ends : x \in 1 .. n /\ x # 0
    BY <1>0
  <2> HIDE DEF ends, n
  <2>4. CASE ends = {}
    BY <2>1, <2>2, <2>4
  <2>5. CASE ends # {}
    <3>1. Min(ends) \in ends /\ \A x \in ends : Min(ends) <= x
      BY <2>3, <2>5, MinIs
    <3>2. LineEnd(bytes) = Min(ends)
      BY <2>1, <2>5
    <3>3. Min(ends) \in 1 .. n /\ Min(ends) # 0
      BY <2>6, <3>1
    <3> QED
      BY <2>2, <3>1, <3>2, <3>3
  <2> QED
    BY <2>4, <2>5
<1>2. /\ FrameEnd(bytes) = 0 => \A o \in 1 .. n : ~IsEnd(FALSE, bytes, o)
      /\ FrameEnd(bytes) # 0 =>
           /\ FrameEnd(bytes) \in Nat /\ FrameEnd(bytes) + 1 \in 1 .. n /\ IsEnd(FALSE, bytes, FrameEnd(bytes) + 1)
           /\ \A o \in 1 .. n : IsEnd(FALSE, bytes, o) => FrameEnd(bytes) + 1 <= o
  <2> DEFINE plain == {i \in 1 .. n : i < n /\ bytes[i] = LF /\ bytes[i + 1] = LF}
             dos == {i \in 1 .. n : i + 1 < n /\ bytes[i] = LF /\ bytes[i + 1] = CR /\ bytes[i + 2] = LF}
             first == Min(plain \cup dos)
  <2>1. FrameEnd(bytes) = IF plain \cup dos = {} THEN 0 ELSE IF first \in plain THEN first ELSE first + 1
    BY <1>0 DEF FrameEnd
  <2>2. plain \cup dos \in SUBSET Nat
    BY <1>0
  <2>3. ASSUME NEW o \in 1 .. n, IsEnd(FALSE, bytes, o)
        PROVE  (o - 1 \in plain /\ o > 1) \/ (o - 2 \in dos /\ o > 2)
    <3>1. bytes[o] = LF /\ ((o > 1 /\ bytes[o - 1] = LF) \/ (o > 2 /\ bytes[o - 1] = CR /\ bytes[o - 2] = LF))
      BY <2>3 DEF IsEnd
    <3>2. CASE o > 1 /\ bytes[o - 1] = LF
      <4>1. o - 1 \in 1 .. n /\ o - 1 < n /\ o - 1 + 1 = o
        BY <1>0, <3>2
      <4>2. o - 1 \in plain
        BY <3>1, <3>2, <4>1
      <4> QED
        BY <3>2, <4>2
    <3>3. CASE o > 2 /\ bytes[o - 1] = CR /\ bytes[o - 2] = LF
      <4>1. o - 2 \in 1 .. n /\ o - 2 + 1 < n /\ o - 2 + 1 = o - 1 /\ o - 2 + 2 = o
        BY <1>0, <3>3
      <4>2. o - 2 \in dos
        BY <3>1, <3>3, <4>1
      <4> QED
        BY <3>3, <4>2
    <3> QED
      BY <3>1, <3>2, <3>3
  <2>4. ASSUME NEW i \in plain
        PROVE  i \in Nat /\ i # 0 /\ i + 1 \in 1 .. n /\ IsEnd(FALSE, bytes, i + 1)
    <3>1. i \in Nat /\ i # 0 /\ i + 1 \in 1 .. n /\ i + 1 > 1 /\ i + 1 - 1 = i /\ bytes[i] = LF /\ bytes[i + 1] = LF
      BY <1>0
    <3> QED
      BY <3>1 DEF IsEnd
  <2>5. ASSUME NEW i \in dos
        PROVE  i \in Nat /\ i + 1 + 1 \in 1 .. n /\ IsEnd(FALSE, bytes, i + 1 + 1) /\ bytes[i + 1] # LF
    <3>0. i + 1 + 1 = i + 2 /\ i \in Nat
      BY <1>0
    <3>1. /\ i + 2 \in 1 .. n /\ i + 2 > 2 /\ i + 2 - 2 = i /\ i + 2 - 1 = i + 1
          /\ bytes[i] = LF /\ bytes[i + 1] = CR /\ bytes[i + 2] = LF
      BY <1>0
    <3>2. IsEnd(FALSE, bytes, i + 2)
      BY <3>1 DEF IsEnd
    <3> QED
      BY <3>0, <3>1, <3>2, SymbolsDiffer
  <2>6. CASE plain \cup dos = {}
    <3>1. FrameEnd(bytes) = 0
      BY <2>1, <2>6
    <3> QED
      BY <2>3, <2>6, <3>1
  <2>7. CASE plain \cup dos # {}
    <3>1. first \in plain \cup dos /\ \A x \in plain \cup dos : first <= x
      BY <2>2, <2>7, MinIs
    <3>6. \A i \in plain : bytes[i] = LF
      OBVIOUS
    <3> HIDE DEF first, plain, dos, n
    <3>2. first \in Nat
      BY <2>2, <3>1
    <3>3. CASE first \in plain
      <4>1. FrameEnd(bytes) = first
        BY <2>1, <2>7, <3>3
      <4>2. \A o \in 1 .. n : IsEnd(FALSE, bytes, o) => first + 1 <= o
        <5> SUFFICES ASSUME NEW o \in 1 .. n, IsEnd(FALSE, bytes, o) PROVE first + 1 <= o
          OBVIOUS
        <5>1. first <= o - 1 \/ first <= o - 2
          BY <2>3, <3>1
        <5> QED
          BY <1>0, <3>2, <5>1
      <4> QED
        BY <2>4, <3>3, <4>1, <4>2
    <3>4. CASE first \notin plain
      <4>1. FrameEnd(bytes) = first + 1 /\ first \in dos
        BY <2>1, <2>7, <3>1, <3>4
      <4>2. bytes[first + 1] # LF
        BY <2>5, <4>1
      <4>3. \A o \in 1 .. n : IsEnd(FALSE, bytes, o) => first + 1 + 1 <= o
        <5> SUFFICES ASSUME NEW o \in 1 .. n, IsEnd(FALSE, bytes, o) PROVE first + 1 + 1 <= o
          OBVIOUS
        <5>1. CASE o - 2 \in dos
          <6>1. first <= o - 2
            BY <3>1, <5>1
          <6> QED
            BY <1>0, <3>2, <6>1
        <5>2. CASE o - 1 \in plain
          <6>1. first <= o - 1 /\ bytes[o - 1] = LF
            BY <3>1, <3>6, <5>2
          <6>2. first # o - 1
            BY <3>4, <5>2
          <6>3. first + 1 # o - 1
            BY <4>2, <6>1
          <6> QED
            BY <1>0, <3>2, <6>1, <6>2, <6>3
        <5> QED
          BY <2>3, <5>1, <5>2
      <4>4. first + 1 # 0 /\ first + 1 \in Nat
        BY <3>2
      <4> QED
        BY <2>5, <4>1, <4>3, <4>4
    <3> QED
      BY <3>3, <3>4
  <2> QED
    BY <2>6, <2>7
<1> QED
  BY <1>1, <1>2

(* What a reader holds of the bytes s after the m-th, when `upto` have come.  *)
Window(b, s, m, upto) ==
  /\ m \in Nat /\ upto \in Nat /\ m <= upto /\ upto <= Len(s)
  /\ b \in Seq(Symbols) /\ Len(b) = upto - m
  /\ \A i \in 1 .. upto - m : Like(b[i], s[m + i])

(* It has taken all up to an end, and k payloads with it.                    *)
Reached(s, n, p, q, native, m, k, upto, b) ==
  /\ Window(b, s, m, upto)
  /\ k \in 0 .. n /\ q[k] <= m /\ m < q[k + 1]
  /\ m = 0 \/ IsEnd(native, s, m)

(* The two halves of the k-th payload.                                       *)
IsRaw(h, k) ==
  /\ h \in Seq(Symbols) /\ Len(h) = 2
  /\ h[1][2] = k /\ h[1][3] = 1 /\ h[2][2] = k /\ h[2][3] = 2

LEMMA EndsInWindow ==
  ASSUME NEW s, NEW n, NEW p, NEW q, NEW native \in BOOLEAN, Marks(s, n, p, q, native),
         NEW m, NEW k, NEW upto, NEW b, Reached(s, n, p, q, native, m, k, upto, b),
         NEW o \in 1 .. upto - m
  PROVE  IsEnd(native, b, o) <=> IsEnd(native, s, m + o)
<1>1. /\ m \in Nat /\ upto \in Nat /\ m <= upto /\ upto <= Len(s) /\ Len(s) \in Nat
      /\ \A i \in 1 .. upto - m : Like(b[i], s[m + i])
  BY DEF Reached, Window, Marks
<1>2. \A i \in 1 .. upto - m : (b[i] = LF <=> s[m + i] = LF) /\ (b[i] = CR <=> s[m + i] = CR)
  BY <1>1, LikeIs
<1>3. o \in Nat /\ o >= 1 /\ m + o \in 1 .. Len(s)
  BY <1>1
<1>4. CASE native = TRUE
  <2>1. IsEnd(TRUE, b, o) <=> IsEnd(TRUE, s, m + o)
    BY <1>2 DEF IsEnd
  <2> QED
    BY <1>4, <2>1
<1>5. CASE native = FALSE
  <2>1. m + 1 <= Len(s) => s[m + 1] # LF /\ s[m + 1] # CR
    <3>1. ASSUME m + 1 <= Len(s)
          PROVE  s[m + 1] # LF /\ s[m + 1] # CR
      <4>1. m + 1 \in 1 .. Len(s) /\ m + 1 - 1 = m /\ (m = 0 => m + 1 = 1)
        BY <1>1, <3>1
      <4>2. ~native
        BY <1>5
      <4>4. \A i \in 1 .. Len(s) : ~native /\ (i = 1 \/ IsEnd(native, s, i - 1)) => s[i] # LF /\ s[i] # CR
        BY DEF Marks
      <4>5. \A i \in 1 .. Len(s) : i = 1 \/ IsEnd(native, s, i - 1) => s[i] # LF /\ s[i] # CR
        BY ONLY <4>2, <4>4, Zenon
      <4> DEFINE i == m + 1
      <4>6. i \in 1 .. Len(s) /\ i - 1 = m /\ (m = 0 => i = 1)
        BY <1>1, <4>1
      <4> HIDE DEF i
      <4>8. m = 0 \/ IsEnd(native, s, m)
        BY DEF Reached
      <4>9. i = 1 \/ IsEnd(native, s, i - 1)
        BY ONLY <4>6, <4>8
      <4>7. s[i] # LF /\ s[i] # CR
        BY ONLY <4>5, <4>6, <4>9
      <4> QED
        BY <4>7 DEF i
    <3> QED
      BY <3>1
  <2>2. b[o] = LF <=> s[m + o] = LF
    BY <1>2
  <2>3. CASE o = 1
    <3>1. s[m + o] # LF
      BY <1>3, <2>1, <2>3
    <3> QED
      BY <2>2, <3>1 DEF IsEnd
  <2>4. CASE o = 2
    <3>1. /\ o - 1 \in 1 .. upto - m /\ m + (o - 1) = m + o - 1 /\ m + (o - 1) = m + 1 /\ m + 1 <= Len(s)
          /\ ~(o > 2)
      BY <1>1, <1>3, <2>4
    <3>2. b[o - 1] # LF /\ s[m + o - 1] # LF /\ s[m + o - 1] # CR
      BY <1>2, <2>1, <3>1
    <3>3. ~IsEnd(FALSE, b, o) /\ ~IsEnd(FALSE, s, m + o)
      BY <1>1, <1>3, <3>1, <3>2 DEF IsEnd
    <3> QED
      BY <1>5, <3>3
  <2>5. CASE o > 2
    <3>1. /\ o - 1 \in 1 .. upto - m /\ m + (o - 1) = m + o - 1
          /\ o - 2 \in 1 .. upto - m /\ m + (o - 2) = m + o - 2
          /\ o > 1 /\ m + o > 1 /\ m + o > 2
      BY <1>1, <1>3, <2>5
    <3>2. /\ b[o - 1] = LF <=> s[m + o - 1] = LF
          /\ b[o - 1] = CR <=> s[m + o - 1] = CR
          /\ b[o - 2] = LF <=> s[m + o - 2] = LF
      BY <1>2, <3>1
    <3>3. IsEnd(FALSE, b, o) <=> IsEnd(FALSE, s, m + o)
      BY <1>1, <1>3, <2>2, <2>5, <3>1, <3>2 DEF IsEnd
    <3> QED
      BY <1>5, <3>3
  <2> QED
    BY <1>3, <2>3, <2>4, <2>5
<1> QED
  BY <1>4, <1>5

(* Where a reader is among the payloads.                                     *)
LEMMA Placed ==
  ASSUME NEW s, NEW n, NEW p, NEW q, NEW native \in BOOLEAN, Marks(s, n, p, q, native),
         NEW m, NEW k, NEW upto, NEW b, Reached(s, n, p, q, native, m, k, upto, b)
  PROVE  /\ m \in Nat /\ upto \in Nat /\ m <= upto /\ upto <= Len(s) /\ Len(s) \in Nat /\ n \in Nat /\ k \in 0 .. n
         /\ \A j \in 1 .. n + 1 : p[j] \in Nat /\ q[j] \in Nat /\ p[j] < q[j]
         /\ \A j \in 1 .. n : p[j] + 2 < q[j]
         /\ \A j \in 1 .. n : j <= k => q[j] <= m
         /\ \A j \in 1 .. n : j > k + 1 => q[k + 1] < p[j]
         /\ k < n => m < p[k + 1]
         /\ k + 1 \in 1 .. n + 1 /\ (k + 1 <= n => k + 1 \in 1 .. n)
         /\ k = n => q[k + 1] = Len(s) + 2
         /\ m < q[k + 1]
<1>1. /\ m \in Nat /\ upto \in Nat /\ m <= upto /\ upto <= Len(s) /\ Len(s) \in Nat /\ n \in Nat /\ k \in 0 .. n
      /\ q[k] <= m /\ m < q[k + 1] /\ (m = 0 \/ IsEnd(native, s, m))
  BY DEF Reached, Window, Marks
<1>2. /\ p \in [1 .. n + 1 -> Nat] /\ q \in [0 .. n + 1 -> Nat] /\ q[0] = 0
      /\ p[n + 1] = Len(s) + 1 /\ q[n + 1] = Len(s) + 2
      /\ \A j \in 0 .. n + 1 : \A i \in 1 .. n + 1 : j < i => q[j] < p[i]
      /\ \A j \in 1 .. n : p[j] + 2 < q[j]
      /\ \A o \in 1 .. Len(s) : IsEnd(native, s, o) => \A j \in 1 .. n : ~(p[j] <= o /\ o < q[j])
  BY DEF Marks
<1>3. k + 1 \in 1 .. n + 1 /\ (k + 1 <= n => k + 1 \in 1 .. n) /\ k \in 0 .. n + 1 /\ k + 1 \in 0 .. n + 1
  BY <1>1
<1>4. \A j \in 1 .. n + 1 : p[j] \in Nat /\ q[j] \in Nat
  <2>1. \A j \in 1 .. n + 1 : j \in 0 .. n + 1
    BY <1>1
  <2> QED
    BY <1>2, <2>1
<1>5. \A j \in 1 .. n + 1 : p[j] < q[j]
  <2> TAKE j \in 1 .. n + 1
  <2>1. CASE j = n + 1
    BY <1>1, <1>2, <2>1
  <2>2. CASE j # n + 1
    <3>1. j \in 1 .. n
      BY <1>1, <2>2
    <3> QED
      BY <1>2, <1>4, <3>1
  <2> QED
    BY <2>1, <2>2
<1>6. \A j \in 1 .. n : j <= k => q[j] <= m
  <2> SUFFICES ASSUME NEW j \in 1 .. n, j <= k PROVE q[j] <= m
    OBVIOUS
  <2>1. CASE j = k
    BY <1>1, <2>1
  <2>2. CASE j < k
    <3>1. k \in 1 .. n /\ k \in 1 .. n + 1 /\ j \in 0 .. n + 1 /\ j \in 1 .. n + 1
      BY <1>1, <2>2
    <3>2. q[j] < p[k] /\ p[k] < q[k]
      BY <1>2, <1>5, <2>2, <3>1
    <3> QED
      BY <1>1, <1>4, <3>1, <3>2
  <2> QED
    BY <1>1, <2>1, <2>2
<1>7. \A j \in 1 .. n : j > k + 1 => q[k + 1] < p[j]
  <2> SUFFICES ASSUME NEW j \in 1 .. n, j > k + 1 PROVE q[k + 1] < p[j]
    OBVIOUS
  <2>1. k + 1 < j /\ j \in 1 .. n + 1
    BY <1>1
  <2> QED
    BY <1>2, <1>3, <2>1
<1>8. k < n => m < p[k + 1]
  <2> SUFFICES ASSUME k < n, ~(m < p[k + 1]) PROVE FALSE
    OBVIOUS
  <2>1. k + 1 \in 1 .. n
    BY <1>1
  <2>2. p[k + 1] \in Nat /\ q[k] < p[k + 1] /\ q[k] \in Nat
    <3>1. k < k + 1
      BY <1>1
    <3> QED
      BY <1>2, <1>3, <1>4, <3>1
  <2>3. p[k + 1] <= m /\ m # 0
    BY <1>1, <2>2
  <2>4. m \in 1 .. Len(s)
    BY <1>1, <2>3
  <2> QED
    BY <1>1, <1>2, <2>1, <2>3, <2>4
<1> QED
  BY <1>1, <1>2, <1>3, <1>4, <1>5, <1>6, <1>7, <1>8

(* What is read up to the next end is the next payload or none.              *)
FirstEnd(s, native, m, u) == IsEnd(native, s, m + u) /\ \A o \in 1 .. u - 1 : ~IsEnd(native, s, m + o)

Begins(raw, s, m) == raw \in Seq(Symbols) /\ \A i \in 1 .. Len(raw) : Like(raw[i], s[m + i])

LEMMA NextPayload ==
  ASSUME NEW s, NEW n, NEW p, NEW q, NEW native \in BOOLEAN, Marks(s, n, p, q, native),
         NEW m, NEW k, NEW upto, NEW b, Reached(s, n, p, q, native, m, k, upto, b),
         NEW u \in 1 .. upto - m, FirstEnd(s, native, m, u),
         NEW raw, Begins(raw, s, m), Len(raw) = u \/ Len(raw) = u - 1
  PROVE  \/ /\ k < n /\ m + u = q[k + 1]
            /\ ParseFrame(raw) = <<Halves(raw)>> /\ IsRaw(Halves(raw), k + 1)
         \/ m + u < q[k + 1] /\ ParseFrame(raw) = << >>
<1> USE DEF FirstEnd, Begins
<1> DEFINE v == Len(raw)
<1>1. /\ m \in Nat /\ upto \in Nat /\ m <= upto /\ upto <= Len(s) /\ Len(s) \in Nat /\ n \in Nat /\ k \in 0 .. n
      /\ \A j \in 1 .. n + 1 : p[j] \in Nat /\ q[j] \in Nat /\ p[j] < q[j]
      /\ \A j \in 1 .. n : p[j] + 2 < q[j]
      /\ \A j \in 1 .. n : j <= k => q[j] <= m
      /\ \A j \in 1 .. n : j > k + 1 => q[k + 1] < p[j]
      /\ k < n => m < p[k + 1]
      /\ k + 1 \in 1 .. n + 1 /\ (k + 1 <= n => k + 1 \in 1 .. n)
      /\ k = n => q[k + 1] = Len(s) + 2
      /\ m < q[k + 1]
  BY Placed
<1>2. /\ \A j \in 1 .. n : /\ q[j] <= Len(s) /\ IsEnd(native, s, q[j])
                           /\ s[p[j]] = DATA /\ s[p[j] + 1] = Half(j, 1) /\ s[p[j] + 2] = Half(j, 2)
      /\ \A o \in 1 .. Len(s) : s[o] = DATA => \E j \in 1 .. n : o = p[j]
      /\ \A o \in 1 .. Len(s) : IsHalf(s[o]) => \E j \in 1 .. n : o = p[j] + 1 \/ o = p[j] + 2
      /\ \A o \in 1 .. Len(s) : IsEnd(native, s, o) => \A j \in 1 .. n : ~(p[j] <= o /\ o < q[j])
  BY DEF Marks
<1>3. u \in Nat /\ u >= 1 /\ m + u <= upto /\ v \in Nat /\ (v = u \/ v = u - 1) /\ m + u \in 1 .. Len(s)
  BY <1>1
<1>4. \A i \in 1 .. v : /\ raw[i] = DATA <=> s[m + i] = DATA
                        /\ IsHalf(raw[i]) <=> IsHalf(s[m + i])
                        /\ IsHalf(s[m + i]) => raw[i][2] = s[m + i][2] /\ raw[i][3] = s[m + i][3]
  BY LikeIs
<1>5. \A i \in 1 .. v : i \in Nat /\ i >= 1 /\ i <= u /\ m + i \in 1 .. Len(s) /\ m + i > m
  BY <1>1, <1>3
<1>6. k < n => k + 1 \in 1 .. n
  BY <1>1
(* No byte of another payload is among them.                                 *)
<1>7. ASSUME NEW i \in 1 .. v, m + u <= q[k + 1], NEW j \in 1 .. n, m + i >= p[j], m + i < q[j]
      PROVE  j = k + 1
  <2>1. CASE j <= k
    <3>1. q[j] <= m /\ q[j] \in Nat
      BY <1>1, <2>1
    <3> QED
      BY <1>1, <1>5, <1>7, <3>1
  <2>2. CASE j > k + 1
    <3>1. q[k + 1] < p[j] /\ q[k + 1] \in Nat /\ p[j] \in Nat
      BY <1>1, <2>2, SMTT(30)
    <3>2. m \in Nat /\ u \in Nat /\ i \in Nat /\ i <= u
      BY <1>1, <1>3, <1>5
    <3>3. p[j] <= m + i /\ m + u <= q[k + 1]
      BY <1>7, <3>1, <3>2
    <3> QED
      BY ONLY <3>1, <3>2, <3>3
  <2> QED
    BY <1>1, <2>1, <2>2
<1>8. DATA \in Range(raw) <=> \E i \in 1 .. v : raw[i] = DATA
  <2>1. DOMAIN raw = 1 .. v
    OBVIOUS
  <2> QED
    BY <2>1 DEF Range
<1>9. CASE m + u > q[k + 1]
  <2>1. k < n
    BY <1>1, <1>3, <1>9
  <2>2. q[k + 1] \in Nat /\ IsEnd(native, s, q[k + 1])
    BY <1>1, <1>2, <1>6, <2>1
  <2>3. q[k + 1] - m \in 1 .. u - 1 /\ m + (q[k + 1] - m) = q[k + 1]
    <3> DEFINE z == q[k + 1]
    <3>1. m \in Nat /\ u \in Nat /\ m < z /\ m + u > z /\ z \in Nat
      BY <1>1, <1>3, <1>9, <2>2
    <3> HIDE DEF z
    <3>2. z - m \in 1 .. u - 1 /\ m + (z - m) = z
      BY ONLY <3>1
    <3> QED
      BY ONLY <3>2 DEF z
  <2> QED
    BY <2>2, <2>3
<1>10. CASE m + u < q[k + 1]
  <2>1. \A i \in 1 .. v : raw[i] # DATA
    <3> SUFFICES ASSUME NEW i \in 1 .. v, raw[i] = DATA PROVE FALSE
      OBVIOUS
    <3>1. s[m + i] = DATA
      BY <1>4
    <3>2. PICK j \in 1 .. n : m + i = p[j]
      BY <1>2, <1>5, <3>1
    <3>3. p[j] \in Nat /\ q[j] \in Nat /\ p[j] < q[j]
      <4>1. n \in Nat /\ j \in 1 .. n
        BY <1>1
      <4>2. j \in 1 .. n + 1
        BY ONLY <4>1
      <4> QED
        BY ONLY <1>1, <4>2
    <3>4. j = k + 1
      <4>1. m + u <= q[k + 1]
        BY <1>1, <1>3, <1>10
      <4>2. m + i >= p[j] /\ m + i < q[j]
        BY <3>2, <3>3
      <4> QED
        BY <1>7, <4>1, <4>2
    <3>5. p[j] <= m + u /\ m + u < q[j]
      BY <1>1, <1>3, <1>5, <1>10, <3>2, <3>4
    <3> QED
      BY <1>2, <1>3, <3>5
  <2>2. ParseFrame(raw) = << >>
    BY <1>8, <2>1 DEF ParseFrame
  <2> QED
    BY <1>10, <2>2
<1>11. CASE m + u = q[k + 1]
  <2>1. k < n
    BY <1>1, <1>3, <1>11
  <2>2. k + 1 \in 1 .. n /\ p[k + 1] \in Nat /\ q[k + 1] \in Nat /\ p[k + 1] + 2 < q[k + 1] /\ m < p[k + 1]
    BY <1>1, <1>6, <2>1
  <2> DEFINE a == p[k + 1] - m
  <2>3. /\ a \in Nat /\ a >= 1 /\ a + 2 < u /\ m + a = p[k + 1] /\ m + (a + 1) = p[k + 1] + 1 /\ m + (a + 2) = p[k + 1] + 2
        /\ a \in 1 .. v /\ a + 1 \in 1 .. v /\ a + 2 \in 1 .. v /\ a + 1 + 1 = a + 2 /\ a + 1 \in Nat /\ a + 1 >= 1 /\ a + 1 + 1 <= v
    <3> DEFINE x == p[k + 1]
    <3>1. x \in Nat /\ x + 2 < m + u /\ m < x /\ a = x - m
      BY <1>11, <2>2
    <3> HIDE DEF x, a, v
    <3>2. a \in Nat /\ a >= 1 /\ a + 2 < u /\ m + a = x /\ m + (a + 1) = x + 1 /\ m + (a + 2) = x + 2
      BY <1>1, <1>3, <3>1
    <3>3. a \in 1 .. v /\ a + 1 \in 1 .. v /\ a + 2 \in 1 .. v /\ a + 1 + 1 = a + 2 /\ a + 1 \in Nat /\ a + 1 >= 1 /\ a + 1 + 1 <= v
      BY <1>3, <3>2
    <3> QED
      BY <3>2, <3>3 DEF x
  <2>4. s[m + a] = DATA /\ s[m + (a + 1)] = Half(k + 1, 1) /\ s[m + (a + 2)] = Half(k + 1, 2)
    <3>1. s[p[k + 1]] = DATA /\ s[p[k + 1] + 1] = Half(k + 1, 1) /\ s[p[k + 1] + 2] = Half(k + 1, 2)
      BY <1>2, <2>2
    <3> QED
      BY <2>3, <3>1
  <2> HIDE DEF a, v
  <2>5. raw[a] = DATA
    BY <1>4, <2>3, <2>4
  <2>6. /\ IsHalf(raw[a + 1]) /\ raw[a + 1][2] = k + 1 /\ raw[a + 1][3] = 1
        /\ IsHalf(raw[a + 2]) /\ raw[a + 2][2] = k + 1 /\ raw[a + 2][3] = 2
    BY <1>4, <2>3, <2>4, SymbolsDiffer
  <2>7. \A i \in 1 .. v : IsHalf(raw[i]) <=> (i = a + 1 \/ i = a + 1 + 1)
    <3> TAKE i \in 1 .. v
    <3>1. ASSUME IsHalf(raw[i])
          PROVE  i = a + 1 \/ i = a + 1 + 1
      <4>1. IsHalf(s[m + i])
        BY <1>4, <3>1
      <4>2. PICK j \in 1 .. n : m + i = p[j] + 1 \/ m + i = p[j] + 2
        BY <1>2, <1>5, <4>1
      <4>3. p[j] \in Nat /\ q[j] \in Nat /\ p[j] + 2 < q[j]
        BY <1>1
      <4>4. j = k + 1
        <5>1. m + u <= q[k + 1]
          BY <1>11, <2>2
        <5> DEFINE z == m + i
                   start == p[j]
                   end == q[j]
        <5>2. z >= start /\ z < end
          <6>1. start \in Nat /\ end \in Nat /\ start + 2 < end /\ (z = start + 1 \/ z = start + 2)
            BY <4>2, <4>3
          <6> HIDE DEF z, start, end
          <6> QED
            BY ONLY <6>1
        <5> QED
          BY <1>7, <5>1, <5>2
      <4>5. m + i = m + (a + 1) \/ m + i = m + (a + 2)
        BY <2>3, <4>2, <4>4
      <4> QED
        BY <1>1, <1>5, <2>3, <4>5
    <3>2. i = a + 1 \/ i = a + 1 + 1 => IsHalf(raw[i])
      BY <2>3, <2>6
    <3> QED
      BY <3>1, <3>2
  <2>8. /\ Halves(raw) \in Seq(Symbols) /\ Len(Halves(raw)) = 2
        /\ Halves(raw)[1] = raw[a + 1] /\ Halves(raw)[2] = raw[a + 1 + 1]
    <3> DEFINE c == a + 1
    <3>1. c \in Nat /\ c >= 1 /\ c + 1 <= Len(raw) /\ \A i \in 1 .. Len(raw) : IsHalf(raw[i]) <=> (i = c \/ i = c + 1)
      BY <2>3, <2>7 DEF v
    <3> HIDE DEF c
    <3>2. /\ Halves(raw) \in Seq(Symbols) /\ Len(Halves(raw)) = 2
          /\ Halves(raw)[1] = raw[c] /\ Halves(raw)[2] = raw[c + 1]
      BY <3>1, HalvesAre
    <3> QED
      BY <3>2 DEF c
  <2>9. IsRaw(Halves(raw), k + 1)
    BY <2>3, <2>6, <2>8 DEF IsRaw
  <2>10. ParseFrame(raw) = <<Halves(raw)>>
    BY <1>8, <2>3, <2>5 DEF ParseFrame
  <2> QED
    BY <1>11, <2>1, <2>9, <2>10
<1>12. q[k + 1] \in Nat
  BY <1>1
<1>13. m + u < q[k + 1] \/ m + u = q[k + 1] \/ m + u > q[k + 1]
  <2> DEFINE x == q[k + 1]
             y == m + u
  <2>1. x \in Nat /\ y \in Nat
    BY <1>1, <1>3, <1>12
  <2> HIDE DEF x, y
  <2>2. y < x \/ y = x \/ y > x
    BY <2>1
  <2> QED
    BY <2>2 DEF x, y
<1> QED
  BY <1>9, <1>10, <1>11, <1>13

LEMMA PartsAre ==
  ASSUME NEW b \in Seq(Symbols), NEW u \in 1 .. Len(b), NEW v \in 0 .. Len(b)
  PROVE  /\ SubSeq(b, u + 1, Len(b)) \in Seq(Symbols) /\ Len(SubSeq(b, u + 1, Len(b))) = Len(b) - u
         /\ \A i \in 1 .. Len(b) - u : SubSeq(b, u + 1, Len(b))[i] = b[u + i]
         /\ SubSeq(b, 1, v) \in Seq(Symbols) /\ Len(SubSeq(b, 1, v)) = v
         /\ \A i \in 1 .. v : SubSeq(b, 1, v)[i] = b[i]
<1> DEFINE n == Len(b)
<1>0. n \in Nat /\ u \in Nat /\ u >= 1 /\ u <= n /\ v \in Nat /\ v <= n
  OBVIOUS
<1>1. /\ SubSeq(b, 1, v) \in Seq(Symbols)
      /\ Len(SubSeq(b, 1, v)) = IF 1 <= v THEN v - 1 + 1 ELSE 0
      /\ \A i \in 1 .. v - 1 + 1 : SubSeq(b, 1, v)[i] = b[1 + i - 1]
  <2>1. 1 \in 1 .. Len(b) + 1 /\ v \in 1 - 1 .. Len(b)
    BY <1>0
  <2> QED
    BY <2>1, SubSeqProperties
<1>2. /\ SubSeq(b, u + 1, n) \in Seq(Symbols)
      /\ Len(SubSeq(b, u + 1, n)) = IF u + 1 <= n THEN n - (u + 1) + 1 ELSE 0
      /\ \A i \in 1 .. n - (u + 1) + 1 : SubSeq(b, u + 1, n)[i] = b[u + 1 + i - 1]
  <2>1. u + 1 \in 1 .. Len(b) + 1 /\ n \in u + 1 - 1 .. Len(b)
    BY <1>0
  <2> QED
    BY <2>1, SubSeqProperties
<1> HIDE DEF n
<1>3. Len(SubSeq(b, 1, v)) = v
  BY <1>0, <1>1
<1>4. \A i \in 1 .. v : SubSeq(b, 1, v)[i] = b[i]
  <2>1. v - 1 + 1 = v /\ \A i \in 1 .. v : 1 + i - 1 = i
    BY <1>0
  <2> QED
    BY <1>1, <2>1
<1>5. Len(SubSeq(b, u + 1, n)) = n - u
  BY <1>0, <1>2
<1>6. \A i \in 1 .. n - u : SubSeq(b, u + 1, n)[i] = b[u + i]
  <2>1. n - (u + 1) + 1 = n - u /\ \A i \in 1 .. n - u : u + 1 + i - 1 = u + i
    BY <1>0
  <2> QED
    BY <1>2, <2>1
<1> QED
  BY <1>1, <1>2, <1>3, <1>4, <1>5, <1>6 DEF n

(* One turn of a reader's loop.                                              *)
Turn(native, state) == IF native THEN TakeLine(state) ELSE TakeFrame(state)

LEMMA TurnTakes ==
  ASSUME NEW native \in BOOLEAN, NEW b \in Seq(Symbols), NEW state, state.buf = b
  PROVE  \/ Turn(native, state) = state /\ \A o \in 1 .. Len(b) : ~IsEnd(native, b, o)
         \/ \E u \in 1 .. Len(b) : \E v \in {u, u - 1} :
              /\ v >= 0 /\ IsEnd(native, b, u) /\ \A o \in 1 .. u - 1 : ~IsEnd(native, b, o)
              /\ Turn(native, state) = [frames |-> state.frames \o ParseFrame(SubSeq(b, 1, v)),
                                        buf    |-> SubSeq(b, u + 1, Len(b))]
<1>1. /\ LineEnd(b) = 0 => \A o \in 1 .. Len(b) : ~IsEnd(TRUE, b, o)
      /\ LineEnd(b) # 0 =>
           /\ LineEnd(b) \in 1 .. Len(b) /\ IsEnd(TRUE, b, LineEnd(b))
           /\ \A o \in 1 .. Len(b) : IsEnd(TRUE, b, o) => LineEnd(b) <= o
      /\ FrameEnd(b) = 0 => \A o \in 1 .. Len(b) : ~IsEnd(FALSE, b, o)
      /\ FrameEnd(b) # 0 =>
           /\ FrameEnd(b) \in Nat /\ FrameEnd(b) + 1 \in 1 .. Len(b) /\ IsEnd(FALSE, b, FrameEnd(b) + 1)
           /\ \A o \in 1 .. Len(b) : IsEnd(FALSE, b, o) => FrameEnd(b) + 1 <= o
  BY EndsAre
<1>0. Len(b) \in Nat
  OBVIOUS
<1>2. CASE native = TRUE
  <2> DEFINE u == LineEnd(b)
  <2>1. Turn(native, state) = IF u = 0 THEN state
                              ELSE [frames |-> state.frames \o ParseFrame(SubSeq(b, 1, u)),
                                    buf    |-> SubSeq(b, u + 1, Len(b))]
    BY <1>2 DEF Turn, TakeLine, ParseLine
  <2> HIDE DEF u
  <2>2. CASE u = 0
    BY <1>1, <1>2, <2>1, <2>2 DEF u
  <2>3. CASE u # 0
    <3>1. u \in 1 .. Len(b) /\ u >= 0 /\ IsEnd(TRUE, b, u) /\ \A o \in 1 .. Len(b) : IsEnd(TRUE, b, o) => u <= o
      <4>1. u \in 1 .. Len(b) /\ IsEnd(TRUE, b, u) /\ \A o \in 1 .. Len(b) : IsEnd(TRUE, b, o) => u <= o
        BY <1>1, <2>3 DEF u
      <4>2. u >= 0
        BY <1>0, <4>1
      <4> QED
        BY <4>1, <4>2
    <3>2. \A o \in 1 .. u - 1 : o \in 1 .. Len(b) /\ ~(u <= o)
      BY <1>0, <3>1
    <3>3. \A o \in 1 .. u - 1 : ~IsEnd(native, b, o)
      BY <1>2, <3>1, <3>2
    <3> QED
      BY <1>2, <2>1, <2>3, <3>1, <3>3
  <2> QED
    BY <2>2, <2>3
<1>3. CASE native = FALSE
  <2> DEFINE v == FrameEnd(b)
  <2>1. Turn(native, state) = IF v = 0 THEN state
                              ELSE [frames |-> state.frames \o ParseFrame(SubSeq(b, 1, v)),
                                    buf    |-> SubSeq(b, v + 2, Len(b))]
    BY <1>3 DEF Turn, TakeFrame
  <2> HIDE DEF v
  <2>2. CASE v = 0
    BY <1>1, <1>3, <2>1, <2>2 DEF v
  <2>3. CASE v # 0
    <3> DEFINE u == v + 1
    <3>1. v \in Nat /\ u \in 1 .. Len(b) /\ IsEnd(FALSE, b, u) /\ \A o \in 1 .. Len(b) : IsEnd(FALSE, b, o) => u <= o
      BY <1>1, <2>3 DEF v
    <3>4. v >= 0 /\ v = u - 1 /\ v + 2 = u + 1
      BY <3>1
    <3> HIDE DEF u
    <3>2. \A o \in 1 .. u - 1 : o \in 1 .. Len(b) /\ ~(u <= o)
      BY <1>0, <3>1
    <3>3. \A o \in 1 .. u - 1 : ~IsEnd(native, b, o)
      BY <1>3, <3>1, <3>2
    <3>5. Turn(native, state) = [frames |-> state.frames \o ParseFrame(SubSeq(b, 1, v)),
                                 buf    |-> SubSeq(b, u + 1, Len(b))]
      BY <2>1, <2>3, <3>4
    <3>6. IsEnd(native, b, u)
      BY <1>3, <3>1
    <3>7. v \in {u, u - 1}
      BY <3>4
    <3> QED
      BY <3>1, <3>3, <3>4, <3>5, <3>6, <3>7
  <2> QED
    BY <2>2, <2>3
<1> QED
  BY <1>2, <1>3

(* Payloads k0 + 1 to k, in order.                                           *)
Numbered(frames, k0, k) ==
  /\ frames \in Seq(Seq(Symbols)) /\ Len(frames) = k - k0
  /\ \A i \in 1 .. k - k0 : IsRaw(frames[i], k0 + i)

LEMMA NumberedNext ==
  ASSUME NEW frames, NEW k0 \in Nat, NEW k \in Nat, k0 <= k, Numbered(frames, k0, k)
  PROVE  /\ Numbered(frames \o << >>, k0, k)
         /\ \A h : IsRaw(h, k + 1) => Numbered(frames \o <<h>>, k0, k + 1)
<1>1. frames \in Seq(Seq(Symbols)) /\ Len(frames) = k - k0 /\ \A i \in 1 .. k - k0 : IsRaw(frames[i], k0 + i)
  BY DEF Numbered
<1>2. frames \o << >> = frames
  BY <1>1, ConcatEmptySeq
<1>3. ASSUME NEW h, IsRaw(h, k + 1)
      PROVE  Numbered(frames \o <<h>>, k0, k + 1)
  <2> DEFINE new == frames \o <<h>>
             n == Len(frames)
  <2>1. h \in Seq(Symbols)
    BY <1>3 DEF IsRaw
  <2>2. <<h>> \in Seq(Seq(Symbols)) /\ Len(<<h>>) = 1 /\ <<h>>[1] = h
    BY <2>1
  <2>3. /\ new \in Seq(Seq(Symbols)) /\ Len(new) = n + 1
        /\ \A i \in 1 .. n + 1 : new[i] = IF i <= n THEN frames[i] ELSE <<h>>[i - n]
    BY <1>1, <2>2, ConcatProperties
  <2> HIDE DEF new
  <2>4. n = k - k0 /\ n \in Nat /\ k + 1 - k0 = n + 1 /\ k0 + (n + 1) = k + 1
    BY <1>1
  <2> HIDE DEF n
  <2>5. \A i \in 1 .. n + 1 : IsRaw(new[i], k0 + i)
    <3> TAKE i \in 1 .. n + 1
    <3>1. CASE i <= n
      <4>1. i \in 1 .. n /\ i \in 1 .. k - k0
        BY <2>4, <3>1
      <4> QED
        BY <1>1, <2>3, <3>1, <4>1
    <3>2. CASE i = n + 1
      <4>1. ~(i <= n) /\ i - n = 1
        BY <2>4, <3>2
      <4>2. new[i] = h
        BY <2>2, <2>3, <4>1
      <4> QED
        BY <1>3, <2>4, <3>2, <4>2
    <3> QED
      BY <2>4, <3>1, <3>2
  <2>6. Numbered(new, k0, k + 1)
    BY <2>3, <2>4, <2>5 DEF Numbered
  <2> QED
    BY <2>6 DEF new
<1> QED
  BY <1>2, <1>3

(* Where a reader's loop is.                                                 *)
At(s, n, p, q, native, upto, k0, m, k, state) ==
  /\ Reached(s, n, p, q, native, m, k, upto, state.buf)
  /\ k0 <= k /\ Numbered(state.frames, k0, k)

NoEnd(s, native, m, upto) == \A o \in 1 .. upto - m : ~IsEnd(native, s, m + o)

LEMMA TurnIs ==
  ASSUME NEW s, NEW n, NEW p, NEW q, NEW native \in BOOLEAN, Marks(s, n, p, q, native),
         NEW m, NEW k, NEW upto, NEW k0 \in Nat, NEW state, At(s, n, p, q, native, upto, k0, m, k, state)
  PROVE  \/ Turn(native, state) = state /\ NoEnd(s, native, m, upto)
         \/ \E m2 \in m + 1 .. upto : \E k2 \in 0 .. n : At(s, n, p, q, native, upto, k0, m2, k2, Turn(native, state))
<1> DEFINE b == state.buf
           w == Turn(native, state)
           next == m + 1 .. upto
<1>1. Reached(s, n, p, q, native, m, k, upto, b) /\ k0 <= k /\ Numbered(state.frames, k0, k)
  BY DEF At
<1>2. /\ m \in Nat /\ upto \in Nat /\ m <= upto /\ upto <= Len(s) /\ Len(s) \in Nat /\ n \in Nat /\ k \in 0 .. n
      /\ \A j \in 1 .. n + 1 : p[j] \in Nat /\ q[j] \in Nat /\ p[j] < q[j]
      /\ k + 1 \in 1 .. n + 1
      /\ \A j \in 1 .. n : j <= k => q[j] <= m
      /\ m < q[k + 1]
  <2> HIDE DEF b
  <2> QED
    BY <1>1, Placed
<1>3. /\ b \in Seq(Symbols) /\ Len(b) = upto - m /\ \A i \in 1 .. upto - m : Like(b[i], s[m + i])
  BY <1>1 DEF Reached, Window
<1>4. \A o \in 1 .. upto - m : IsEnd(native, b, o) <=> IsEnd(native, s, m + o)
  <2> HIDE DEF b
  <2> QED
    BY <1>1, EndsInWindow
<1>5. \/ w = state /\ \A o \in 1 .. Len(b) : ~IsEnd(native, b, o)
      \/ \E u \in 1 .. Len(b) : \E v \in {u, u - 1} :
              /\ v >= 0 /\ IsEnd(native, b, u) /\ \A o \in 1 .. u - 1 : ~IsEnd(native, b, o)
              /\ w = [frames |-> state.frames \o ParseFrame(SubSeq(b, 1, v)), buf |-> SubSeq(b, u + 1, Len(b))]
  BY <1>3, TurnTakes
<1> HIDE DEF b, w
<1>6. CASE w = state /\ \A o \in 1 .. Len(b) : ~IsEnd(native, b, o)
  BY <1>3, <1>4, <1>6 DEF NoEnd, w
<1>7. ASSUME NEW u \in 1 .. Len(b), NEW v \in {u, u - 1},
             v >= 0, IsEnd(native, b, u), \A o \in 1 .. u - 1 : ~IsEnd(native, b, o),
             w = [frames |-> state.frames \o ParseFrame(SubSeq(b, 1, v)), buf |-> SubSeq(b, u + 1, Len(b))]
      PROVE  \E m2 \in next : \E k2 \in 0 .. n : At(s, n, p, q, native, upto, k0, m2, k2, w)
  <2> DEFINE raw == SubSeq(b, 1, v)
             rest == SubSeq(b, u + 1, Len(b))
  <2>1. v \in 0 .. Len(b) /\ u \in Nat /\ u >= 1 /\ u \in 1 .. upto - m
    BY <1>2, <1>3, <1>7
  <2>2. /\ rest \in Seq(Symbols) /\ Len(rest) = Len(b) - u
        /\ \A i \in 1 .. Len(b) - u : rest[i] = b[u + i]
        /\ raw \in Seq(Symbols) /\ Len(raw) = v
        /\ \A i \in 1 .. v : raw[i] = b[i]
    BY <1>3, <2>1, PartsAre
  <2>3. w.frames = state.frames \o ParseFrame(raw) /\ w.buf = rest
    BY <1>7
  <2> HIDE DEF raw, rest
  <2>4. Len(raw) = u \/ Len(raw) = u - 1
    BY <2>2
  <2>5. \A i \in 1 .. Len(raw) : Like(raw[i], s[m + i])
    <3>1. \A i \in 1 .. v : i \in 1 .. upto - m
      BY <1>2, <1>3, <2>1
    <3> QED
      BY <1>3, <2>2, <3>1
  <2>6. IsEnd(native, s, m + u)
    BY <1>4, <1>7, <2>1
  <2>7. \A o \in 1 .. u - 1 : ~IsEnd(native, s, m + o)
    <3>1. \A o \in 1 .. u - 1 : o \in 1 .. upto - m
      BY <1>2, <2>1
    <3> QED
      BY <1>4, <1>7, <3>1
  <2>8. \/ /\ k < n /\ m + u = q[k + 1]
           /\ ParseFrame(raw) = <<Halves(raw)>> /\ IsRaw(Halves(raw), k + 1)
        \/ m + u < q[k + 1] /\ ParseFrame(raw) = << >>
    <3>1. FirstEnd(s, native, m, u) /\ Begins(raw, s, m)
      BY <2>2, <2>5, <2>6, <2>7 DEF FirstEnd, Begins
    <3> QED
      BY <1>1, <2>1, <2>4, <3>1, NextPayload
  <2> DEFINE m2 == m + u
  <2>9. m2 \in next /\ m2 \in Nat /\ m2 <= upto /\ upto - m2 = Len(rest)
    BY <1>2, <1>3, <2>1, <2>2
  <2>10. Window(rest, s, m2, upto)
    <3>1. \A i \in 1 .. upto - m2 : i \in 1 .. Len(b) - u /\ u + i \in 1 .. upto - m /\ m + (u + i) = m2 + i
      BY <1>2, <1>3, <2>1
    <3>2. \A i \in 1 .. upto - m2 : Like(rest[i], s[m2 + i])
      BY <1>3, <2>2, <3>1
    <3> HIDE DEF m2
    <3> QED
      BY <1>2, <2>2, <2>9, <3>2 DEF Window
  <2>11. q[k] <= m /\ k \in Nat
    BY <1>1, <1>2 DEF Reached
  <2>12. /\ Numbered(state.frames \o << >>, k0, k)
         /\ \A h : IsRaw(h, k + 1) => Numbered(state.frames \o <<h>>, k0, k + 1)
    BY <1>1, <2>11, NumberedNext
  <2>13. CASE m2 < q[k + 1] /\ ParseFrame(raw) = << >>
    <3>1. q[k] <= m2
      <4>1. q[k] \in Nat
        <5>1. q \in [0 .. n + 1 -> Nat]
          BY DEF Marks
        <5>2. k \in 0 .. n + 1
          BY <1>2
        <5> QED
          BY ONLY <5>1, <5>2
      <4> QED
        BY <1>2, <2>1, <2>11, <4>1
    <3>2. Reached(s, n, p, q, native, m2, k, upto, rest)
      BY <1>2, <2>6, <2>10, <2>13, <3>1 DEF Reached
    <3>3. At(s, n, p, q, native, upto, k0, m2, k, w)
      BY <1>1, <2>3, <2>12, <2>13, <3>2 DEF At
    <3> HIDE DEF next, m2
    <3> QED
      BY <1>2, <2>9, <3>3
  <2>14. CASE k < n /\ m2 = q[k + 1] /\ ParseFrame(raw) = <<Halves(raw)>> /\ IsRaw(Halves(raw), k + 1)
    <3>1. k + 1 \in 0 .. n /\ k + 1 \in Nat /\ k + 2 \in 1 .. n + 1 /\ k + 1 < k + 2 /\ k + 1 \in 0 .. n + 1 /\ k + 1 + 1 = k + 2
      BY <1>2, <2>14
    <3>2. q[k + 1] < p[k + 2]
      BY <3>1 DEF Marks
    <3>3. q[k + 1] \in Nat /\ p[k + 2] \in Nat /\ q[k + 2] \in Nat /\ p[k + 2] < q[k + 2]
      BY <1>2, <3>1
    <3>4. m2 < q[k + 1 + 1] /\ q[k + 1] <= m2
      BY <2>14, <3>1, <3>2, <3>3
    <3>5. Reached(s, n, p, q, native, m2, k + 1, upto, rest)
      BY <2>6, <2>10, <3>1, <3>4 DEF Reached
    <3>6. Numbered(w.frames, k0, k + 1)
      BY <2>3, <2>12, <2>14
    <3>7. k0 <= k + 1
      BY <1>1, <2>11
    <3>8. At(s, n, p, q, native, upto, k0, m2, k + 1, w)
      BY <2>3, <3>5, <3>6, <3>7 DEF At
    <3> HIDE DEF next, m2
    <3> QED
      BY <2>9, <3>1, <3>8
  <2> QED
    BY <2>8, <2>13, <2>14
<1> QED
  BY <1>5, <1>6, <1>7 DEF w

-----------------------------------------------------------------------------
(* The loop of a reader.                                                   *)

(* A reader's loop as a function of its turns.                               *)
IsLoop(f, native, start, n) == f = [j \in 0 .. n |-> IF j = 0 THEN start ELSE Turn(native, f[j - 1])]

LEMMA Looping ==
  ASSUME NEW native, NEW start, NEW n \in Nat
  PROVE  \E f : IsLoop(f, native, start, n)
<1> USE DEF IsLoop
<1> DEFINE Loops(f, j) == f = [i \in 0 .. j |-> IF i = 0 THEN start ELSE Turn(native, f[i - 1])]
           D == {j \in Nat : \E f : Loops(f, j)}
<1>1. 0 \in D
  <2> DEFINE f == [i \in 0 .. 0 |-> start]
  <2>1. Loops(f, 0)
    OBVIOUS
  <2> QED
    BY <2>1
<1>2. ASSUME NEW j \in Nat, j \in D
      PROVE  j + 1 \in D
  <2>1. PICK f : Loops(f, j)
    BY <1>2
  <2> DEFINE g == [i \in 0 .. j + 1 |-> IF i = j + 1 THEN Turn(native, f[j]) ELSE f[i]]
  <2>2. \A i \in 0 .. j + 1 : g[i] = IF i = 0 THEN start ELSE Turn(native, g[i - 1])
    <3> TAKE i \in 0 .. j + 1
    <3>1. CASE i = 0
      <4>1. 0 \in 0 .. j /\ i # j + 1
        BY <3>1
      <4> QED
        BY <2>1, <3>1, <4>1
    <3>2. CASE i = j + 1
      <4>1. i - 1 = j /\ j \in 0 .. j + 1 /\ j # j + 1 /\ i # 0
        BY <3>2
      <4>2. g[i] = Turn(native, f[j]) /\ g[i - 1] = f[j]
        BY <3>2, <4>1
      <4> QED
        BY <4>1, <4>2
    <3>3. CASE i # 0 /\ i # j + 1
      <4>1. i \in 0 .. j /\ i - 1 \in 0 .. j /\ i - 1 \in 0 .. j + 1 /\ i - 1 # j + 1
        BY <3>3
      <4>2. g[i] = f[i] /\ g[i - 1] = f[i - 1]
        BY <3>3, <4>1
      <4>3. f[i] = IF i = 0 THEN start ELSE Turn(native, f[i - 1])
        BY <2>1, <4>1
      <4> QED
        BY <4>2, <4>3
    <3> QED
      BY <3>1, <3>2, <3>3
  <2>3. g = [i \in 0 .. j + 1 |-> g[i]]
    OBVIOUS
  <2> HIDE DEF g
  <2>4. Loops(g, j + 1)
    BY <2>2, <2>3
  <2> QED
    BY <2>4
<1> HIDE DEF D
<1>3. n \in D
  BY <1>1, <1>2, Induction
<1> QED
  BY <1>3 DEF D

(* The ends of lines a buffer holds, and those past a place.                 *)
LineEnds(b) == {i \in DOMAIN b : b[i] = LF}
Left(b, m, x) == {i \in LineEnds(b) : m + i > x}

LEMMA LeftIs ==
  ASSUME NEW b, NEW s, NEW m, NEW upto, Window(b, s, m, upto)
  PROVE  /\ Cardinality(LineEnds(b)) \in Nat /\ Left(b, m, m) = LineEnds(b)
         /\ \A x \in m .. upto : IsFiniteSet(Left(b, m, x)) /\ Cardinality(Left(b, m, x)) \in Nat
<1>1. m \in Nat /\ upto \in Nat /\ DOMAIN b = 1 .. Len(b) /\ Len(b) \in Nat
  BY DEF Window
<1>2. IsFiniteSet(1 .. Len(b)) /\ LineEnds(b) \in SUBSET (1 .. Len(b))
  BY <1>1, FS_Interval DEF LineEnds
<1>3. IsFiniteSet(LineEnds(b))
  BY <1>2, FS_Subset
<1>4. \A x : IsFiniteSet(Left(b, m, x))
  <2> TAKE x
  <2>1. Left(b, m, x) \in SUBSET LineEnds(b)
    BY DEF Left
  <2> QED
    BY <1>3, <2>1, FS_Subset
<1>5. Left(b, m, m) = LineEnds(b)
  <2>1. \A i \in LineEnds(b) : i \in Nat /\ m + i > m
    BY <1>1, <1>2
  <2> QED
    BY <2>1 DEF Left
<1> QED
  BY <1>3, <1>4, <1>5, FS_CardinalityType

LEMMA LeftShrinks ==
  ASSUME NEW b, NEW s, NEW m, NEW upto, Window(b, s, m, upto),
         NEW x \in m .. upto, NEW y \in x + 1 .. upto, s[y] = LF
  PROVE  Cardinality(Left(b, m, y)) + 1 <= Cardinality(Left(b, m, x))
<1>1. m \in Nat /\ upto \in Nat /\ x \in Nat /\ y \in Nat /\ x >= m /\ y > x /\ y <= upto
      /\ DOMAIN b = 1 .. upto - m /\ Len(b) = upto - m
  BY DEF Window
<1> DEFINE i == y - m
<1>2. i \in 1 .. upto - m /\ m + i = y
  BY <1>1
<1> HIDE DEF i
<1>3. b[i] = LF
  <2>1. Like(b[i], s[m + i])
    BY <1>2 DEF Window
  <2> QED
    BY <1>2, <2>1, LikeIs
<1>4. i \in Left(b, m, x) /\ i \notin Left(b, m, y)
  BY <1>1, <1>2, <1>3 DEF Left, LineEnds
<1>5. Left(b, m, y) \in SUBSET (Left(b, m, x) \ {i})
  <2> SUFFICES ASSUME NEW j \in Left(b, m, y) PROVE j \in Left(b, m, x) /\ j # i
    OBVIOUS
  <2>1. j \in LineEnds(b) /\ j \in Nat /\ m + j > y
    BY <1>1 DEF Left, LineEnds
  <2>2. m + j > x
    BY <1>1, <2>1
  <2> QED
    BY <1>4, <2>1, <2>2 DEF Left
<1>6. x \in m .. upto /\ y \in m .. upto
  BY <1>1
<1>7. /\ IsFiniteSet(Left(b, m, x)) /\ Cardinality(Left(b, m, x)) \in Nat
      /\ Cardinality(Left(b, m, y)) \in Nat
  BY <1>6, LeftIs
<1>8. IsFiniteSet(Left(b, m, x) \ {i}) /\ Cardinality(Left(b, m, x) \ {i}) = Cardinality(Left(b, m, x)) - 1
  BY <1>4, <1>7, FS_RemoveElement
<1>9. Cardinality(Left(b, m, y)) <= Cardinality(Left(b, m, x) \ {i})
  BY <1>5, <1>8, FS_Subset
<1> QED
  BY <1>7, <1>8, <1>9

LEMMA NoneLeft ==
  ASSUME NEW b, NEW s, NEW m, NEW upto, Window(b, s, m, upto), NEW native,
         NEW x \in m .. upto, Cardinality(Left(b, m, x)) = 0
  PROVE  NoEnd(s, native, x, upto)
<1>1. m \in Nat /\ upto \in Nat /\ x \in Nat /\ x >= m /\ x <= upto
      /\ DOMAIN b = 1 .. upto - m /\ Len(b) = upto - m
  BY DEF Window
<1>2. Left(b, m, x) = {}
  BY LeftIs, FS_EmptySet
<1> SUFFICES ASSUME NEW o \in 1 .. upto - x, s[x + o] = LF PROVE FALSE
  BY DEF NoEnd, IsEnd
<1> DEFINE i == x - m + o
<1>3. i \in 1 .. upto - m /\ m + i = x + o /\ m + i > x
  BY <1>1
<1> HIDE DEF i
<1>4. Like(b[i], s[m + i])
  BY <1>3 DEF Window
<1>5. b[i] = LF
  BY <1>3, <1>4, LikeIs
<1>6. i \in Left(b, m, x)
  BY <1>1, <1>3, <1>5 DEF Left, LineEnds
<1> QED
  BY <1>2, <1>6

(* A loop has read all that came, up to the last end, and each payload once. *)
LEMMA LoopIs ==
  ASSUME NEW s, NEW n, NEW p, NEW q, NEW native \in BOOLEAN, Marks(s, n, p, q, native),
         NEW m, NEW k, NEW upto, NEW b, Reached(s, n, p, q, native, m, k, upto, b),
         NEW turns, turns = Cardinality(LineEnds(b)),
         NEW f, IsLoop(f, native, [frames |-> << >>, buf |-> b], turns)
  PROVE  \E m2 \in m .. upto : \E k2 \in 0 .. n :
           At(s, n, p, q, native, upto, k, m2, k2, f[turns]) /\ NoEnd(s, native, m2, upto)
<1> DEFINE start == [frames |-> << >>, buf |-> b]
           Here(j) == \E m2 \in m .. upto : \E k2 \in 0 .. n :
                        /\ At(s, n, p, q, native, upto, k, m2, k2, f[j])
                        /\ NoEnd(s, native, m2, upto) \/ Cardinality(Left(b, m, m2)) <= turns - j
           D == {j \in Nat : j <= turns => Here(j)}
<1>1. m \in Nat /\ upto \in Nat /\ m <= upto /\ k \in 0 .. n /\ k \in Nat /\ n \in Nat
  BY Placed
<1>2. /\ Window(b, s, m, upto) /\ turns \in Nat /\ Cardinality(Left(b, m, m)) = turns
      /\ \A x \in m .. upto : Cardinality(Left(b, m, x)) \in Nat
  <2>1. Window(b, s, m, upto)
    BY DEF Reached
  <2> QED
    BY <2>1, LeftIs
<1>3. f[0] = start /\ \A j \in 1 .. turns : f[j] = Turn(native, f[j - 1])
  <2> USE DEF IsLoop
  <2>1. 0 \in 0 .. turns /\ \A j \in 1 .. turns : j \in 0 .. turns /\ j # 0
    BY <1>2
  <2> QED
    BY <2>1
<1>4. 0 \in D
  <2>1. Numbered(<< >>, k, k)
    <3>1. << >> \in Seq(Seq(Symbols)) /\ Len(<< >>) = 0 /\ k - k = 0 /\ 1 .. 0 = {}
      BY <1>1
    <3> QED
      BY <3>1 DEF Numbered
  <2>2. At(s, n, p, q, native, upto, k, m, k, start)
    BY <1>1, <2>1 DEF At
  <2>3. m \in m .. upto /\ Cardinality(Left(b, m, m)) <= turns - 0
    BY <1>1, <1>2
  <2> HIDE DEF start
  <2>4. Here(0)
    BY <1>1, <1>3, <2>2, <2>3
  <2> HIDE DEF Here
  <2> QED
    BY <2>4
<1>5. ASSUME NEW j \in Nat, j \in D
      PROVE  j + 1 \in D
  <2> SUFFICES ASSUME j + 1 <= turns PROVE Here(j + 1)
    OBVIOUS
  <2>1. PICK m2 \in m .. upto, k2 \in 0 .. n :
          /\ At(s, n, p, q, native, upto, k, m2, k2, f[j])
          /\ NoEnd(s, native, m2, upto) \/ Cardinality(Left(b, m, m2)) <= turns - j
    BY <1>2, <1>5
  <2>2. j + 1 \in 1 .. turns /\ j + 1 - 1 = j
    BY <1>2
  <2>3. f[j + 1] = Turn(native, f[j])
    BY <1>3, <2>2
  <2>4. \/ Turn(native, f[j]) = f[j] /\ NoEnd(s, native, m2, upto)
        \/ \E m3 \in m2 + 1 .. upto : \E k3 \in 0 .. n : At(s, n, p, q, native, upto, k, m3, k3, Turn(native, f[j]))
    BY <1>1, <2>1, TurnIs
  <2>5. CASE Turn(native, f[j]) = f[j] /\ NoEnd(s, native, m2, upto)
    BY <2>1, <2>3, <2>5
  <2>6. ASSUME NEW m3 \in m2 + 1 .. upto, NEW k3 \in 0 .. n, At(s, n, p, q, native, upto, k, m3, k3, f[j + 1])
        PROVE  Here(j + 1)
    <3>1. m3 \in m .. upto
      BY <1>1
    <3>2. CASE NoEnd(s, native, m2, upto)
      <4>1. NoEnd(s, native, m3, upto)
        <5> SUFFICES ASSUME NEW o \in 1 .. upto - m3 PROVE ~IsEnd(native, s, m3 + o)
          BY DEF NoEnd
        <5> DEFINE x == m3 - m2 + o
        <5>1. x \in 1 .. upto - m2 /\ m2 + x = m3 + o
          BY <1>1
        <5> HIDE DEF x
        <5>2. ~IsEnd(native, s, m2 + x)
          BY <3>2, <5>1 DEF NoEnd
        <5> QED
          BY <5>1, <5>2
      <4> QED
        BY <2>6, <3>1, <4>1
    <3>3. CASE Cardinality(Left(b, m, m2)) <= turns - j
      <4>1. s[m3] = LF
        <5>1. m3 # 0 /\ IsEnd(native, s, m3)
          BY <1>1, <2>6 DEF At, Reached
        <5> QED
          BY <5>1 DEF IsEnd
      <4> DEFINE c2 == Cardinality(Left(b, m, m2))
                 c3 == Cardinality(Left(b, m, m3))
      <4>2. c3 + 1 <= c2
        BY <1>2, <4>1, LeftShrinks
      <4>3. c2 \in Nat /\ c3 \in Nat /\ c2 <= turns - j
        BY <1>2, <3>1, <3>3
      <4> HIDE DEF c2, c3
      <4>4. c3 <= turns - (j + 1)
        BY <1>2, <4>2, <4>3
      <4> QED
        BY <2>6, <3>1, <4>4 DEF c3
    <3> QED
      BY <2>1, <3>2, <3>3
  <2> HIDE DEF Here
  <2> QED
    BY <2>3, <2>4, <2>5, <2>6
<1> HIDE DEF D
<1>6. turns \in D
  BY <1>2, <1>4, <1>5, Induction
<1>7. PICK m2 \in m .. upto, k2 \in 0 .. n :
        /\ At(s, n, p, q, native, upto, k, m2, k2, f[turns])
        /\ NoEnd(s, native, m2, upto) \/ Cardinality(Left(b, m, m2)) <= turns - turns
  BY <1>2, <1>6 DEF D
<1>8. NoEnd(s, native, m2, upto)
  <2>1. CASE Cardinality(Left(b, m, m2)) <= turns - turns
    <3>1. Cardinality(Left(b, m, m2)) = 0
      BY <1>2, <2>1
    <3> QED
      BY <1>2, <3>1, NoneLeft
  <2> QED
    BY <1>7, <2>1
<1> QED
  BY <1>7, <1>8

Takings(native, b) == IF native THEN Lines(b) ELSE Feed(b)

LEMMA TakingsAre ==
  ASSUME NEW s, NEW n, NEW p, NEW q, NEW native \in BOOLEAN, Marks(s, n, p, q, native),
         NEW m, NEW k, NEW upto, NEW b, Reached(s, n, p, q, native, m, k, upto, b)
  PROVE  \E m2 \in m .. upto : \E k2 \in 0 .. n :
           At(s, n, p, q, native, upto, k, m2, k2, Takings(native, b)) /\ NoEnd(s, native, m2, upto)
<1> DEFINE turns == Cardinality(LineEnds(b))
           start == [frames |-> << >>, buf |-> b]
           Body(f) == [j \in 0 .. turns |-> IF j = 0 THEN start ELSE Turn(native, f[j - 1])]
           taken == CHOOSE f : f = Body(f)
<1>1. turns \in Nat
  BY LeftIs DEF Reached
<1> HIDE DEF turns
<1>2. taken = Body(taken)
  <2>1. \E f : f = Body(f)
    <3> HIDE DEF start
    <3>1. \E f : IsLoop(f, native, start, turns)
      BY <1>1, Looping
    <3> QED
      BY <3>1 DEF IsLoop
  <2> HIDE DEF Body
  <2> QED
    BY <2>1
<1>3. Takings(native, b) = taken[turns]
  <2>1. CASE native = TRUE
    <3>1. Lines(b) = taken[turns]
      BY <2>1 DEF Lines, Drain, Turn, LineEnds, turns
    <3> QED
      BY <2>1, <3>1 DEF Takings
  <2>2. CASE native = FALSE
    <3>1. Feed(b) = taken[turns]
      BY <2>2 DEF Feed, Drain, Turn, LineEnds, turns
    <3> QED
      BY <2>2, <3>1 DEF Takings
  <2> QED
    BY <2>1, <2>2
<1> HIDE DEF taken
<1>4. \E m2 \in m .. upto : \E k2 \in 0 .. n :
        At(s, n, p, q, native, upto, k, m2, k2, taken[turns]) /\ NoEnd(s, native, m2, upto)
  <2>1. IsLoop(taken, native, [frames |-> << >>, buf |-> b], turns)
    BY <1>2 DEF IsLoop
  <2> QED
    BY <2>1, LoopIs DEF turns
<1> QED
  BY <1>3, <1>4

-----------------------------------------------------------------------------
(* What is made of the payloads.                                           *)

(* The first k numbers.                                                      *)
UpTo(k) == [i \in 1 .. k |-> i]

LEMMA UpToNext ==
  ASSUME NEW k \in Nat
  PROVE  Append(UpTo(k), k + 1) = UpTo(k + 1) /\ UpTo(0) = << >>
<1> DEFINE a == UpTo(k)
           x == Append(a, k + 1)
<1>1. a \in [1 .. k -> Nat] /\ a \in Seq(Nat) /\ Len(a) = k /\ \A i \in 1 .. k : a[i] = i
  BY DEF UpTo
<1> HIDE DEF a
<1>2. /\ x \in Seq(Nat) /\ Len(x) = Len(a) + 1
      /\ \A i \in 1 .. Len(a) : x[i] = a[i]
      /\ x[Len(a) + 1] = k + 1
  BY <1>1, AppendProperties
<1> HIDE DEF x
<1>3. DOMAIN x = 1 .. k + 1
  BY <1>1, <1>2
<1>4. \A i \in 1 .. k + 1 : x[i] = i
  BY <1>1, <1>2
<1>5. x = [i \in 1 .. k + 1 |-> x[i]]
  BY <1>2, <1>3
<1>6. x = UpTo(k + 1)
  BY <1>4, <1>5 DEF UpTo
<1>7. UpTo(0) = << >>
  BY DEF UpTo
<1> QED
  BY <1>6, <1>7 DEF x, a

(* The reader between two payloads.                                          *)
IsReader(state) ==
  state = [got |-> state.got, r |-> state.r, read |-> state.read, ended |-> state.ended]

LEMMA PayloadIs ==
  ASSUME NEW h, NEW k, IsRaw(h, k)
  PROVE  IsPayload(h) /\ h[1][2] = k
BY DEF IsRaw, IsPayload

LEMMA ReadPayloadIs ==
  ASSUME NEW state, IsReader(state), NEW h, NEW k, IsRaw(h, k)
  PROVE  /\ IsReader(ReadPayload(state, h))
         /\ Native => ReadPayload(state, h).got = Append(state.got, k)
         /\ ~Native /\ ~state.ended => ReadPayload(state, h).got = Append(state.got, k)
         /\ ~Native /\ state.ended => ReadPayload(state, h) = state
<1>1. IsPayload(h) /\ h[1][2] = k
  BY PayloadIs
<1>2. CASE Native
  <2> DEFINE w == ReadLine(state, h)
  <2>1. /\ w = [got |-> w.got, r |-> w.r, read |-> w.read, ended |-> w.ended]
        /\ w.got = IF IsPayload(h) THEN Append(state.got, h[1][2]) ELSE state.got
    BY DEF ReadLine
  <2> HIDE DEF w
  <2>2. w.got = Append(state.got, k) /\ IsReader(w)
    BY <1>1, <2>1 DEF IsReader
  <2> QED
    BY <1>2, <2>2 DEF ReadPayload, w
<1>3. CASE ~Native
  <2> DEFINE w == ReadFrame(state, h)
  <2>1. state.ended => w = state
    BY ZenonT(30) DEF ReadFrame
  <2>2. ~state.ended => \E read1, ended1 :
          w = [state EXCEPT !.got = Append(@, h[1][2]), !.read = read1, !.ended = ended1]
    BY <1>1, ZenonT(30) DEF ReadFrame
  <2> HIDE DEF w
  <2>3. CASE state.ended
    BY <1>3, <2>1, <2>3 DEF ReadPayload, w
  <2>4. CASE ~state.ended
    <3>1. PICK read1, ended1 : w = [state EXCEPT !.got = Append(@, h[1][2]), !.read = read1, !.ended = ended1]
      BY <2>2, <2>4
    <3>2. w = [got |-> Append(state.got, k), r |-> state.r, read |-> read1, ended |-> ended1]
      BY <1>1, <3>1 DEF IsReader
    <3>3. IsReader(w) /\ w.got = Append(state.got, k)
      BY <3>2 DEF IsReader
    <3> QED
      BY <1>3, <2>4, <3>3 DEF ReadPayload, w
  <2> QED
    BY <2>3, <2>4
<1> QED
  BY <1>2, <1>3

Reads(f, start, payloads, n) ==
  f = [i \in 0 .. n |-> IF i = 0 THEN start ELSE ReadPayload(f[i - 1], payloads[i])]

LEMMA ReadingExists ==
  ASSUME NEW start, NEW payloads, NEW n \in Nat
  PROVE  \E f : Reads(f, start, payloads, n)
<1> USE DEF Reads
<1> DEFINE D == {j \in Nat : \E f : Reads(f, start, payloads, j)}
<1>1. 0 \in D
  <2> DEFINE f == [i \in 0 .. 0 |-> start]
  <2>1. Reads(f, start, payloads, 0)
    OBVIOUS
  <2> QED
    BY <2>1
<1>2. ASSUME NEW j \in Nat, j \in D
      PROVE  j + 1 \in D
  <2>1. PICK f : Reads(f, start, payloads, j)
    BY <1>2
  <2> DEFINE g == [i \in 0 .. j + 1 |-> IF i = j + 1 THEN ReadPayload(f[j], payloads[j + 1]) ELSE f[i]]
  <2>2. \A i \in 0 .. j + 1 : g[i] = IF i = 0 THEN start ELSE ReadPayload(g[i - 1], payloads[i])
    <3> TAKE i \in 0 .. j + 1
    <3>1. CASE i = 0
      <4>1. 0 \in 0 .. j /\ i # j + 1
        BY <3>1
      <4> QED
        BY <2>1, <3>1, <4>1
    <3>2. CASE i = j + 1
      <4>1. i - 1 = j /\ j \in 0 .. j + 1 /\ j # j + 1 /\ i # 0
        BY <3>2
      <4>2. g[i] = ReadPayload(f[j], payloads[i]) /\ g[i - 1] = f[j]
        BY <3>2, <4>1
      <4> QED
        BY <4>1, <4>2
    <3>3. CASE i # 0 /\ i # j + 1
      <4>1. i \in 0 .. j /\ i - 1 \in 0 .. j /\ i - 1 \in 0 .. j + 1 /\ i - 1 # j + 1
        BY <3>3
      <4>2. g[i] = f[i] /\ g[i - 1] = f[i - 1]
        BY <3>3, <4>1
      <4>3. f[i] = IF i = 0 THEN start ELSE ReadPayload(f[i - 1], payloads[i])
        BY <2>1, <4>1
      <4> QED
        BY <4>2, <4>3
    <3> QED
      BY <3>1, <3>2, <3>3
  <2>3. g = [i \in 0 .. j + 1 |-> g[i]]
    OBVIOUS
  <2> HIDE DEF g
  <2>4. Reads(g, start, payloads, j + 1)
    BY <2>2, <2>3
  <2> QED
    BY <2>4
<1> HIDE DEF D
<1>3. n \in D
  BY <1>1, <1>2, Induction
<1> QED
  BY <1>3 DEF D

(* Payloads read in order are numbered in order, unless compat has stopped.  *)
LEMMA ReadingIs ==
  ASSUME NEW payloads, NEW k0 \in Nat, NEW k \in Nat, k0 <= k, Numbered(payloads, k0, k),
         got = UpTo(k0)
  PROVE  Reading(payloads).got = UpTo(k) \/ (~Native /\ Reading(payloads).ended)
<1> DEFINE n == Len(payloads)
           start == [got |-> got, r |-> r, read |-> read, ended |-> ended]
           Body(f) == [i \in 0 .. Len(payloads) |-> IF i = 0 THEN start ELSE ReadPayload(f[i - 1], payloads[i])]
           after == CHOOSE f : f = Body(f)
<1>1. n = k - k0 /\ n \in Nat /\ \A i \in 1 .. n : IsRaw(payloads[i], k0 + i)
  BY DEF Numbered
<1>2. after = Body(after)
  <2>1. \E f : f = Body(f)
    <3> HIDE DEF start
    <3>1. \E f : Reads(f, start, payloads, n)
      BY <1>1, ReadingExists
    <3> QED
      BY <3>1 DEF Reads
  <2> HIDE DEF Body
  <2> QED
    BY <2>1
<1>3. Reading(payloads) = after[n]
  BY DEF Reading
<1> HIDE DEF after, start
<1>4. after[0] = start /\ \A i \in 1 .. n : after[i] = ReadPayload(after[i - 1], payloads[i])
  <2> HIDE DEF n
  <2>1. 0 \in 0 .. n /\ \A i \in 1 .. n : i \in 0 .. n /\ i # 0
    BY <1>1
  <2>2. \A i \in 0 .. n : after[i] = IF i = 0 THEN start ELSE ReadPayload(after[i - 1], payloads[i])
    BY <1>2 DEF n
  <2> QED
    BY <2>1, <2>2
<1> DEFINE Sound(i) == IsReader(after[i]) /\ (after[i].got = UpTo(k0 + i) \/ (~Native /\ after[i].ended))
           D == {i \in Nat : i <= n => Sound(i)}
<1> HIDE DEF n
<1>5. 0 \in D
  <2>1. IsReader(start) /\ start.got = got
    BY DEF start, IsReader
  <2>2. k0 + 0 = k0
    OBVIOUS
  <2>3. Sound(0)
    BY <1>4, <2>1, <2>2
  <2> HIDE DEF Sound
  <2> QED
    BY <2>3
<1>6. ASSUME NEW i \in Nat, i \in D
      PROVE  i + 1 \in D
  <2> SUFFICES ASSUME i + 1 <= n PROVE Sound(i + 1)
    OBVIOUS
  <2> DEFINE x == after[i]
             y == after[i + 1]
  <2>1. i + 1 \in 1 .. n /\ i + 1 - 1 = i /\ i <= n /\ k0 + i \in Nat /\ k0 + (i + 1) = k0 + i + 1
    BY <1>1
  <2>2. IsReader(x) /\ (x.got = UpTo(k0 + i) \/ (~Native /\ x.ended))
    BY <1>6, <2>1
  <2>3. y = ReadPayload(x, payloads[i + 1])
    BY <1>4, <2>1
  <2> HIDE DEF x, y
  <2>4. IsRaw(payloads[i + 1], k0 + (i + 1))
    BY <1>1, <2>1
  <2>5. /\ IsReader(y)
        /\ Native => y.got = Append(x.got, k0 + (i + 1))
        /\ ~Native /\ ~x.ended => y.got = Append(x.got, k0 + (i + 1))
        /\ ~Native /\ x.ended => y = x
    BY <2>2, <2>3, <2>4, ReadPayloadIs
  <2>6. Append(UpTo(k0 + i), k0 + i + 1) = UpTo(k0 + i + 1)
    BY <2>1, UpToNext
  <2>7. y.got = UpTo(k0 + (i + 1)) \/ (~Native /\ y.ended)
    <3>1. CASE ~Native /\ x.ended
      BY <2>5, <3>1
    <3>2. CASE ~(~Native /\ x.ended)
      <4>1. x.got = UpTo(k0 + i) /\ y.got = Append(x.got, k0 + (i + 1))
        BY <2>2, <2>5, <3>2
      <4> QED
        BY <2>1, <2>6, <4>1
    <3> QED
      BY <3>1, <3>2
  <2> QED
    BY <2>5, <2>7 DEF y
<1> HIDE DEF D
<1>7. n \in D
  BY <1>1, <1>5, <1>6, Induction
<1>8. k0 + n = k /\ n <= n
  BY <1>1
<1>9. Sound(n)
  BY <1>7, <1>8 DEF D
<1> QED
  BY <1>3, <1>8, <1>9

-----------------------------------------------------------------------------
(* The invariant.                                                          *)

(* The marks of what an upstream sends, for the reader it is sent to.        *)
Sent(frames, layout, p, q) ==
  /\ Marks(Bytes(frames, layout), Len(frames), p, q, Native)
  /\ \A k \in 1 .. Len(frames) :
       q[k] = Len(Bytes(SubSeq(frames, 1, k), layout)) - (IF Native THEN Len(Eol(layout)) ELSE 0)

(* A reader has taken its bytes up to the last end, and with them the first  *)
(* k payloads; what it holds is what has come since.                         *)
Holding(k) ==
  /\ answer = [frames |-> answer.frames, layout |-> answer.layout, at |-> answer.at]
  /\ Len(answer.frames) \in Nat /\ DOMAIN answer.frames = 1 .. Len(answer.frames)
  /\ \E p, q : /\ Sent(answer.frames, answer.layout, p, q)
               /\ \E m : /\ Reached(Sending, Len(answer.frames), p, q, Native, m, k, answer.at, buf)
                         /\ NoEnd(Sending, Native, m, answer.at)

ReaderSound == \E k : Holding(k) /\ got = UpTo(k)

ReadSound ==
  /\ deal.kind \in Kinds
  /\ phase \in {"asked", "parsed", "sent"} => buf = << >> /\ got = << >>
  /\ phase = "reading" /\ deal.kind # "responses" /\ ~(ended /\ ~Native) => ReaderSound

LEMMA NativeIs == Native \in BOOLEAN
BY DEF Native

LEMMA SendingStays ==
  ASSUME UNCHANGED deal
  PROVE  /\ Native' = Native
         /\ \A frames, layout : Bytes(frames, layout)' = Bytes(frames, layout)
BY DEF Native, Bytes

LEMMA Grown ==
  ASSUME NEW s, NEW n, NEW p, NEW q, NEW native, NEW m, NEW k, NEW upto, NEW b,
         s \in Seq(Symbols), Reached(s, n, p, q, native, m, k, upto, b),
         NEW end \in upto + 1 .. Len(s), NEW piece \in Seq(Symbols), Len(piece) = end - upto,
         \A i \in 1 .. end - upto : Like(piece[i], s[upto + i])
  PROVE  Reached(s, n, p, q, native, m, k, end, b \o piece)
<1>1. /\ m \in Nat /\ upto \in Nat /\ m <= upto /\ upto <= Len(s)
      /\ b \in Seq(Symbols) /\ Len(b) = upto - m
      /\ \A i \in 1 .. upto - m : Like(b[i], s[m + i])
  BY DEF Reached, Window
<1> DEFINE t == b \o piece
<1>2. /\ t \in Seq(Symbols) /\ Len(t) = Len(b) + Len(piece)
      /\ \A i \in 1 .. Len(b) : t[i] = b[i]
      /\ \A i \in 1 .. Len(piece) : t[Len(b) + i] = piece[i]
  BY <1>1, GluedIs
<1> HIDE DEF t
<1>3. Len(s) \in Nat /\ end \in Nat /\ end <= Len(s) /\ upto < end
  BY <1>1
<1>4. Len(t) = end - m
  BY <1>1, <1>2, <1>3
<1>5. \A i \in 1 .. end - m : Like(t[i], s[m + i])
  <2> TAKE i \in 1 .. end - m
  <2>1. CASE i <= upto - m
    <3>1. i \in 1 .. upto - m
      BY <1>1, <1>3, <2>1
    <3> QED
      BY <1>1, <1>2, <3>1
  <2>2. CASE i > upto - m
    <3> DEFINE j == i - (upto - m)
    <3>1. j \in 1 .. end - upto /\ i = upto - m + j /\ m + i = upto + j
      BY <1>1, <1>3, <2>2
    <3> HIDE DEF j
    <3>2. t[i] = piece[j]
      BY <1>1, <1>2, <3>1
    <3> QED
      BY <3>1, <3>2
  <2> QED
    BY <1>1, <1>3, <2>1, <2>2
<1>6. Window(t, s, m, end)
  BY <1>1, <1>2, <1>3, <1>4, <1>5 DEF Window
<1> QED
  BY <1>6 DEF Reached, t

LEMMA ReadStarts == Init => ReadSound
BY DEF Init, ReadSound

LEMMA AnswerStreamSound ==
  ASSUME ReadSound, AnswerStream
  PROVE  ReadSound'
<1>1. /\ phase = "sent" /\ phase' = "reading" /\ UNCHANGED <<deal, buf, got, r, read, ended>>
      /\ deal.kind \in Kinds /\ buf = << >> /\ got = << >>
  BY DEF AnswerStream, ReadSound
<1>2. PICK frames \in Streams(deal.kind), layout \in Layouts :
        answer' = [frames |-> frames, layout |-> layout, at |-> 0]
  BY DEF AnswerStream
<1>3. Len(frames) \in Nat /\ DOMAIN frames = 1 .. Len(frames)
  <2>1. frames \in Seq(Frames)
    BY <1>1, <1>2, StreamAssumption
  <2> QED
    BY ONLY <2>1, LenProperties
<1>4. SUFFICES ASSUME deal.kind # "responses"
               PROVE  ReaderSound'
  BY <1>1 DEF ReadSound
<1> DEFINE n == Len(frames)
           s == Bytes(frames, layout)
<1>5. PICK p, q : Sent(frames, layout, p, q)
  <2> DEFINE native == Native
  <2>1. native \in BOOLEAN
    BY NativeIs
  <2> HIDE DEF native
  <2>2. \E p, q : /\ Marks(s, n, p, q, native)
                  /\ \A k \in 1 .. n : q[k] = Len(Bytes(SubSeq(frames, 1, k), layout)) - (IF native THEN Len(Eol(layout)) ELSE 0)
    BY <1>3, <1>4, <2>1, SendingIs
  <2> QED
    BY <2>2 DEF Sent, native
<1>6. Sent(frames, layout, p, q)' <=> Sent(frames, layout, p, q)
  BY <1>1 DEF Sent, Bytes, Native
<1>7. Sending' = s
  BY <1>1, <1>2, SendingStays DEF Sending
<1>8. Native' = Native
  BY <1>1, SendingStays
<1>9. Marks(s, n, p, q, Native)
  BY <1>5 DEF Sent
<1> HIDE DEF s, n
<1>10. Reached(s, n, p, q, Native, 0, 0, 0, << >>)
  <2>1. n \in Nat /\ s \in Seq(Symbols) /\ Len(s) \in Nat /\ q[0] = 0 /\ q \in [0 .. n + 1 -> Nat] /\ p \in [1 .. n + 1 -> Nat]
    BY <1>3, <1>9 DEF Marks, n
  <2>2. q[0] < p[1]
    <3>1. 0 \in 0 .. n + 1 /\ 1 \in 1 .. n + 1 /\ 0 < 1
      BY <2>1
    <3> QED
      BY <1>9, <3>1 DEF Marks
  <2>3. p[1] < q[1]
    <3>1. CASE n = 0
      BY <1>9, <2>1, <3>1 DEF Marks
    <3>2. CASE n # 0
      <4>1. 1 \in 1 .. n /\ 1 \in 1 .. n + 1 /\ 1 \in 0 .. n + 1
        BY <2>1, <3>2
      <4>2. p[1] + 2 < q[1]
        BY <1>9, <4>1 DEF Marks
      <4>3. p[1] \in Nat /\ q[1] \in Nat
        BY <2>1, <4>1
      <4> QED
        BY <4>2, <4>3
    <3> QED
      BY <3>1, <3>2
  <2>4. 0 < q[0 + 1] /\ q[0] <= 0
    <3>1. 1 \in 1 .. n + 1 /\ 1 \in 0 .. n + 1
      BY <2>1
    <3>2. p[1] \in Nat /\ q[1] \in Nat
      BY <2>1, <3>1
    <3> QED
      BY <2>1, <2>2, <2>3, <3>2
  <2>5. Window(<< >>, s, 0, 0)
    <3>1. << >> \in Seq(Symbols) /\ Len(<< >>) = 0 /\ 0 - 0 = 0 /\ 1 .. 0 - 0 = {}
      OBVIOUS
    <3> QED
      BY <2>1, <3>1 DEF Window
  <2>6. 0 \in 0 .. n
    BY <2>1
  <2> QED
    BY <2>4, <2>5, <2>6 DEF Reached
<1>11. NoEnd(s, Native, 0, 0)
  <2>1. 1 .. 0 - 0 = {}
    OBVIOUS
  <2> QED
    BY <2>1 DEF NoEnd
<1>12. << >> = UpTo(0)
  BY UpToNext
<1>13. /\ answer'.frames = frames /\ answer'.layout = layout /\ answer'.at = 0
       /\ answer' = [frames |-> answer'.frames, layout |-> answer'.layout, at |-> answer'.at]
  BY <1>2
<1>14. buf' = << >> /\ got' = UpTo(0)
  BY <1>1, <1>12
<1>15. /\ Sent(answer.frames, answer.layout, p, q)'
       /\ Reached(Sending', Len(answer'.frames), p, q, Native', 0, 0, answer'.at, buf')
       /\ NoEnd(Sending', Native', 0, answer'.at)
  <2>1. Sent(answer.frames, answer.layout, p, q)' <=> Sent(frames, layout, p, q)'
    BY <1>13 DEF Sent
  <2> QED
    BY <1>5, <1>6, <1>7, <1>8, <1>10, <1>11, <1>13, <1>14, <2>1 DEF n
<1>16. Holding(0)'
  BY <1>3, <1>13, <1>15 DEF Holding
<1> QED
  BY <1>14, <1>16 DEF ReaderSound

(* What a reader takes of a chunk.                                           *)
Comes(end) ==
  LET chunk == SubSeq(Sending, answer.at + 1, end)
  IN  Takings(Native, buf \o IF Native THEN Lossy(chunk, WideFrames) ELSE chunk)

(* What a chunk brings, the reader takes in its order.                       *)
LEMMA ChunkTakes ==
  ASSUME Chunk, NEW k, Holding(k)
  PROVE  \E payloads : \E k2 \in 0 .. Len(answer.frames) :
           /\ k \in Nat /\ k <= k2 /\ Numbered(payloads, k, k2) /\ Takes(payloads)
           /\ Holding(k2)' /\ answer'.frames = answer.frames
           /\ \E end \in answer.at + 1 .. Len(Sending) : payloads = Comes(end).frames /\ buf' = Comes(end).buf
<1>1. UNCHANGED <<deal, phase, asking>>
  BY DEF Chunk
<1>2. Native' = Native
  BY <1>1, SendingStays
<1>4. Holding(k)
  OBVIOUS
<1> DEFINE frames == answer.frames
           layout == answer.layout
           upto == answer.at
           n == Len(frames)
           s == Sending
           native == Native
<1>5. PICK p, q, m : /\ Sent(frames, layout, p, q)
                     /\ Reached(s, n, p, q, native, m, k, upto, buf)
                     /\ NoEnd(s, native, m, upto)
  BY <1>4 DEF Holding
<1>6. PICK end \in (answer.at + 1)..Len(Sending) :
        LET chunk == SubSeq(Sending, answer.at + 1, end)
            taken == IF Native THEN Lines(buf \o Lossy(chunk, WideFrames)) ELSE Feed(buf \o chunk)
        IN  /\ answer' = [answer EXCEPT !.at = end]
            /\ buf' = taken.buf
            /\ Takes(taken.frames)
  BY DEF Chunk
<1> DEFINE chunk == SubSeq(s, upto + 1, end)
           piece == IF native THEN Lossy(chunk, WideFrames) ELSE chunk
           b == buf \o piece
           taken == Takings(native, b)
<1>7. answer' = [answer EXCEPT !.at = end] /\ buf' = taken.buf /\ Takes(taken.frames)
  BY <1>6 DEF Takings
<1>23. taken = Comes(end) /\ end \in answer.at + 1 .. Len(Sending)
  BY DEF Comes
<1>8. native \in BOOLEAN
  BY NativeIs
<1>9. Marks(s, n, p, q, native)
  BY <1>5 DEF Sent, Sending
<1>10. answer' = [frames |-> frames, layout |-> layout, at |-> end]
  <2>1. answer = [frames |-> frames, layout |-> layout, at |-> upto]
    BY <1>4 DEF Holding
  <2> QED
    BY <1>7, <2>1
<1>11. Sending' = s
  BY <1>1, <1>10, SendingStays DEF Sending
<1>12. Sent(answer.frames, answer.layout, p, q)'
  <2>1. answer'.frames = frames /\ answer'.layout = layout /\ deal' = deal
    BY <1>1, <1>10
  <2>2. Sent(answer.frames, answer.layout, p, q)' <=> Sent(frames, layout, p, q)
    BY <2>1 DEF Sent, Bytes, Native
  <2> QED
    BY <1>5, <2>2
<1>13. end \in upto + 1 .. Len(s)
  OBVIOUS
<1>14. /\ n \in Nat /\ DOMAIN frames = 1 .. n
  BY <1>4 DEF Holding
<1>15. Takes(taken.frames)
  BY <1>7
<1>16. buf' = taken.buf
  BY <1>7
<1> HIDE DEF s, native, upto, frames, layout, n
<1>17. /\ s \in Seq(Symbols) /\ Len(s) \in Nat /\ upto \in Nat /\ upto <= Len(s) /\ k \in 0 .. n /\ k \in Nat
       /\ end \in Nat /\ end > upto
  <2>1. s \in Seq(Symbols)
    BY <1>9 DEF Marks
  <2>2. upto \in Nat /\ upto <= Len(s) /\ k \in 0 .. n
    BY <1>5 DEF Reached, Window
  <2> QED
    BY <1>13, <1>14, <2>1, <2>2
<1>18. chunk \in Seq(Symbols) /\ Len(chunk) = end - upto /\ \A i \in 1 .. end - upto : chunk[i] = s[upto + i]
  <2>1. /\ chunk \in Seq(Symbols)
        /\ Len(chunk) = IF upto + 1 <= end THEN end - (upto + 1) + 1 ELSE 0
        /\ \A i \in 1 .. end - (upto + 1) + 1 : chunk[i] = s[upto + 1 + i - 1]
    <3>1. upto + 1 \in Int /\ end \in Int /\ \A i \in upto + 1 .. end : i \in 1 .. Len(s)
      BY <1>13, <1>17
    <3>2. \A i \in upto + 1 .. end : s[i] \in Symbols
      BY <1>17, <3>1
    <3> QED
      BY <3>1, <3>2, SubSeqProperties
  <2> HIDE DEF chunk
  <2>2. upto + 1 <= end /\ end - (upto + 1) + 1 = end - upto /\ \A i \in 1 .. end - upto : upto + 1 + i - 1 = upto + i
    BY <1>17
  <2> QED
    BY <2>1, <2>2
<1> HIDE DEF chunk
<1>19. piece \in Seq(Symbols) /\ Len(piece) = end - upto /\ \A i \in 1 .. end - upto : Like(piece[i], s[upto + i])
  <2>1. \A i \in 1 .. end - upto : Like(chunk[i], s[upto + i])
    BY <1>18 DEF Like
  <2>2. /\ Lossy(chunk, WideFrames) \in Seq(Symbols) /\ Len(Lossy(chunk, WideFrames)) = Len(chunk)
        /\ \A i \in 1 .. Len(chunk) : Like(Lossy(chunk, WideFrames)[i], chunk[i])
    BY <1>18, LossyIsLike
  <2> DEFINE l == Lossy(chunk, WideFrames)
  <2> HIDE DEF l
  <2>3. \A i \in 1 .. end - upto : Like(l[i], s[upto + i])
    BY <1>18, <2>2 DEF l
  <2>4. l \in Seq(Symbols) /\ Len(l) = end - upto /\ piece = IF native THEN l ELSE chunk
    BY <1>18, <2>2 DEF l
  <2> HIDE DEF piece
  <2> QED
    BY <1>8, <1>18, <2>1, <2>3, <2>4
<1> HIDE DEF piece
<1>20. Reached(s, n, p, q, native, m, k, end, b)
  BY <1>5, <1>13, <1>17, <1>19, Grown
<1> HIDE DEF b
<1>21. PICK m2 \in m .. end, k2 \in 0 .. n :
         At(s, n, p, q, native, end, k, m2, k2, taken) /\ NoEnd(s, native, m2, end)
  BY <1>8, <1>9, <1>20, TakingsAre
<1> HIDE DEF taken
<1>22. /\ Reached(s, n, p, q, native, m2, k2, end, taken.buf)
       /\ k <= k2 /\ Numbered(taken.frames, k, k2)
  BY <1>21 DEF At
<1>24. /\ answer'.frames = frames /\ answer'.layout = layout /\ answer'.at = end
       /\ answer' = [frames |-> answer'.frames, layout |-> answer'.layout, at |-> answer'.at]
  BY <1>10
<1>25. /\ Reached(Sending', Len(answer'.frames), p, q, Native', m2, k2, answer'.at, buf')
       /\ NoEnd(Sending', Native', m2, answer'.at)
  BY <1>2, <1>11, <1>16, <1>21, <1>22, <1>24 DEF n, native
<1>26. Len(answer'.frames) \in Nat /\ DOMAIN answer'.frames = 1 .. Len(answer'.frames)
  BY <1>14, <1>24 DEF n
<1>27. Holding(k2)'
  BY <1>12, <1>24, <1>25, <1>26 DEF Holding
<1>28. \E e \in answer.at + 1 .. Len(Sending) : taken.frames = Comes(e).frames /\ buf' = Comes(e).buf
  BY <1>16, <1>23
<1> QED
  BY <1>15, <1>17, <1>22, <1>24, <1>27, <1>28 DEF n, frames

LEMMA ChunkSound ==
  ASSUME ReadSound, Chunk
  PROVE  ReadSound'
<1>1. /\ phase = "reading" /\ (Native \/ ~ended) /\ UNCHANGED <<deal, phase, asking>>
      /\ deal.kind \in Kinds
  BY DEF Chunk, ReadSound
<1>2. Native' = Native
  BY <1>1, SendingStays
<1>3. SUFFICES ASSUME deal.kind # "responses", ~(ended' /\ ~Native)
               PROVE  ReaderSound'
  BY <1>1, <1>2 DEF ReadSound
<1>4. ReaderSound
  BY <1>1, <1>3 DEF ReadSound
<1>5. PICK k : Holding(k) /\ got = UpTo(k)
  BY <1>4 DEF ReaderSound
<1>6. PICK payloads : \E k2 \in 0 .. Len(answer.frames) :
        k \in Nat /\ k <= k2 /\ Numbered(payloads, k, k2) /\ Takes(payloads) /\ Holding(k2)'
  BY <1>5, ChunkTakes
<1>7. PICK k2 \in 0 .. Len(answer.frames) :
        k \in Nat /\ k <= k2 /\ Numbered(payloads, k, k2) /\ Takes(payloads) /\ Holding(k2)'
  BY <1>6
<1>8. got' = Reading(payloads).got /\ ended' = Reading(payloads).ended
  BY <1>7 DEF Takes
<1>9. k2 \in Nat
  BY <1>5 DEF Holding
<1>10. Reading(payloads).got = UpTo(k2) \/ (~Native /\ Reading(payloads).ended)
  BY <1>5, <1>7, <1>9, ReadingIs
<1> QED
  BY <1>3, <1>7, <1>8, <1>10 DEF ReaderSound

LEMMA StutterSound ==
  ASSUME ReadSound, UNCHANGED vars
  PROVE  ReadSound'
<1>1. UNCHANGED <<deal, phase, answer, buf, got, ended>>
  BY DEF vars, reading
<1>2. Native' = Native /\ Sending' = Sending
  BY <1>1 DEF Native, Sending, Bytes
<1>3. \A p, q : Sent(answer.frames, answer.layout, p, q)' <=> Sent(answer.frames, answer.layout, p, q)
  BY <1>1 DEF Sent, Bytes, Native
<1>4. \A k : Holding(k) => Holding(k)'
  BY <1>1, <1>2, <1>3 DEF Holding
<1>5. ReaderSound => ReaderSound'
  BY <1>1, <1>4 DEF ReaderSound
<1> QED
  BY <1>1, <1>2, <1>5 DEF ReadSound

(* Every other action begins no stream, or leaves it.                        *)
LEMMA OthersSound ==
  ASSUME ReadSound, Parse \/ Build \/ AnswerWhole \/ End \/ Leave \/ Break
  PROVE  ReadSound'
<1>1. deal' = deal /\ deal.kind \in Kinds
  BY DEF ReadSound, Parse, Build, AnswerWhole, End, Leave, Break
<1>2. CASE Parse
  BY <1>1, <1>2 DEF ReadSound, Parse, reading
<1>3. CASE Build
  BY <1>1, <1>3 DEF ReadSound, Build, reading
<1>4. CASE AnswerWhole
  <2>1. phase' \in {"failed", "done"}
    BY <1>4 DEF AnswerWhole, Deliver
  <2> QED
    BY <1>1, <2>1 DEF ReadSound
<1>5. CASE End \/ Leave \/ Break
  <2>1. phase' \in {"broken", "done"}
    BY <1>5 DEF End, Leave, Break
  <2> QED
    BY <1>1, <2>1 DEF ReadSound
<1> QED
  BY <1>2, <1>3, <1>4, <1>5

LEMMA ReadStaysSound == ReadSound /\ [Next]_vars => ReadSound'
<1> SUFFICES ASSUME ReadSound, [Next]_vars PROVE ReadSound'
  OBVIOUS
<1>1. CASE AnswerStream
  BY <1>1, AnswerStreamSound
<1>2. CASE Chunk
  BY <1>2, ChunkSound
<1>3. CASE Parse \/ Build \/ AnswerWhole \/ End \/ Leave \/ Break
  BY <1>3, OthersSound
<1>4. CASE UNCHANGED vars
  BY <1>4, StutterSound
<1> QED
  BY <1>1, <1>2, <1>3, <1>4 DEF Next

LEMMA ReadIsWhole == ReadSound => FramesAreWhole
<1> SUFFICES ASSUME ReadSound, phase = "reading", deal.kind # "responses", ~(ended /\ ~Native)
             PROVE  \E k \in 0 .. Len(answer.frames) :
                      /\ Whole(k) /\ (k < Len(answer.frames) => ~Whole(k + 1))
                      /\ got = [i \in 1 .. k |-> i]
  BY DEF FramesAreWhole
<1> DEFINE n == Len(answer.frames)
           upto == answer.at
           s == Sending
           native == Native
<1>1. ReaderSound
  BY DEF ReadSound
<1>0. PICK k : Holding(k) /\ got = UpTo(k)
  BY <1>1 DEF ReaderSound
<1>2. PICK p, q, m : /\ Sent(answer.frames, answer.layout, p, q)
                     /\ Reached(s, n, p, q, native, m, k, upto, buf)
                     /\ NoEnd(s, native, m, upto)
  BY <1>0 DEF Holding
<1>3. Marks(s, n, p, q, native)
  BY <1>2 DEF Sent, Sending
<1>4. \A j \in 1 .. n : Whole(j) <=> upto >= q[j]
  <2> TAKE j \in 1 .. n
  <2>1. q[j] = Len(Bytes(SubSeq(answer.frames, 1, j), answer.layout)) - (IF Native THEN Len(Eol(answer.layout)) ELSE 0)
    BY <1>2 DEF Sent
  <2>2. j # 0
    BY <1>0 DEF Holding
  <2> QED
    BY <2>1, <2>2 DEF Whole
<1>5. native \in BOOLEAN
  BY NativeIs
<1>6. Whole(0)
  BY DEF Whole
<1> HIDE DEF n, upto, s, native
<1>7. /\ m \in Nat /\ upto \in Nat /\ m <= upto /\ upto <= Len(s) /\ Len(s) \in Nat /\ n \in Nat /\ k \in 0 .. n
      /\ \A j \in 1 .. n + 1 : p[j] \in Nat /\ q[j] \in Nat /\ p[j] < q[j]
      /\ \A j \in 1 .. n : j <= k => q[j] <= m
      /\ m < q[k + 1]
  BY <1>2, <1>3, <1>5, Placed
<1>8. Whole(k)
  <2>1. CASE k = 0
    BY <1>6, <2>1
  <2>2. CASE k # 0
    <3>1. k \in 1 .. n /\ k \in 1 .. n + 1
      BY <1>7, <2>2
    <3>2. q[k] <= m /\ q[k] \in Nat
      BY <1>7, <3>1
    <3>3. upto >= q[k]
      BY <1>7, <3>2
    <3> QED
      BY <1>4, <3>1, <3>3
  <2> QED
    BY <2>1, <2>2
<1>9. k < n => ~Whole(k + 1)
  <2> SUFFICES ASSUME k < n, Whole(k + 1) PROVE FALSE
    OBVIOUS
  <2>1. k + 1 \in 1 .. n /\ k + 1 \in 1 .. n + 1
    BY <1>7
  <2>2. upto >= q[k + 1] /\ q[k + 1] \in Nat
    BY <1>4, <1>7, <2>1
  <2>3. IsEnd(native, s, q[k + 1])
    BY <1>3, <2>1 DEF Marks
  <2>4. q[k + 1] - m \in 1 .. upto - m /\ m + (q[k + 1] - m) = q[k + 1]
    <3> DEFINE x == q[k + 1]
    <3>1. x \in Nat /\ upto >= x /\ m < x
      BY <1>7, <2>2
    <3> HIDE DEF x
    <3>2. x - m \in 1 .. upto - m /\ m + (x - m) = x
      BY <1>7, <3>1
    <3> QED
      BY <3>2 DEF x
  <2> QED
    BY <1>2, <2>3, <2>4 DEF NoEnd
<1> QED
  BY <1>0, <1>7, <1>8, <1>9 DEF UpTo, n

(* The readers lose and repeat no payload: SseParser::feed of sse.rs and the *)
(* line loop of native.rs have, at each moment, read exactly the payloads    *)
(* that have arrived, whichever bytes the network brought together, for      *)
(* every stream, every layout of it and every piece of text a cut damages.   *)
THEOREM FramesStayWhole == Spec => []FramesAreWhole
<1>1. Init => ReadSound
  BY ReadStarts
<1>2. ReadSound /\ [Next]_vars => ReadSound'
  BY ReadStaysSound
<1>3. ReadSound => FramesAreWhole
  BY ReadIsWhole
<1> QED
  BY <1>1, <1>2, <1>3, PTL DEF Spec

-----------------------------------------------------------------------------
(* Sequences made one after the other.                                       *)

(* Induction over the sequences of a set, by their last element.             *)
LEMMA ListInduction ==
  ASSUME NEW A, NEW S, << >> \in S,
         \A s \in Seq(A) : \A x \in A : s \in S => Append(s, x) \in S
  PROVE  Seq(A) \subseteq S
<1> DEFINE D == {n \in Nat : \A s \in Seq(A) : Len(s) = n => s \in S}
<1>1. 0 \in D
  <2>1. \A s \in Seq(A) : Len(s) = 0 => s = << >>
    BY EmptySeq
  <2> QED
    BY <2>1
<1>2. ASSUME NEW n \in Nat, n \in D
      PROVE  n + 1 \in D
  <2> SUFFICES ASSUME NEW s \in Seq(A), Len(s) = n + 1 PROVE s \in S
    OBVIOUS
  <2>1. s # << >>
    <3>1. Len(<< >>) = 0 /\ n + 1 # 0
      OBVIOUS
    <3> QED
      BY <3>1
  <2> DEFINE t == SubSeq(s, 1, n)
             x == s[n + 1]
  <2>2. t \in Seq(A) /\ Len(t) = n /\ x \in A /\ s = Append(t, x)
    <3>1. s \in [1 .. n + 1 -> A] /\ n + 1 \in 1 .. n + 1
      OBVIOUS
    <3>2. t \in Seq(A) /\ Len(t) = n /\ \A i \in 1 .. n : t[i] = s[i]
      OBVIOUS
    <3>3. x \in A
      BY <3>1
    <3> HIDE DEF t, x
    <3>4. Append(t, x) \in Seq(A) /\ Len(Append(t, x)) = n + 1
          /\ (\A i \in 1 .. n : Append(t, x)[i] = t[i]) /\ Append(t, x)[n + 1] = x
      BY <3>2, <3>3, AppendProperties
    <3>5. \A i \in 1 .. n + 1 : s[i] = Append(t, x)[i]
      BY <3>2, <3>4 DEF x
    <3> DEFINE a == Append(t, x)
    <3>6. a \in Seq(A) /\ Len(a) = Len(s) /\ \A i \in 1 .. Len(s) : s[i] = a[i]
      BY <3>4, <3>5
    <3> HIDE DEF a
    <3>7. s = a
      BY <3>6, SeqEqual
    <3> QED
      BY <3>2, <3>3, <3>7 DEF a
  <2>3. t \in S
    BY <1>2, <2>2
  <2> QED
    BY <2>2, <2>3
<1> HIDE DEF D
<1>3. \A n \in Nat : n \in D
  BY <1>1, <1>2, Induction
<1> SUFFICES ASSUME NEW s \in Seq(A) PROVE s \in S
  OBVIOUS
<1>4. Len(s) \in D
  BY <1>3
<1> QED
  BY <1>4 DEF D

IsFlat(f, seqs, n) ==
  f = [i \in 1 .. n |-> IF i = 1 THEN seqs[i] ELSE f[i - 1] \o seqs[i]]

LEMMA FlatExists ==
  ASSUME NEW seqs, NEW n \in Nat
  PROVE  \E f : IsFlat(f, seqs, n)
<1> USE DEF IsFlat
<1> DEFINE D == {j \in Nat : \E f : IsFlat(f, seqs, j)}
<1>1. 0 \in D
  <2> DEFINE f == [i \in 1 .. 0 |-> seqs[i]]
  <2>1. IsFlat(f, seqs, 0)
    <3>1. 1 .. 0 = {}
      OBVIOUS
    <3> QED
      BY <3>1
  <2> QED
    BY <2>1
<1>2. ASSUME NEW j \in Nat, j \in D
      PROVE  j + 1 \in D
  <2>1. PICK f : IsFlat(f, seqs, j)
    BY <1>2
  <2> DEFINE g == [i \in 1 .. j + 1 |-> IF i = j + 1 THEN (IF j = 0 THEN seqs[1] ELSE f[j] \o seqs[j + 1]) ELSE f[i]]
  <2>2. \A i \in 1 .. j + 1 : g[i] = IF i = 1 THEN seqs[i] ELSE g[i - 1] \o seqs[i]
    <3> TAKE i \in 1 .. j + 1
    <3>1. CASE i = j + 1
      <4>1. CASE j = 0
        BY <3>1, <4>1
      <4>2. CASE j # 0
        <5>1. i - 1 = j /\ j \in 1 .. j + 1 /\ j # j + 1 /\ i # 1
          BY <3>1, <4>2
        <5>2. g[i] = f[j] \o seqs[i] /\ g[i - 1] = f[j]
          BY <3>1, <4>2, <5>1
        <5> QED
          BY <5>1, <5>2
      <4> QED
        BY <4>1, <4>2
    <3>2. CASE i # j + 1
      <4>1. i \in 1 .. j /\ (i # 1 => i - 1 \in 1 .. j + 1 /\ i - 1 # j + 1)
        BY <3>2
      <4>2. g[i] = f[i] /\ (i # 1 => g[i - 1] = f[i - 1])
        BY <3>2, <4>1
      <4>3. f[i] = IF i = 1 THEN seqs[i] ELSE f[i - 1] \o seqs[i]
        BY <2>1, <4>1
      <4> QED
        BY <4>2, <4>3
    <3> QED
      BY <3>1, <3>2
  <2>3. g = [i \in 1 .. j + 1 |-> g[i]]
    OBVIOUS
  <2> HIDE DEF g
  <2>4. IsFlat(g, seqs, j + 1)
    BY <2>2, <2>3
  <2>5. \E h : IsFlat(h, seqs, j + 1)
    <3> HIDE DEF IsFlat
    <3> QED
      BY <2>4
  <2> QED
    <3> HIDE DEF IsFlat
    <3> QED
      BY <2>5
<1> HIDE DEF D
<1>3. n \in D
  BY <1>1, <1>2, Induction
<1> QED
  BY <1>3 DEF D

LEMMA FlatIs ==
  ASSUME NEW seqs, NEW n \in Nat, Len(seqs) = n, n # 0
  PROVE  \E f : IsFlat(f, seqs, n) /\ FlattenSeq(seqs) = f[n]
<1> DEFINE Body(f) == [i \in 1 .. Len(seqs) |-> IF i = 1 THEN seqs[i] ELSE f[i - 1] \o seqs[i]]
           g == CHOOSE f : f = Body(f)
<1>1. \E f : f = Body(f)
  <2>1. \E f : IsFlat(f, seqs, n)
    BY FlatExists
  <2> QED
    BY <2>1 DEF IsFlat
<1>2. g = Body(g)
  <2> HIDE DEF Body
  <2> QED
    BY <1>1
<1>3. FlattenSeq(seqs) = g[n]
  BY DEF FlattenSeq
<1> HIDE DEF g
<1>4. IsFlat(g, seqs, n)
  BY <1>2 DEF IsFlat
<1> QED
  BY <1>3, <1>4

LEMMA FlatSteps ==
  ASSUME NEW seqs, NEW n \in Nat, NEW f, IsFlat(f, seqs, n + 1)
  PROVE  f[1] = seqs[1] /\ \A i \in 1 .. n : f[i + 1] = f[i] \o seqs[i + 1]
<1>1. \A i \in 1 .. n + 1 : f[i] = IF i = 1 THEN seqs[i] ELSE f[i - 1] \o seqs[i]
  BY DEF IsFlat
<1>2. 1 \in 1 .. n + 1
  OBVIOUS
<1>3. f[1] = seqs[1]
  BY <1>1, <1>2
<1>4. ASSUME NEW i \in 1 .. n
      PROVE  f[i + 1] = f[i] \o seqs[i + 1]
  <2> DEFINE j == i + 1
  <2>1. j \in 1 .. n + 1 /\ j # 1 /\ j - 1 = i
    OBVIOUS
  <2> HIDE DEF j
  <2>2. f[j] = f[j - 1] \o seqs[j]
    BY <1>1, <2>1
  <2> QED
    BY <2>1, <2>2 DEF j
<1> QED
  BY <1>3, <1>4

(* Flattening is the same, and one more.                                     *)
LEMMA FlatAppend ==
  ASSUME NEW T, NEW seqs \in Seq(Seq(T)), NEW t \in Seq(T)
  PROVE  FlattenSeq(Append(seqs, t)) = FlattenSeq(seqs) \o t
<1> DEFINE n == Len(seqs)
           more == Append(seqs, t)
<1>1. n \in Nat
  OBVIOUS
<1>2. Len(more) = n + 1 /\ more[n + 1] = t /\ \A i \in 1 .. n : more[i] = seqs[i]
  BY AppendProperties
<1> HIDE DEF n, more
<1>3. PICK g : IsFlat(g, more, n + 1) /\ FlattenSeq(more) = g[n + 1]
  <2>1. n + 1 \in Nat /\ n + 1 # 0
    BY <1>1
  <2> QED
    BY <1>2, <2>1, FlatIs
<1>4. g[1] = more[1] /\ \A i \in 1 .. n : g[i + 1] = g[i] \o more[i + 1]
  BY <1>1, <1>3, FlatSteps
<1>5. CASE n = 0
  <2>1. seqs = << >>
    BY <1>5, EmptySeq DEF n
  <2>2. FlattenSeq(seqs) = << >>
    <3>1. Len(seqs) = 0
      BY <1>5 DEF n
    <3> QED
      BY <2>1, <3>1 DEF FlattenSeq
  <2>3. g[n + 1] = t
    BY <1>2, <1>4, <1>5
  <2>4. << >> \o t = t
    OBVIOUS
  <2> QED
    BY <1>3, <2>2, <2>3, <2>4 DEF more
<1>6. CASE n # 0
  <2>1. PICK f : IsFlat(f, seqs, n) /\ FlattenSeq(seqs) = f[n]
    BY <1>1, <1>6, FlatIs DEF n
  <2> DEFINE m == n - 1
  <2>2. m \in Nat /\ m + 1 = n
    BY <1>1, <1>6
  <2> HIDE DEF m
  <2>3. f[1] = seqs[1] /\ \A i \in 1 .. m : f[i + 1] = f[i] \o seqs[i + 1]
    BY <2>1, <2>2, FlatSteps
  <2> DEFINE E == {i \in Nat : i + 1 <= n => f[i + 1] = g[i + 1]}
  <2>4. 0 \in E
    <3>1. 1 \in 1 .. n
      BY <1>1, <1>6
    <3>2. f[1] = g[1]
      BY <1>2, <1>4, <2>3, <3>1
    <3> QED
      BY <3>2
  <2>5. ASSUME NEW i \in Nat, i \in E
        PROVE  i + 1 \in E
    <3> SUFFICES ASSUME i + 1 + 1 <= n PROVE f[i + 1 + 1] = g[i + 1 + 1]
      OBVIOUS
    <3> DEFINE j == i + 1
    <3>1. j \in 1 .. m /\ j \in 1 .. n /\ j + 1 \in 1 .. n /\ f[j] = g[j]
      BY <1>1, <2>2, <2>5
    <3> HIDE DEF j
    <3>2. f[j + 1] = f[j] \o seqs[j + 1] /\ g[j + 1] = g[j] \o more[j + 1]
      BY <1>4, <2>3, <3>1
    <3>3. more[j + 1] = seqs[j + 1]
      BY <1>2, <3>1
    <3> QED
      BY <3>1, <3>2, <3>3 DEF j
  <2> HIDE DEF E
  <2>6. m \in E
    BY <2>2, <2>4, <2>5, Induction
  <2>7. f[n] = g[n]
    BY <1>1, <2>2, <2>6 DEF E
  <2>8. n \in 1 .. n
    BY <1>1, <1>6
  <2>9. g[n + 1] = g[n] \o more[n + 1]
    BY <1>4, <2>8
  <2> QED
    BY <1>2, <1>3, <2>1, <2>7, <2>9 DEF more
<1> QED
  BY <1>5, <1>6

-----------------------------------------------------------------------------
(* What the members of a sequence give, one after the other.                 *)

Spread(F, s) == FlattenSeq([i \in DOMAIN s |-> F[s[i]]])

LEMMA SpreadIs ==
  ASSUME NEW A, NEW T, NEW F \in [A -> Seq(T)]
  PROVE  /\ Spread(F, << >>) = << >>
         /\ \A s \in Seq(A) : \A x \in A : Spread(F, Append(s, x)) = Spread(F, s) \o F[x]
         /\ \A s \in Seq(A) : Spread(F, s) \in Seq(T)
<1> DEFINE G(s) == [i \in DOMAIN s |-> F[s[i]]]
<1>1. Spread(F, << >>) = << >>
  <2> DEFINE e == [i \in DOMAIN << >> |-> F[<< >>[i]]]
  <2>1. e = << >> /\ Len(e) = 0
    OBVIOUS
  <2> HIDE DEF e
  <2>2. FlattenSeq(e) = << >>
    BY <2>1 DEF FlattenSeq
  <2> QED
    BY <2>2 DEF Spread, e
<1>2. ASSUME NEW s \in Seq(A), NEW x \in A
      PROVE  Spread(F, Append(s, x)) = Spread(F, s) \o F[x]
  <2> DEFINE n == Len(s)
             a == Append(s, x)
  <2>1. n \in Nat /\ DOMAIN s = 1 .. n /\ \A i \in 1 .. n : s[i] \in A
    OBVIOUS
  <2>2. DOMAIN a = 1 .. n + 1 /\ a[n + 1] = x /\ \A i \in 1 .. n : a[i] = s[i]
    <3>1. a \in Seq(A) /\ Len(a) = n + 1 /\ a[n + 1] = x /\ \A i \in 1 .. n : a[i] = s[i]
      BY AppendProperties
    <3> HIDE DEF a
    <3> QED
      BY <3>1
  <2> HIDE DEF n, a
  <2>3. F[x] \in Seq(T) /\ \A i \in 1 .. n : F[s[i]] \in Seq(T)
    BY <2>1
  <2> DEFINE gs == [i \in 1 .. n |-> F[s[i]]]
             ga == [i \in 1 .. n + 1 |-> F[a[i]]]
             y  == F[x]
  <2>4. gs \in Seq(Seq(T)) /\ Len(gs) = n
    BY <2>1, <2>3
  <2>5. y \in Seq(T)
    BY <2>3
  <2>6. ga = Append(gs, y)
    <3>1. \A i \in 1 .. n + 1 : ga[i] = IF i = n + 1 THEN y ELSE gs[i]
      BY <2>1, <2>2
    <3>2. ga = [i \in 1 .. n + 1 |-> ga[i]]
      OBVIOUS
    <3>3. Append(gs, y) = [i \in 1 .. n + 1 |-> IF i = n + 1 THEN y ELSE gs[i]]
      <4> HIDE DEF gs, y
      <4>1. Append(gs, y) \in Seq(Seq(T)) /\ Len(Append(gs, y)) = n + 1
            /\ Append(gs, y)[n + 1] = y /\ \A i \in 1 .. n : Append(gs, y)[i] = gs[i]
        BY <2>4, <2>5, AppendProperties
      <4> DEFINE b == Append(gs, y)
      <4>2. b = [i \in 1 .. n + 1 |-> b[i]]
        <5>1. b \in Seq(Seq(T)) /\ Len(b) = n + 1
          BY <4>1
        <5> HIDE DEF b
        <5>2. b \in [1 .. n + 1 -> Seq(T)]
          BY <5>1
        <5> QED
          BY <5>2
      <4>3. \A i \in 1 .. n + 1 : b[i] = IF i = n + 1 THEN y ELSE gs[i]
        BY <2>1, <4>1
      <4> HIDE DEF b
      <4>4. b = [i \in 1 .. n + 1 |-> IF i = n + 1 THEN y ELSE gs[i]]
        BY <4>2, <4>3
      <4> QED
        BY <4>4 DEF b
    <3> HIDE DEF ga, gs, y
    <3> QED
      BY <3>1, <3>2, <3>3
  <2>7. Spread(F, s) = FlattenSeq(gs) /\ Spread(F, a) = FlattenSeq(ga)
    BY <2>1, <2>2 DEF Spread
  <2> HIDE DEF gs, ga, y
  <2>8. FlattenSeq(ga) = FlattenSeq(gs) \o y
    BY <2>4, <2>5, <2>6, FlatAppend
  <2> QED
    BY <2>7, <2>8 DEF a, y
<1>3. Seq(A) \subseteq {s \in Seq(A) : Spread(F, s) \in Seq(T)}
  <2> DEFINE S == {s \in Seq(A) : Spread(F, s) \in Seq(T)}
  <2>1. << >> \in S
    <3>1. << >> \in Seq(A) /\ << >> \in Seq(T)
      OBVIOUS
    <3> QED
      BY <1>1, <3>1
  <2>2. ASSUME NEW s \in Seq(A), NEW x \in A, s \in S
        PROVE  Append(s, x) \in S
    <3>1. Spread(F, s) \in Seq(T) /\ F[x] \in Seq(T)
      BY <2>2
    <3>2. Spread(F, s) \o F[x] \in Seq(T)
      BY <3>1
    <3>3. Append(s, x) \in Seq(A)
      OBVIOUS
    <3> QED
      BY <1>2, <3>2, <3>3
  <2> HIDE DEF S
  <2>3. Seq(A) \subseteq S
    BY <2>1, <2>2, ListInduction
  <2> QED
    BY <2>3 DEF S
<1> QED
  BY <1>1, <1>2, <1>3

LEMMA SpreadGlued ==
  ASSUME NEW A, NEW T, NEW F \in [A -> Seq(T)], NEW s \in Seq(A), NEW t \in Seq(A)
  PROVE  Spread(F, s \o t) = Spread(F, s) \o Spread(F, t)
<1> DEFINE S == {u \in Seq(A) : Spread(F, s \o u) = Spread(F, s) \o Spread(F, u)}
<1>0. /\ Spread(F, << >>) = << >>
      /\ \A u \in Seq(A) : \A x \in A : Spread(F, Append(u, x)) = Spread(F, u) \o F[x]
      /\ \A u \in Seq(A) : Spread(F, u) \in Seq(T)
  BY SpreadIs
<1>1. << >> \in S
  <2>1. s \o << >> = s /\ Spread(F, s) \in Seq(T)
    BY <1>0
  <2>2. Spread(F, s) \o << >> = Spread(F, s)
    BY <2>1
  <2> QED
    BY <1>0, <2>1, <2>2
<1>2. ASSUME NEW u \in Seq(A), NEW x \in A, u \in S
      PROVE  Append(u, x) \in S
  <2>1. s \o Append(u, x) = Append(s \o u, x) /\ s \o u \in Seq(A) /\ Append(u, x) \in Seq(A)
    OBVIOUS
  <2>2. Spread(F, Append(s \o u, x)) = Spread(F, s \o u) \o F[x]
    BY <1>0, <2>1
  <2>3. Spread(F, s \o u) = Spread(F, s) \o Spread(F, u)
    BY <1>2
  <2>4. Spread(F, Append(u, x)) = Spread(F, u) \o F[x]
    BY <1>0
  <2>5. Spread(F, s) \in Seq(T) /\ Spread(F, u) \in Seq(T) /\ F[x] \in Seq(T)
    BY <1>0
  <2> DEFINE a == Spread(F, s)
             b == Spread(F, u)
             c == F[x]
  <2>6. (a \o b) \o c = a \o (b \o c)
    <3> HIDE DEF a, b, c
    <3> QED
      BY <2>5 DEF a, b, c
  <2> HIDE DEF S
  <2>7. Spread(F, s \o Append(u, x)) = Spread(F, s) \o Spread(F, Append(u, x))
    BY <2>1, <2>2, <2>3, <2>4, <2>6
  <2> QED
    BY <2>1, <2>7 DEF S
<1> HIDE DEF S
<1>3. Seq(A) \subseteq S
  BY <1>1, <1>2, ListInduction
<1>4. t \in S
  BY <1>3
<1> QED
  BY <1>4 DEF S

Holds(list, y) == \E x \in 1 .. Len(list) : list[x] = y

Gives(F, s, y) == \E i \in 1 .. Len(s) : Holds(F[s[i]], y)

LEMMA HoldsEither ==
  ASSUME NEW T, NEW a \in Seq(T), NEW b \in Seq(T), NEW y
  PROVE  Holds(a \o b, y) <=> Holds(a, y) \/ Holds(b, y)
<1> DEFINE c == a \o b
           n == Len(a)
           m == Len(b)
<1>1. /\ n \in Nat /\ m \in Nat /\ Len(c) = n + m
      /\ \A i \in 1 .. n + m : c[i] = IF i <= n THEN a[i] ELSE b[i - n]
  OBVIOUS
<1> HIDE DEF c, n, m
<1>2. ASSUME Holds(c, y)
      PROVE  Holds(a, y) \/ Holds(b, y)
  <2>1. PICK i \in 1 .. n + m : c[i] = y
    BY <1>1, <1>2 DEF Holds
  <2>2. CASE i <= n
    <3>1. i \in 1 .. n /\ a[i] = y
      BY <1>1, <2>1, <2>2
    <3> QED
      BY <3>1 DEF Holds, n
  <2>3. CASE ~(i <= n)
    <3>1. i - n \in 1 .. m /\ b[i - n] = y
      BY <1>1, <2>1, <2>3
    <3> QED
      BY <3>1 DEF Holds, m
  <2> QED
    BY <2>2, <2>3
<1>3. ASSUME Holds(a, y)
      PROVE  Holds(c, y)
  <2>1. PICK i \in 1 .. n : a[i] = y
    BY <1>3 DEF Holds, n
  <2>2. i \in 1 .. n + m /\ c[i] = y
    BY <1>1, <2>1
  <2> QED
    BY <1>1, <2>2 DEF Holds
<1>4. ASSUME Holds(b, y)
      PROVE  Holds(c, y)
  <2>1. PICK i \in 1 .. m : b[i] = y
    BY <1>4 DEF Holds, m
  <2> DEFINE j == n + i
  <2>2. j \in 1 .. n + m /\ ~(j <= n) /\ j - n = i
    BY <1>1
  <2> HIDE DEF j
  <2>3. c[j] = y
    BY <1>1, <2>1, <2>2
  <2> QED
    BY <1>1, <2>2, <2>3 DEF Holds
<1> QED
  BY <1>2, <1>3, <1>4 DEF c

LEMMA SpreadHolds ==
  ASSUME NEW A, NEW T, NEW F \in [A -> Seq(T)], NEW y, NEW s \in Seq(A)
  PROVE  Holds(Spread(F, s), y) <=> Gives(F, s, y)
<1> DEFINE S == {u \in Seq(A) : Holds(Spread(F, u), y) <=> Gives(F, u, y)}
<1>0. /\ Spread(F, << >>) = << >>
      /\ \A u \in Seq(A) : \A x \in A : Spread(F, Append(u, x)) = Spread(F, u) \o F[x]
      /\ \A u \in Seq(A) : Spread(F, u) \in Seq(T)
  BY SpreadIs
<1>1. << >> \in S
  <2>1. 1 .. Len(<< >>) = {}
    OBVIOUS
  <2>2. ~Holds(<< >>, y) /\ ~Gives(F, << >>, y)
    BY <2>1 DEF Holds, Gives
  <2> QED
    BY <1>0, <2>2
<1>2. ASSUME NEW u \in Seq(A), NEW x \in A, u \in S
      PROVE  Append(u, x) \in S
  <2> DEFINE w == Append(u, x)
  <2>1. /\ w \in Seq(A) /\ Len(w) = Len(u) + 1 /\ Len(u) \in Nat
        /\ w[Len(u) + 1] = x /\ \A i \in 1 .. Len(u) : w[i] = u[i]
    BY AppendProperties
  <2>2. Spread(F, w) = Spread(F, u) \o F[x] /\ Spread(F, u) \in Seq(T) /\ F[x] \in Seq(T)
    BY <1>0
  <2> HIDE DEF w
  <2>3. Holds(Spread(F, w), y) <=> Gives(F, u, y) \/ Holds(F[x], y)
    <3>1. Holds(Spread(F, u) \o F[x], y) <=> Holds(Spread(F, u), y) \/ Holds(F[x], y)
      BY <2>2, HoldsEither
    <3>2. Holds(Spread(F, u), y) <=> Gives(F, u, y)
      BY <1>2
    <3> QED
      BY <2>2, <3>1, <3>2
  <2>4. Gives(F, w, y) => Gives(F, u, y) \/ Holds(F[x], y)
    <3> SUFFICES ASSUME NEW i \in 1 .. Len(u) + 1, Holds(F[w[i]], y)
                 PROVE  Gives(F, u, y) \/ Holds(F[x], y)
      BY <2>1 DEF Gives
    <3>1. CASE i = Len(u) + 1
      BY <2>1, <3>1
    <3>2. CASE i # Len(u) + 1
      <4>1. i \in 1 .. Len(u)
        BY <2>1, <3>2
      <4> QED
        BY <2>1, <4>1 DEF Gives
    <3> QED
      BY <3>1, <3>2
  <2>5. Gives(F, u, y) => Gives(F, w, y)
    <3> SUFFICES ASSUME NEW i \in 1 .. Len(u), Holds(F[u[i]], y)
                 PROVE  Gives(F, w, y)
      BY DEF Gives
    <3>1. i \in 1 .. Len(w) /\ w[i] = u[i]
      <4>1. Len(w) = Len(u) + 1 /\ Len(u) \in Nat /\ w[i] = u[i]
        BY <2>1
      <4> QED
        BY ONLY <4>1, i \in 1 .. Len(u)
    <3> QED
      BY <3>1 DEF Gives
  <2>6. Holds(F[x], y) => Gives(F, w, y)
    <3>1. Len(u) + 1 \in 1 .. Len(w) /\ w[Len(u) + 1] = x
      BY <2>1
    <3> QED
      BY <3>1 DEF Gives
  <2> QED
    BY <2>1, <2>3, <2>4, <2>5, <2>6 DEF w
<1> HIDE DEF S
<1>3. Seq(A) \subseteq S
  BY <1>1, <1>2, ListInduction
<1>4. s \in S
  BY <1>3
<1> QED
  BY <1>4 DEF S

-----------------------------------------------------------------------------
(* The calls of a stream, out of their fragments.                            *)

Absorbs(f, calls, fragments, n) ==
  f = [i \in 0 .. n |-> IF i = 0 THEN calls ELSE Absorb(f[i - 1], fragments[i])]

LEMMA AbsorbingExists ==
  ASSUME NEW calls, NEW fragments, NEW n \in Nat
  PROVE  \E f : Absorbs(f, calls, fragments, n)
<1> USE DEF Absorbs
<1> DEFINE D == {j \in Nat : \E f : Absorbs(f, calls, fragments, j)}
<1>1. 0 \in D
  <2> DEFINE f == [i \in 0 .. 0 |-> calls]
  <2>1. Absorbs(f, calls, fragments, 0)
    OBVIOUS
  <2> QED
    BY <2>1
<1>2. ASSUME NEW j \in Nat, j \in D
      PROVE  j + 1 \in D
  <2>1. PICK f : Absorbs(f, calls, fragments, j)
    BY <1>2
  <2> DEFINE g == [i \in 0 .. j + 1 |-> IF i = j + 1 THEN Absorb(f[j], fragments[j + 1]) ELSE f[i]]
  <2>2. \A i \in 0 .. j + 1 : g[i] = IF i = 0 THEN calls ELSE Absorb(g[i - 1], fragments[i])
    <3> TAKE i \in 0 .. j + 1
    <3>1. CASE i = 0
      <4>1. 0 \in 0 .. j /\ i # j + 1
        BY <3>1
      <4> QED
        BY <2>1, <3>1, <4>1
    <3>2. CASE i = j + 1
      <4>1. i - 1 = j /\ j \in 0 .. j + 1 /\ j # j + 1 /\ i # 0
        BY <3>2
      <4>2. g[i] = Absorb(f[j], fragments[i]) /\ g[i - 1] = f[j]
        BY <3>2, <4>1
      <4> QED
        BY <4>1, <4>2
    <3>3. CASE i # 0 /\ i # j + 1
      <4>1. i \in 0 .. j /\ i - 1 \in 0 .. j /\ i - 1 \in 0 .. j + 1 /\ i - 1 # j + 1
        BY <3>3
      <4>2. g[i] = f[i] /\ g[i - 1] = f[i - 1]
        BY <3>3, <4>1
      <4>3. f[i] = IF i = 0 THEN calls ELSE Absorb(f[i - 1], fragments[i])
        BY <2>1, <4>1
      <4> QED
        BY <4>2, <4>3
    <3> QED
      BY <3>1, <3>2, <3>3
  <2>3. g = [i \in 0 .. j + 1 |-> g[i]]
    OBVIOUS
  <2> HIDE DEF g
  <2>4. Absorbs(g, calls, fragments, j + 1)
    BY <2>2, <2>3
  <2> QED
    <3> HIDE DEF Absorbs
    <3> QED
      BY <2>4
<1> HIDE DEF D
<1>3. n \in D
  BY <1>1, <1>2, Induction
<1> QED
  BY <1>3 DEF D

LEMMA AbsorbingIs ==
  ASSUME NEW calls, NEW fragments, NEW n \in Nat, Len(fragments) = n
  PROVE  \E f : /\ f[0] = calls /\ Absorbed(calls, fragments) = f[n]
                /\ \A i \in 1 .. n : f[i] = Absorb(f[i - 1], fragments[i])
<1> DEFINE Body(f) == [i \in 0 .. Len(fragments) |-> IF i = 0 THEN calls ELSE Absorb(f[i - 1], fragments[i])]
           g == CHOOSE f : f = Body(f)
<1>1. \E f : f = Body(f)
  <2>1. \E f : Absorbs(f, calls, fragments, n)
    BY AbsorbingExists
  <2> QED
    BY <2>1 DEF Absorbs
<1>2. g = Body(g)
  <2> HIDE DEF Body
  <2> QED
    BY <1>1
<1>3. Absorbed(calls, fragments) = g[n]
  BY DEF Absorbed
<1> HIDE DEF g
<1>4. \A i \in 0 .. n : g[i] = IF i = 0 THEN calls ELSE Absorb(g[i - 1], fragments[i])
  BY <1>2
<1>5. 0 \in 0 .. n /\ \A i \in 1 .. n : i \in 0 .. n /\ i # 0
  OBVIOUS
<1>6. g[0] = calls /\ \A i \in 1 .. n : g[i] = Absorb(g[i - 1], fragments[i])
  BY <1>4, <1>5
<1> QED
  BY <1>3, <1>6

LEMMA AbsorbedNone == \A calls : Absorbed(calls, << >>) = calls
<1> TAKE calls
<1>1. Len(<< >>) = 0 /\ 0 \in Nat
  OBVIOUS
<1>2. PICK f : f[0] = calls /\ Absorbed(calls, << >>) = f[0]
  BY <1>1, AbsorbingIs
<1> QED
  BY <1>2

LEMMA AbsorbedGrows ==
  ASSUME NEW A, NEW calls, NEW s \in Seq(A), NEW x \in A
  PROVE  Absorbed(calls, Append(s, x)) = Absorb(Absorbed(calls, s), x)
<1> DEFINE n == Len(s)
           w == Append(s, x)
           b == s
<1>1. n \in Nat /\ Len(w) = n + 1 /\ w[n + 1] = x /\ \A i \in 1 .. n : w[i] = b[i]
  BY AppendProperties
<1>0. Len(b) = n
  OBVIOUS
<1> HIDE DEF n, w, b
<1>2. PICK f : f[0] = calls /\ Absorbed(calls, b) = f[n] /\ \A i \in 1 .. n : f[i] = Absorb(f[i - 1], b[i])
  BY <1>0, <1>1, AbsorbingIs
<1>3. n + 1 \in Nat
  BY <1>1
<1>4. PICK g : g[0] = calls /\ Absorbed(calls, w) = g[n + 1] /\ \A i \in 1 .. n + 1 : g[i] = Absorb(g[i - 1], w[i])
  BY <1>1, <1>3, AbsorbingIs, SMTT(30)
<1>5. \A i \in 1 .. n : f[i - 1] = g[i - 1] => f[i] = g[i]
  <2> TAKE i \in 1 .. n
  <2>1. i \in 1 .. n + 1
    BY <1>1
  <2> QED
    BY <1>1, <1>2, <1>4, <2>1
<1>6. \A i \in 0 .. n : f[i] = g[i]
  <2>1. f[0] = g[0]
    BY <1>2, <1>4
  <2>2. n \in Nat
    BY <1>1
  <2> QED
    BY ONLY <1>5, <2>1, <2>2, Alike, SMTT(30)
<1>7. f[n] = g[n]
  BY <1>1, <1>6
<1>8. g[n + 1] = Absorb(g[n], x)
  <2>1. n + 1 \in 1 .. n + 1 /\ n + 1 - 1 = n
    BY <1>1
  <2> QED
    BY <1>1, <1>4, <2>1
<1> QED
  BY <1>2, <1>4, <1>7, <1>8 DEF w, b

(* What a client may read, "?" for what a cut has damaged.                   *)
Words ==
  STRING \cup {"", "?", "response.created", "response.output_text.delta", "message", "function_call",
               "response.completed"}

CallRecs == [id : Words, name : Words, arguments : Seq(Words)]

OfIndex(index) == [f \in Fragments |-> IF f.index = index THEN <<f>> ELSE << >>]
Arguments == [f \in Fragments |-> f.arguments]

LEMMA WordsAre == STRING \subseteq Words /\ Seq(STRING) \subseteq Seq(Words) /\ "" \in Words
<1>1. STRING \subseteq Words /\ "" \in Words
  BY DEF Words
<1> DEFINE S == STRING
           T == Words
<1>2. S \subseteq T
  BY <1>1
<1> HIDE DEF S, T
<1>3. Seq(S) \subseteq Seq(T)
  BY <1>2
<1> QED
  BY <1>1, <1>3 DEF S, T

LEMMA PartsOfCalls ==
  /\ Arguments \in [Fragments -> Seq(Words)]
  /\ \A index : OfIndex(index) \in [Fragments -> Seq(Fragments)]
<1>1. \A f \in Fragments : f.arguments \in Seq(Words)
  BY WordsAre DEF Fragments
<1>2. Arguments \in [Fragments -> Seq(Words)]
  BY <1>1 DEF Arguments
<1> DEFINE F == Fragments
<1>3. \A f \in F : <<f>> \in Seq(F) /\ << >> \in Seq(F)
  <2> HIDE DEF F
  <2> QED
    OBVIOUS
<1>4. \A index : OfIndex(index) \in [F -> Seq(F)]
  <2> TAKE index
  <2>1. OfIndex(index) = [f \in F |-> IF f.index = index THEN <<f>> ELSE << >>]
    BY DEF OfIndex
  <2> HIDE DEF F
  <2> QED
    BY <1>3, <2>1
<1> QED
  BY <1>2, <1>4

LEMMA ArgumentsSpread ==
  \A s \in Seq(Fragments) : \A x \in Fragments :
    Spread(Arguments, Append(s, x)) = Spread(Arguments, s) \o Arguments[x]
<1>1. Arguments \in [Fragments -> Seq(Words)]
  BY PartsOfCalls
<1> QED
  BY ONLY <1>1, SpreadIs

(* A call is the fragments of its index, joined.                             *)
CallSound(call, of) ==
  /\ call.arguments = Spread(Arguments, of)
  /\ IF of = << >> THEN call.id = "" ELSE \E i \in 1 .. Len(of) : of[i].id = call.id
  /\ (\E i \in 1 .. Len(of) : of[i].name # "") => call.name # ""

(* The renderer has a call for every index there was a fragment of.          *)
CallsSound(calls, said) ==
  /\ calls \in Seq(CallRecs) /\ said \in Seq(Fragments)
  /\ \A index \in Nat : Spread(OfIndex(index), said) # << >> => index + 1 <= Len(calls)
  /\ \A index \in Nat : index + 1 <= Len(calls) => CallSound(calls[index + 1], Spread(OfIndex(index), said))

Joining(call, fragment) ==
  [id        |-> IF fragment.id # "" THEN fragment.id ELSE call.id,
   name      |-> IF fragment.name # "" THEN fragment.name ELSE call.name,
   arguments |-> call.arguments \o fragment.arguments]

LEMMA NoCallIs == NoCall \in CallRecs /\ CallSound(NoCall, << >>)
<1>1. NoCall = [id |-> "", name |-> "", arguments |-> << >>]
  BY DEF NoCall
<1>2. NoCall.id = "" /\ NoCall.name = "" /\ NoCall.arguments = << >>
  BY <1>1
<1>3. << >> \in Seq(Words)
  OBVIOUS
<1>4. NoCall \in CallRecs
  <2> DEFINE a == ""
             b == << >>
  <2>1. a \in Words /\ b \in Seq(Words) /\ NoCall = [id |-> a, name |-> a, arguments |-> b]
    BY <1>1, <1>3, WordsAre
  <2> HIDE DEF a, b
  <2> QED
    BY <2>1 DEF CallRecs
<1>5. Spread(Arguments, << >>) = << >>
  BY PartsOfCalls, SpreadIs
<1>6. 1 .. Len(<< >>) = {}
  OBVIOUS
<1> QED
  BY <1>2, <1>4, <1>5, <1>6 DEF CallSound

LEMMA JoiningIs ==
  ASSUME NEW call \in CallRecs, NEW of \in Seq(Fragments), NEW fragment \in Fragments, CallSound(call, of)
  PROVE  Joining(call, fragment) \in CallRecs /\ CallSound(Joining(call, fragment), Append(of, fragment))
<1> DEFINE a == call.arguments
           b == fragment.arguments
           i1 == IF fragment.id # "" THEN fragment.id ELSE call.id
           n1 == IF fragment.name # "" THEN fragment.name ELSE call.name
           j == Joining(call, fragment)
           w == Append(of, fragment)
           n == Len(of)
<1>1. a \in Seq(Words) /\ call.id \in Words /\ call.name \in Words
  BY DEF CallRecs
<1>2. b \in Seq(Words) /\ fragment.id \in Words /\ fragment.name \in Words
  BY WordsAre DEF Fragments
<1>3. j = [id |-> i1, name |-> n1, arguments |-> a \o b]
  BY DEF Joining
<1>4. i1 \in Words /\ n1 \in Words
  BY <1>1, <1>2
<1>5. a \o b \in Seq(Words)
  <2> HIDE DEF a, b
  <2> QED
    BY <1>1, <1>2
<1>6. /\ w \in Seq(Fragments) /\ Len(w) = n + 1 /\ n \in Nat /\ w[n + 1] = fragment
      /\ \A i \in 1 .. n : w[i] = of[i]
  BY AppendProperties
<1>7. Spread(Arguments, w) = Spread(Arguments, of) \o Arguments[fragment]
  <2> DEFINE s == of
             x == fragment
  <2>1. s \in Seq(Fragments) /\ x \in Fragments
    OBVIOUS
  <2> HIDE DEF s, x
  <2>2. Spread(Arguments, Append(s, x)) = Spread(Arguments, s) \o Arguments[x]
    BY <2>1, ArgumentsSpread
  <2> QED
    BY <2>2 DEF s, x
<1>8. Arguments[fragment] = b
  BY DEF Arguments
<1>9. a = Spread(Arguments, of)
  BY DEF CallSound
<1>10. w # << >>
  <2>1. Len(<< >>) = 0 /\ n + 1 # 0
    BY <1>6
  <2> HIDE DEF w
  <2> QED
    BY <1>6, <2>1
<1> HIDE DEF i1, n1, j, w, n, a, b
<1>11. j.id = i1 /\ j.name = n1 /\ j.arguments = a \o b
  BY <1>3
<1>12. j \in CallRecs
  <2> DEFINE ab == a \o b
  <2> HIDE DEF ab
  <2>1. j = [id |-> i1, name |-> n1, arguments |-> ab] /\ ab \in Seq(Words)
    BY <1>3, <1>5 DEF ab
  <2> QED
    BY <1>4, <2>1 DEF CallRecs
<1>13. \E i \in 1 .. Len(w) : w[i].id = j.id
  <2>0. n + 1 \in 1 .. Len(w)
    BY <1>6
  <2>1. CASE fragment.id # ""
    BY <1>6, <1>11, <2>0, <2>1 DEF i1
  <2>2. CASE fragment.id = ""
    <3>1. j.id = call.id
      BY <1>11, <2>2 DEF i1
    <3>2. CASE of = << >>
      <4>1. call.id = ""
        BY <3>2 DEF CallSound
      <4> QED
        BY <1>6, <2>0, <2>2, <3>1, <4>1
    <3>3. CASE of # << >>
      <4>1. PICK i \in 1 .. n : of[i].id = call.id
        BY <3>3 DEF CallSound, n
      <4>2. i \in 1 .. Len(w)
        BY <1>6
      <4> QED
        BY <1>6, <3>1, <4>1, <4>2
    <3> QED
      BY <3>2, <3>3
  <2> QED
    BY <2>1, <2>2
<1>14. (\E i \in 1 .. Len(w) : w[i].name # "") => j.name # ""
  <2> SUFFICES ASSUME NEW i \in 1 .. Len(w), w[i].name # "" PROVE j.name # ""
    OBVIOUS
  <2>1. CASE fragment.name # ""
    BY <1>11, <2>1 DEF n1
  <2>2. CASE fragment.name = ""
    <3>1. i # n + 1
      BY <1>6, <2>2
    <3>2. i \in 1 .. n
      <4>1. Len(w) = n + 1 /\ n \in Nat /\ i \in 1 .. Len(w)
        BY <1>6
      <4> QED
        BY ONLY <3>1, <4>1
    <3>3. of[i].name # ""
      BY <1>6, <3>2
    <3>4. call.name # ""
      BY <3>2, <3>3 DEF CallSound, n
    <3> QED
      BY <1>11, <2>2, <3>4 DEF n1
  <2> QED
    BY <2>1, <2>2
<1>15. CallSound(j, w)
  BY <1>7, <1>8, <1>9, <1>10, <1>11, <1>13, <1>14 DEF CallSound
<1> QED
  BY <1>12, <1>15 DEF j, w

Room(calls, at) ==
  calls \o [i \in 1 .. (IF at > Len(calls) THEN at - Len(calls) ELSE 0) |-> NoCall]

LEMMA PaddedIs ==
  ASSUME NEW calls \in Seq(CallRecs), NEW at \in Nat
  PROVE  /\ Room(calls, at) \in Seq(CallRecs)
         /\ Len(Room(calls, at)) = IF at > Len(calls) THEN at ELSE Len(calls)
         /\ \A i \in 1 .. Len(Room(calls, at)) :
              Room(calls, at)[i] = IF i <= Len(calls) THEN calls[i] ELSE NoCall
<1> DEFINE n == Len(calls)
           m == IF at > n THEN at - n ELSE 0
           pad == [i \in 1 .. m |-> NoCall]
           w == calls \o pad
<1>1. n \in Nat /\ m \in Nat
  OBVIOUS
<1>2. NoCall \in CallRecs
  BY NoCallIs
<1>3. pad \in Seq(CallRecs) /\ Len(pad) = m /\ \A i \in 1 .. m : pad[i] = NoCall
  <2> HIDE DEF m
  <2> QED
    BY <1>1, <1>2
<1>4. m = IF at > n THEN at - n ELSE 0
  OBVIOUS
<1> HIDE DEF m, pad
<1>5. w \in Seq(CallRecs) /\ Len(w) = n + m /\ \A i \in 1 .. n + m : w[i] = IF i <= n THEN calls[i] ELSE pad[i - n]
  BY <1>1, <1>3
<1>6. Room(calls, at) = w
  BY DEF Room, pad, m
<1> HIDE DEF w, n
<1>7. \A i \in 1 .. n + m : w[i] = IF i <= n THEN calls[i] ELSE NoCall
  <2> TAKE i \in 1 .. n + m
  <2>1. CASE i <= n
    BY <1>5, <2>1
  <2>2. CASE ~(i <= n)
    <3>1. i - n \in 1 .. m
      BY <1>1, <2>2
    <3> QED
      BY <1>3, <1>5, <2>2, <3>1
  <2> QED
    BY <2>1, <2>2
<1>8. n + m = IF at > n THEN at ELSE n
  BY <1>1, <1>4
<1> QED
  BY <1>5, <1>6, <1>7, <1>8 DEF n

LEMMA ReplacedIs ==
  ASSUME NEW T, NEW list \in Seq(T), NEW at \in 1 .. Len(list), NEW c \in T
  PROVE  /\ [list EXCEPT ![at] = c] \in Seq(T)
         /\ Len([list EXCEPT ![at] = c]) = Len(list)
         /\ \A i \in 1 .. Len(list) : [list EXCEPT ![at] = c][i] = IF i = at THEN c ELSE list[i]
<1> DEFINE n == Len(list)
           w == [list EXCEPT ![at] = c]
<1>1. n \in Nat /\ list \in [1 .. n -> T] /\ DOMAIN list = 1 .. n
  OBVIOUS
<1>2. w = [i \in 1 .. n |-> IF i = at THEN c ELSE list[i]]
  BY <1>1
<1> HIDE DEF w, n
<1>3. w \in [1 .. n -> T]
  BY <1>1, <1>2
<1>4. w \in Seq(T) /\ Len(w) = n
  BY <1>1, <1>3
<1> QED
  BY <1>2, <1>4 DEF w, n

LEMMA OfIndexNext ==
  ASSUME NEW said \in Seq(Fragments), NEW fragment \in Fragments, NEW index
  PROVE  /\ Spread(OfIndex(index), said) \in Seq(Fragments)
         /\ Spread(OfIndex(index), Append(said, fragment)) =
              IF fragment.index = index THEN Append(Spread(OfIndex(index), said), fragment)
              ELSE Spread(OfIndex(index), said)
<1> DEFINE F == OfIndex(index)
           A == Fragments
           x == fragment
           s == said
           t == Spread(F, s)
<1>1. F \in [A -> Seq(A)] /\ x \in A /\ s \in Seq(A)
  BY PartsOfCalls
<1>2. F[x] = IF x.index = index THEN <<x>> ELSE << >>
  BY DEF OfIndex
<1> HIDE DEF F, A, x, s
<1>3. t \in Seq(A) /\ Spread(F, Append(s, x)) = t \o F[x]
  <2>1. /\ \A s1 \in Seq(A) : \A x1 \in A : Spread(F, Append(s1, x1)) = Spread(F, s1) \o F[x1]
        /\ \A s1 \in Seq(A) : Spread(F, s1) \in Seq(A)
    BY ONLY <1>1, SpreadIs
  <2> QED
    BY <1>1, <2>1
<1> HIDE DEF t
<1>4. t \o <<x>> = Append(t, x) /\ t \o << >> = t
  BY <1>1, <1>3
<1> QED
  BY <1>2, <1>3, <1>4 DEF t, F, A, x, s

(* One more fragment.                                                        *)
LEMMA AbsorbIs ==
  ASSUME NEW calls, NEW said, CallsSound(calls, said), NEW fragment \in Fragments
  PROVE  CallsSound(Absorb(calls, fragment), Append(said, fragment))
<1> DEFINE at == fragment.index + 1
           room == Room(calls, at)
           after == Absorb(calls, fragment)
           more == Append(said, fragment)
           n == Len(calls)
           m == Len(room)
           of(index) == Spread(OfIndex(index), said)
           next(index) == Spread(OfIndex(index), more)
<1>1. /\ calls \in Seq(CallRecs) /\ said \in Seq(Fragments)
      /\ \A index \in Nat : of(index) # << >> => index + 1 <= n
      /\ \A index \in Nat : index + 1 <= n => CallSound(calls[index + 1], of(index))
  BY DEF CallsSound
<1>2. fragment.index \in Nat /\ at \in Nat /\ at >= 1
  BY DEF Fragments
<1>3. /\ room \in Seq(CallRecs) /\ m = (IF at > n THEN at ELSE n)
      /\ \A i \in 1 .. m : room[i] = IF i <= n THEN calls[i] ELSE NoCall
  <2> HIDE DEF at
  <2> QED
    BY <1>1, <1>2, PaddedIs
<1>4. after = [room EXCEPT ![at] = Joining(room[at], fragment)]
  <2>1. at \in DOMAIN room
    <3> HIDE DEF room, at
    <3> QED
      BY <1>1, <1>2, <1>3
  <2>2. after = [room EXCEPT ![at] =
          [id        |-> IF fragment.id # "" THEN fragment.id ELSE room[at].id,
           name      |-> IF fragment.name # "" THEN fragment.name ELSE room[at].name,
           arguments |-> room[at].arguments \o fragment.arguments]]
    BY <2>1 DEF Absorb, Room
  <2> QED
    BY <2>2 DEF Joining
<1>5. more \in Seq(Fragments)
  BY <1>1
<1>6. \A index \in Nat :
        /\ of(index) \in Seq(Fragments)
        /\ next(index) = IF fragment.index = index THEN Append(of(index), fragment) ELSE of(index)
  <2> DEFINE s == said
             x == fragment
  <2>1. s \in Seq(Fragments) /\ x \in Fragments
    BY <1>1
  <2> HIDE DEF s, x
  <2>2. \A index : /\ Spread(OfIndex(index), s) \in Seq(Fragments)
                   /\ Spread(OfIndex(index), Append(s, x)) =
                        IF x.index = index THEN Append(Spread(OfIndex(index), s), x)
                        ELSE Spread(OfIndex(index), s)
    BY ONLY <2>1, OfIndexNext
  <2> QED
    BY <2>2 DEF s, x
<1>7. n \in Nat
  BY <1>1
<1>8. at - 1 = fragment.index
  BY <1>2
<1>9. \A index \in Nat : of(index) = << >> /\ next(index) # << >> => index = fragment.index
  BY <1>6
<1> HIDE DEF room, after, more, n, m, of, next
<1>10. m \in Nat /\ at \in 1 .. m /\ n <= m
  BY <1>2, <1>3, <1>7
<1>11. \A index \in Nat : index + 1 <= m => CallSound(room[index + 1], of(index)) /\ room[index + 1] \in CallRecs
  <2> SUFFICES ASSUME NEW index \in Nat, index + 1 <= m
               PROVE  CallSound(room[index + 1], of(index)) /\ room[index + 1] \in CallRecs
    OBVIOUS
  <2> DEFINE i == index + 1
  <2>1. i \in 1 .. m
    BY <1>10
  <2>2. room[i] \in CallRecs
    <3> HIDE DEF i
    <3> QED
      BY <1>3, <2>1 DEF m
  <2>3. room[i] = IF i <= n THEN calls[i] ELSE NoCall
    BY <1>3, <2>1
  <2>4. CASE i <= n
    BY <1>1, <2>2, <2>3, <2>4 DEF of, n
  <2>5. CASE ~(i <= n)
    <3>1. of(index) = << >>
      BY <1>1, <2>5 DEF of, n
    <3> QED
      BY <2>2, <2>3, <2>5, <3>1, NoCallIs
  <2> QED
    BY <2>4, <2>5
<1> DEFINE c == Joining(room[at], fragment)
<1>12. c \in CallRecs /\ CallSound(c, Append(of(fragment.index), fragment))
  <2> DEFINE call == room[at]
             o == of(fragment.index)
  <2>1. call \in CallRecs /\ CallSound(call, o) /\ o \in Seq(Fragments)
    <3>1. fragment.index + 1 <= m
      BY <1>10
    <3> QED
      BY <1>2, <1>6, <1>11, <3>1
  <2> HIDE DEF call, o
  <2>2. Joining(call, fragment) \in CallRecs /\ CallSound(Joining(call, fragment), Append(o, fragment))
    BY <2>1, JoiningIs
  <2> QED
    BY <2>2 DEF call, o
<1> HIDE DEF c
<1>13. /\ after \in Seq(CallRecs) /\ Len(after) = m
       /\ \A i \in 1 .. m : after[i] = IF i = at THEN c ELSE room[i]
  <2> HIDE DEF at
  <2>1. after = [room EXCEPT ![at] = c]
    BY <1>4 DEF c
  <2> QED
    BY <1>3, <1>10, <1>12, <2>1, ReplacedIs DEF m
<1>14. \A index \in Nat : next(index) # << >> => index + 1 <= Len(after)
  <2> SUFFICES ASSUME NEW index \in Nat, next(index) # << >> PROVE index + 1 <= m
    BY <1>13
  <2>1. CASE index = fragment.index
    BY <1>10, <2>1
  <2>2. CASE index # fragment.index
    <3>1. of(index) # << >>
      BY <1>9, <2>2
    <3>2. index + 1 <= n
      BY <1>1, <3>1 DEF of, n
    <3> QED
      BY <1>7, <1>10, <3>2
  <2> QED
    BY <2>1, <2>2
<1>15. \A index \in Nat : index + 1 <= Len(after) => CallSound(after[index + 1], next(index))
  <2> SUFFICES ASSUME NEW index \in Nat, index + 1 <= m PROVE CallSound(after[index + 1], next(index))
    BY <1>13
  <2>0. index + 1 \in 1 .. m
    BY <1>10
  <2>1. CASE index = fragment.index
    <3>1. after[index + 1] = c
      BY <1>13, <2>0, <2>1
    <3>2. next(index) = Append(of(fragment.index), fragment)
      BY <1>6, <2>1
    <3> QED
      BY <1>12, <3>1, <3>2
  <2>2. CASE index # fragment.index
    <3>1. index + 1 # at
      BY <1>2, <2>2
    <3>2. after[index + 1] = room[index + 1]
      BY <1>13, <2>0, <3>1
    <3>3. next(index) = of(index)
      BY <1>6, <2>2
    <3> QED
      BY <1>11, <3>2, <3>3
  <2> QED
    BY <2>1, <2>2
<1> QED
  BY <1>5, <1>13, <1>14, <1>15 DEF CallsSound, next, more, after

LEMMA AbsorbedIs ==
  ASSUME NEW calls, NEW said, CallsSound(calls, said), NEW fragments \in Seq(Fragments)
  PROVE  CallsSound(Absorbed(calls, fragments), said \o fragments)
<1> DEFINE A == Fragments
           S == {s \in Seq(A) : CallsSound(Absorbed(calls, s), said \o s)}
<1>0. said \in Seq(A)
  BY DEF CallsSound
<1>1. << >> \in S
  <2>1. Absorbed(calls, << >>) = calls
    BY AbsorbedNone
  <2>2. said \o << >> = said /\ << >> \in Seq(A)
    BY <1>0
  <2> QED
    BY <2>1, <2>2
<1>2. ASSUME NEW s \in Seq(A), NEW x \in A, s \in S
      PROVE  Append(s, x) \in S
  <2>1. CallsSound(Absorbed(calls, s), said \o s)
    BY <1>2
  <2>2. CallsSound(Absorb(Absorbed(calls, s), x), Append(said \o s, x))
    BY <2>1, AbsorbIs
  <2>3. Absorbed(calls, Append(s, x)) = Absorb(Absorbed(calls, s), x)
    BY AbsorbedGrows
  <2>4. Append(said \o s, x) = said \o Append(s, x) /\ Append(s, x) \in Seq(A)
    <3> HIDE DEF A
    <3> QED
      BY <1>0, SMTT(30)
  <2> QED
    BY <2>2, <2>3, <2>4
<1> HIDE DEF S
<1>3. Seq(A) \subseteq S
  BY <1>1, <1>2, ListInduction
<1>4. fragments \in S
  BY <1>3
<1> QED
  BY <1>4 DEF S

-----------------------------------------------------------------------------
(* The items of the Responses surface.                                       *)

Joined(A, w, s, t) ==
  /\ w \in Seq(A) /\ Len(s) \in Nat /\ Len(t) \in Nat /\ Len(w) = Len(s) + Len(t)
  /\ \A i \in 1 .. Len(s) : w[i] = s[i]
  /\ \A i \in 1 .. Len(t) : w[Len(s) + i] = t[i]
  /\ \A i \in 1 .. Len(w) : i \in 1 .. Len(s) \/ \E j \in 1 .. Len(t) : i = Len(s) + j

LEMMA ConcatIs ==
  ASSUME NEW A, NEW s \in Seq(A), NEW t \in Seq(A)
  PROVE  Joined(A, s \o t, s, t)
<1> DEFINE w == s \o t
           n == Len(s)
           m == Len(t)
<1>1. /\ n \in Nat /\ m \in Nat /\ w \in Seq(A) /\ Len(w) = n + m
      /\ \A i \in 1 .. n : w[i] = s[i]
      /\ \A i \in 1 .. m : w[n + i] = t[i]
  OBVIOUS
<1> HIDE DEF w, n, m
<1>2. ASSUME NEW i \in 1 .. n + m, ~(i \in 1 .. n)
      PROVE  \E j \in 1 .. m : i = n + j
  <2>1. i - n \in 1 .. m /\ i = n + (i - n)
    BY <1>1, <1>2
  <2> QED
    BY <2>1
<1> QED
  BY <1>1, <1>2 DEF Joined, w, n, m

LEMMA SpreadNothing ==
  ASSUME NEW A, NEW T, NEW F \in [A -> Seq(T)], NEW s \in Seq(A),
         \A i \in 1 .. Len(s) : F[s[i]] = << >>
  PROVE  Spread(F, s) = << >>
<1> DEFINE S == {u \in Seq(A) : (\A i \in 1 .. Len(u) : F[u[i]] = << >>) => Spread(F, u) = << >>}
<1>0. /\ Spread(F, << >>) = << >>
      /\ \A u \in Seq(A) : \A x \in A : Spread(F, Append(u, x)) = Spread(F, u) \o F[x]
  BY SpreadIs
<1>1. << >> \in S
  BY <1>0
<1>2. ASSUME NEW u \in Seq(A), NEW x \in A, u \in S
      PROVE  Append(u, x) \in S
  <2> DEFINE w == Append(u, x)
             n == Len(u)
  <2>1. /\ w \in Seq(A) /\ Len(w) = n + 1 /\ n \in Nat
        /\ w[n + 1] = x /\ \A i \in 1 .. n : w[i] = u[i]
    BY AppendProperties
  <2> HIDE DEF w, n
  <2>2. ASSUME \A i \in 1 .. Len(w) : F[w[i]] = << >>
        PROVE  Spread(F, w) = << >>
    <3>1. n + 1 \in 1 .. Len(w) /\ \A i \in 1 .. n : i \in 1 .. Len(w)
      BY <2>1
    <3>2. F[x] = << >> /\ \A i \in 1 .. n : F[u[i]] = << >>
      BY <2>1, <2>2, <3>1
    <3>3. Spread(F, u) = << >>
      BY <1>2, <3>2 DEF n
    <3>4. Spread(F, w) = << >> \o << >>
      BY <1>0, <3>2, <3>3 DEF w
    <3> QED
      BY <3>4
  <2> QED
    BY <2>1, <2>2 DEF w
<1> HIDE DEF S
<1>3. Seq(A) \subseteq S
  BY <1>1, <1>2, ListInduction
<1>4. s \in S
  BY <1>3
<1> QED
  BY <1>4 DEF S

Items ==
  [type : Words, text : Seq(Words), finish : Words, prompt : Nat, completion : Nat, calls : Seq(CallRecs)]

TextItem == [x \in Items |-> IF x.type \in DeltaTypes THEN x.text ELSE << >>]
CallItem == [c \in CallRecs |-> FunctionCallItem(c)]

Closing == {"message", "function_call"}

(* Items by their fields.                                                    *)
ItemOf(a, b, c, d, e, g) ==
  [type |-> a, text |-> b, finish |-> c, prompt |-> d, completion |-> e, calls |-> g]

LEMMA EmptyIn == \A A : << >> \in Seq(A)
OBVIOUS

LEMMA RecordIs ==
  ASSUME NEW a, NEW b, NEW c, NEW d, NEW e, NEW g
  PROVE  /\ ItemOf(a, b, c, d, e, g).type = a
         /\ ItemOf(a, b, c, d, e, g).text = b
         /\ ItemOf(a, b, c, d, e, g).calls = g
BY DEF ItemOf

LEMMA RecordIn ==
  ASSUME NEW a \in Words, NEW b \in Seq(Words), NEW c \in Words, NEW d \in Nat, NEW e \in Nat, NEW g \in Seq(CallRecs)
  PROVE  ItemOf(a, b, c, d, e, g) \in Items
BY DEF ItemOf, Items

LEMMA RecordWithText ==
  ASSUME NEW a, NEW b, NEW c, NEW d, NEW e, NEW g, NEW b2
  PROVE  [ItemOf(a, b, c, d, e, g) EXCEPT !.text = b2] = ItemOf(a, b2, c, d, e, g)
BY DEF ItemOf

LEMMA RecordWithCalls ==
  ASSUME NEW a, NEW b, NEW c, NEW d, NEW e, NEW g, NEW g2
  PROVE  [ItemOf(a, b, c, d, e, g) EXCEPT !.calls = g2] = ItemOf(a, b, c, d, e, g2)
BY DEF ItemOf

WithUsage(x, prompt, completion) == [x EXCEPT !.prompt = prompt, !.completion = completion]

LEMMA RecordWithUsage ==
  ASSUME NEW a, NEW b, NEW c, NEW d, NEW e, NEW g, NEW d2, NEW e2
  PROVE  WithUsage(ItemOf(a, b, c, d, e, g), d2, e2) = ItemOf(a, b, c, d2, e2, g)
<1>1. [ItemOf(a, b, c, d, e, g) EXCEPT !.prompt = d2] = ItemOf(a, b, c, d2, e, g)
  BY DEF ItemOf
<1>2. [ItemOf(a, b, c, d2, e, g) EXCEPT !.completion = e2] = ItemOf(a, b, c, d2, e2, g)
  BY DEF ItemOf
<1> QED
  BY ONLY <1>1, <1>2 DEF WithUsage

LEMMA ItemIs ==
  ASSUME NEW type \in Words
  PROVE  /\ Item(type) = ItemOf(type, << >>, "", 0, 0, << >>)
         /\ Item(type) \in Items /\ Item(type).type = type /\ Item(type).text = << >>
<1> DEFINE a == ""
           b == << >>
           y == Item(type)
<1>1. a \in Words /\ 0 \in Nat
  BY WordsAre
<1>2. b \in Seq(Words) /\ b \in Seq(CallRecs)
  BY EmptyIn
<1>3. y = ItemOf(type, b, a, 0, 0, b)
  BY DEF Item, ItemOf
<1> HIDE DEF a, b, y
<1>4. y \in Items
  BY <1>1, <1>2, <1>3, RecordIn
<1>5. y.type = type /\ y.text = b
  BY <1>3, RecordIs
<1> QED
  BY <1>3, <1>4, <1>5 DEF a, b, y

LEMMA ItemWith ==
  ASSUME NEW type \in Words
  PROVE  /\ \A text \in Seq(Words) :
              LET x == [Item(type) EXCEPT !.text = text]
              IN  x \in Items /\ x.type = type /\ x.text = text
         /\ \A calls \in Seq(CallRecs) :
              LET x == [Item(type) EXCEPT !.calls = calls]
              IN  x \in Items /\ x.type = type /\ x.calls = calls
         /\ \A prompt, completion \in Nat :
              LET x == [Item(type) EXCEPT !.prompt = prompt, !.completion = completion]
              IN  x \in Items /\ x.type = type
<1> DEFINE a == ""
           b == << >>
           y == Item(type)
<1>1. a \in Words /\ 0 \in Nat
  BY WordsAre
<1>2. b \in Seq(Words) /\ b \in Seq(CallRecs)
  BY EmptyIn
<1>0. y = ItemOf(type, b, a, 0, 0, b)
  BY ItemIs
<1> HIDE DEF a, b, y
<1>3. ASSUME NEW text \in Seq(Words)
      PROVE  LET x == [y EXCEPT !.text = text] IN x \in Items /\ x.type = type /\ x.text = text
  <2> DEFINE x == [y EXCEPT !.text = text]
             z == ItemOf(type, text, a, 0, 0, b)
  <2>1. x = z
    <3>1. [ItemOf(type, b, a, 0, 0, b) EXCEPT !.text = text] = z
      BY RecordWithText
    <3> QED
      BY <1>0, <3>1
  <2>2. z \in Items
    BY <1>1, <1>2, RecordIn
  <2>3. z.type = type /\ z.text = text
    BY RecordIs
  <2> HIDE DEF x, z
  <2>4. x \in Items /\ x.type = type /\ x.text = text
    BY <2>1, <2>2, <2>3
  <2> QED
    BY <2>4 DEF x
<1>4. ASSUME NEW calls \in Seq(CallRecs)
      PROVE  LET x == [y EXCEPT !.calls = calls] IN x \in Items /\ x.type = type /\ x.calls = calls
  <2> DEFINE x == [y EXCEPT !.calls = calls]
             z == ItemOf(type, b, a, 0, 0, calls)
  <2>1. x = z
    <3>1. [ItemOf(type, b, a, 0, 0, b) EXCEPT !.calls = calls] = z
      BY RecordWithCalls
    <3> QED
      BY <1>0, <3>1
  <2>2. z \in Items
    BY <1>1, <1>2, RecordIn
  <2>3. z.type = type /\ z.calls = calls
    BY RecordIs
  <2> HIDE DEF x, z
  <2>4. x \in Items /\ x.type = type /\ x.calls = calls
    BY <2>1, <2>2, <2>3
  <2> QED
    BY <2>4 DEF x
<1>5. ASSUME NEW prompt \in Nat, NEW completion \in Nat
      PROVE  LET x == [y EXCEPT !.prompt = prompt, !.completion = completion] IN x \in Items /\ x.type = type
  <2> DEFINE x == [y EXCEPT !.prompt = prompt, !.completion = completion]
             z == ItemOf(type, b, a, prompt, completion, b)
  <2>1. x = z
    <3>1. WithUsage(ItemOf(type, b, a, 0, 0, b), prompt, completion) = z
      BY RecordWithUsage
    <3>2. x = WithUsage(y, prompt, completion)
      BY DEF WithUsage
    <3> QED
      BY <1>0, <3>1, <3>2
  <2>2. z \in Items
    BY <1>1, <1>2, RecordIn
  <2>3. z.type = type
    BY RecordIs
  <2> HIDE DEF x, z
  <2>4. x \in Items /\ x.type = type
    BY <2>1, <2>2, <2>3
  <2> QED
    BY <2>4 DEF x
<1> QED
  BY <1>3, <1>4, <1>5 DEF y

LEMMA ItemTypes ==
  /\ "response.created" \in Words /\ "response.output_text.delta" \in Words /\ "message" \in Words
  /\ "function_call" \in Words /\ "response.completed" \in Words
  /\ "response.created" \notin DeltaTypes /\ "response.output_text.delta" \in DeltaTypes
  /\ "message" \notin DeltaTypes /\ "function_call" \notin DeltaTypes /\ "response.completed" \notin DeltaTypes
BY DEF Words, DeltaTypes

LEMMA PartsOfItems ==
  /\ TextItem \in [Items -> Seq(Words)]
  /\ CallItem \in [CallRecs -> Seq(Items)]
  /\ \A c \in CallRecs :
       CallItem[c] = IF c.name = "" THEN << >> ELSE <<[Item("function_call") EXCEPT !.calls = <<c>>]>>
<1>1. \A x \in Items : x.text \in Seq(Words)
  BY DEF Items
<1>2. TextItem \in [Items -> Seq(Words)]
  BY <1>1 DEF TextItem
<1>3. \A c \in CallRecs : <<c>> \in Seq(CallRecs)
  <2> DEFINE A == CallRecs
  <2>1. \A c \in A : <<c>> \in Seq(A)
    <3> HIDE DEF A
    <3> QED
      OBVIOUS
  <2> QED
    BY <2>1
<1>4. \A c \in CallRecs : [Item("function_call") EXCEPT !.calls = <<c>>] \in Items
  <2> TAKE c \in CallRecs
  <2> DEFINE t == "function_call"
             g == <<c>>
  <2>1. t \in Words /\ g \in Seq(CallRecs)
    BY <1>3, ItemTypes
  <2> HIDE DEF t, g
  <2>2. [Item(t) EXCEPT !.calls = g] \in Items
    BY <2>1, ItemWith
  <2> QED
    BY <2>2 DEF t, g
<1>5. \A c \in CallRecs : FunctionCallItem(c) \in Seq(Items)
  <2> TAKE c \in CallRecs
  <2> DEFINE x == [Item("function_call") EXCEPT !.calls = <<c>>]
             B == Items
  <2>1. x \in B
    BY <1>4
  <2>2. FunctionCallItem(c) = IF c.name = "" THEN << >> ELSE <<x>>
    BY DEF FunctionCallItem
  <2> HIDE DEF x, B
  <2>3. FunctionCallItem(c) \in Seq(B)
    <3>1. << >> \in Seq(B) /\ <<x>> \in Seq(B)
      BY <2>1
    <3> QED
      BY <2>2, <3>1
  <2> QED
    BY <2>3 DEF B
<1>6. CallItem \in [CallRecs -> Seq(Items)]
  BY <1>5 DEF CallItem
<1>7. \A c \in CallRecs : CallItem[c] = FunctionCallItem(c)
  BY DEF CallItem
<1> QED
  BY <1>2, <1>6, <1>7 DEF FunctionCallItem

LEMMA CallItemsAre ==
  ASSUME NEW calls \in Seq(CallRecs)
  PROVE  /\ FunctionCallItems(calls) = Spread(CallItem, calls)
         /\ FunctionCallItems(calls) \in Seq(Items)
<1>1. \A i \in DOMAIN calls : CallItem[calls[i]] = FunctionCallItem(calls[i])
  <2>1. \A i \in DOMAIN calls : calls[i] \in CallRecs
    <3> DEFINE A == CallRecs
    <3> HIDE DEF A
    <3>1. calls \in Seq(A)
      BY DEF A
    <3>2. \A i \in DOMAIN calls : calls[i] \in A
      BY <3>1
    <3> QED
      BY <3>2 DEF A
  <2> QED
    BY <2>1 DEF CallItem
<1>2. FunctionCallItems(calls) = Spread(CallItem, calls)
  BY <1>1 DEF FunctionCallItems, Spread
<1>3. Spread(CallItem, calls) \in Seq(Items)
  <2> DEFINE s == calls
  <2>1. s \in Seq(CallRecs)
    OBVIOUS
  <2>2. CallItem \in [CallRecs -> Seq(Items)]
    BY PartsOfItems
  <2> HIDE DEF s
  <2>3. \A u \in Seq(CallRecs) : Spread(CallItem, u) \in Seq(Items)
    BY ONLY <2>2, SpreadIs
  <2> QED
    BY <2>1, <2>3 DEF s
<1> QED
  BY <1>2, <1>3

(* What follows the text: its message, the calls, and response.completed.    *)
Closes(x, text) ==
  x \in Items /\ x.type \in Closing /\ (x.type = "message" => x.text = text)

Terminal(list, text, calls) ==
  /\ list \in Seq(Items) /\ Spread(TextItem, list) = << >>
  /\ Len(list) >= 1 /\ list[Len(list)].type = "response.completed"
  /\ \A i \in 1 .. Len(list) - 1 : Closes(list[i], text)
  /\ text # << >> => \E i \in 1 .. Len(list) : list[i].type = "message"
  /\ \A j \in 1 .. Len(calls) : calls[j].name # "" =>
       \E i \in 1 .. Len(list) : list[i].type = "function_call" /\ list[i].calls = <<calls[j]>>

LEMMA TypesDiffer ==
  /\ "message" # "function_call" /\ "message" # "response.completed" /\ "function_call" # "response.completed"
  /\ \A t \in {"message", "function_call", "response.completed"} :
       t # "response.created" /\ t # "response.output_text.delta" /\ t \notin DeltaTypes
  /\ "response.created" # "response.output_text.delta"
BY DEF DeltaTypes

LEMMA SingleIs ==
  ASSUME NEW A, NEW x \in A
  PROVE  /\ <<x>> \in Seq(A) /\ Len(<<x>>) = 1 /\ <<x>>[1] = x
         /\ \A i \in 1 .. Len(<<x>>) : <<x>>[i] = x
OBVIOUS

LEMMA NothingIs ==
  ASSUME NEW A
  PROVE  << >> \in Seq(A) /\ Len(<< >>) = 0 /\ 1 .. Len(<< >>) = {}
OBVIOUS

LEMMA MessageIs ==
  ASSUME NEW text \in Seq(Words)
  PROVE  /\ MessageItems(text) \in Seq(Items)
         /\ \A i \in 1 .. Len(MessageItems(text)) : Closes(MessageItems(text)[i], text)
         /\ text # << >> => \E i \in 1 .. Len(MessageItems(text)) : MessageItems(text)[i].type = "message"
<1> DEFINE x == [Item("message") EXCEPT !.text = text]
           m == MessageItems(text)
<1>1. x \in Items /\ x.type = "message" /\ x.text = text
  <2> DEFINE t == "message"
  <2>1. t \in Words
    BY ItemTypes
  <2> HIDE DEF t
  <2>2. LET y == [Item(t) EXCEPT !.text = text] IN y \in Items /\ y.type = t /\ y.text = text
    BY <2>1, ItemWith
  <2> QED
    BY <2>2 DEF t
<1>2. m = IF text = << >> THEN << >> ELSE <<x>>
  BY DEF MessageItems
<1>3. Closes(x, text)
  BY <1>1 DEF Closes, Closing
<1> HIDE DEF x, m
<1>4. CASE text = << >>
  <2>1. m = << >>
    BY <1>2, <1>4
  <2>2. m \in Seq(Items) /\ 1 .. Len(m) = {}
    BY <2>1, NothingIs
  <2> QED
    BY <1>4, <2>2 DEF m
<1>5. CASE text # << >>
  <2>1. m = <<x>>
    BY <1>2, <1>5
  <2>2. m \in Seq(Items) /\ Len(m) = 1 /\ m[1] = x /\ \A i \in 1 .. Len(m) : m[i] = x
    BY <1>1, <2>1, SingleIs
  <2>3. 1 \in 1 .. Len(m)
    BY <2>2
  <2> QED
    BY <1>1, <1>3, <2>2, <2>3 DEF m
<1> QED
  BY <1>4, <1>5

LEMMA CallsAre ==
  ASSUME NEW calls \in Seq(CallRecs), NEW text
  PROVE  /\ FunctionCallItems(calls) \in Seq(Items)
         /\ \A i \in 1 .. Len(FunctionCallItems(calls)) : Closes(FunctionCallItems(calls)[i], text)
         /\ \A j \in 1 .. Len(calls) : calls[j].name # "" =>
              \E i \in 1 .. Len(FunctionCallItems(calls)) :
                /\ FunctionCallItems(calls)[i].type = "function_call"
                /\ FunctionCallItems(calls)[i].calls = <<calls[j]>>
<1> DEFINE f == FunctionCallItems(calls)
           item(c) == [Item("function_call") EXCEPT !.calls = <<c>>]
           n == Len(calls)
<1>1. f = Spread(CallItem, calls) /\ f \in Seq(Items)
  BY CallItemsAre
<1>2. \A j \in 1 .. n : calls[j] \in CallRecs
  <2> DEFINE A == CallRecs
             s == calls
  <2>1. s \in Seq(A)
    OBVIOUS
  <2> HIDE DEF A, s
  <2>2. \A j \in 1 .. Len(s) : s[j] \in A
    BY <2>1
  <2> QED
    BY <2>2 DEF s, A
<1>3. \A c \in CallRecs : item(c) \in Items /\ item(c).type = "function_call" /\ item(c).calls = <<c>>
  <2> TAKE c \in CallRecs
  <2> DEFINE t == "function_call"
             g == <<c>>
             A == CallRecs
  <2>1. t \in Words
    BY ItemTypes
  <2>2. g \in Seq(A)
    <3>1. c \in A
      OBVIOUS
    <3> HIDE DEF A
    <3> QED
      BY <3>1
  <2> HIDE DEF t, g
  <2>3. LET y == [Item(t) EXCEPT !.calls = g] IN y \in Items /\ y.type = t /\ y.calls = g
    BY <2>1, <2>2, ItemWith DEF A
  <2> QED
    BY <2>3 DEF t, g
<1>4. \A c \in CallRecs : CallItem[c] = IF c.name = "" THEN << >> ELSE <<item(c)>>
  BY PartsOfItems
<1>5. \A y : Holds(f, y) <=> Gives(CallItem, calls, y)
  <2> DEFINE s == calls
  <2>1. s \in Seq(CallRecs) /\ CallItem \in [CallRecs -> Seq(Items)]
    BY PartsOfItems
  <2> HIDE DEF s
  <2>2. \A y : Holds(Spread(CallItem, s), y) <=> Gives(CallItem, s, y)
    BY ONLY <2>1, SpreadHolds
  <2> QED
    BY <1>1, <2>2 DEF s
<1> HIDE DEF f, item, n
<1>6. ASSUME NEW i \in 1 .. Len(f)
      PROVE  Closes(f[i], text)
  <2>1. Holds(f, f[i])
    BY DEF Holds
  <2>2. PICK j \in 1 .. n : Holds(CallItem[calls[j]], f[i])
    BY <1>5, <2>1 DEF Gives, n
  <2> DEFINE c == calls[j]
  <2>3. c \in CallRecs
    BY <1>2
  <2> HIDE DEF c
  <2>4. c.name # ""
    <3>1. ~Holds(<< >>, f[i])
      BY NothingIs DEF Holds
    <3> QED
      BY <1>4, <2>2, <2>3, <3>1 DEF c
  <2>5. f[i] = item(c)
    <3>1. Holds(<<item(c)>>, f[i])
      BY <1>4, <2>2, <2>3, <2>4 DEF c
    <3> DEFINE z == item(c)
    <3>2. \A k \in 1 .. Len(<<z>>) : <<z>>[k] = z
      OBVIOUS
    <3> HIDE DEF z
    <3>3. Holds(<<z>>, f[i])
      BY <3>1 DEF z
    <3>4. f[i] = z
      BY <3>2, <3>3 DEF Holds
    <3> QED
      BY <3>4 DEF z
  <2> QED
    BY <1>3, <2>3, <2>5, TypesDiffer DEF Closes, Closing
<1>7. ASSUME NEW j \in 1 .. n, calls[j].name # ""
      PROVE  \E i \in 1 .. Len(f) : f[i].type = "function_call" /\ f[i].calls = <<calls[j]>>
  <2> DEFINE c == calls[j]
             z == item(c)
  <2>1. c \in CallRecs
    BY <1>2
  <2>2. CallItem[c] = <<z>>
    BY <1>4, <1>7, <2>1
  <2>3. Holds(<<z>>, z)
    <3> HIDE DEF z
    <3>1. 1 \in 1 .. Len(<<z>>) /\ <<z>>[1] = z
      OBVIOUS
    <3> QED
      BY <3>1 DEF Holds
  <2>4. Gives(CallItem, calls, z)
    BY <2>2, <2>3 DEF Gives, n
  <2>5. Holds(f, z)
    BY <1>5, <2>4
  <2>6. PICK i \in 1 .. Len(f) : f[i] = z
    BY <2>5 DEF Holds
  <2>7. z.type = "function_call" /\ z.calls = <<c>>
    BY <1>3, <2>1
  <2> QED
    BY <2>6, <2>7
<1> QED
  BY <1>1, <1>6, <1>7 DEF f, n

LEMMA EndingIs ==
  ASSUME NEW prompt \in Nat, NEW completion \in Nat
  PROVE  \E x \in Items : x.type = "response.completed" /\ UsageItem("response.completed", prompt, completion) = <<x>>
<1> DEFINE t == "response.completed"
           x == [Item(t) EXCEPT !.prompt = prompt, !.completion = completion]
<1>1. t \in Words
  BY ItemTypes
<1> HIDE DEF t
<1>2. x \in Items /\ x.type = t
  BY <1>1, ItemWith
<1>3. UsageItem(t, prompt, completion) = <<x>>
  BY DEF UsageItem
<1> HIDE DEF x
<1>4. \E y \in Items : y.type = t /\ UsageItem(t, prompt, completion) = <<y>>
  BY <1>2, <1>3
<1> QED
  BY <1>4 DEF t

LEMMA NoDelta ==
  ASSUME NEW list \in Seq(Items), \A i \in 1 .. Len(list) : list[i].type \notin DeltaTypes
  PROVE  Spread(TextItem, list) = << >>
<1> DEFINE s == list
<1>1. s \in Seq(Items) /\ TextItem \in [Items -> Seq(Words)]
  BY PartsOfItems
<1>2. \A i \in 1 .. Len(s) : s[i] \in Items
  <2> DEFINE A == Items
  <2>1. s \in Seq(A)
    OBVIOUS
  <2> HIDE DEF A, s
  <2>2. \A i \in 1 .. Len(s) : s[i] \in A
    BY <2>1
  <2> QED
    BY <2>2 DEF A
<1>3. \A i \in 1 .. Len(s) : TextItem[s[i]] = << >>
  BY <1>2 DEF TextItem
<1> HIDE DEF s
<1>4. Spread(TextItem, s) = << >>
  BY ONLY <1>1, <1>3, SpreadNothing
<1> QED
  BY <1>4 DEF s

LEMMA TerminalIs ==
  ASSUME NEW rr, rr.text \in Seq(Words), rr.calls \in Seq(CallRecs), rr.prompt \in Nat, rr.completion \in Nat
  PROVE  Terminal(TerminalFrames(rr), rr.text, rr.calls)
<1> DEFINE text == rr.text
           calls == rr.calls
           m == MessageItems(text)
           f == FunctionCallItems(calls)
           a == m \o f
           n == Len(calls)
<1>1. /\ m \in Seq(Items) /\ \A i \in 1 .. Len(m) : Closes(m[i], text)
      /\ text # << >> => \E i \in 1 .. Len(m) : m[i].type = "message"
  BY MessageIs
<1>2. /\ f \in Seq(Items) /\ \A i \in 1 .. Len(f) : Closes(f[i], text)
      /\ \A j \in 1 .. n : calls[j].name # "" =>
           \E i \in 1 .. Len(f) : f[i].type = "function_call" /\ f[i].calls = <<calls[j]>>
  BY CallsAre
<1>3. PICK x \in Items : x.type = "response.completed" /\ UsageItem("response.completed", rr.prompt, rr.completion) = <<x>>
  BY EndingIs
<1> DEFINE u == <<x>>
           w == a \o u
<1>4. TerminalFrames(rr) = w
  BY <1>3 DEF TerminalFrames
<1> HIDE DEF text, calls, m, f, n
<1>5. Joined(Items, a, m, f)
  BY <1>1, <1>2, ConcatIs
<1>6. u \in Seq(Items) /\ Len(u) = 1 /\ u[1] = x
  BY SingleIs
<1> HIDE DEF a, u
<1>7. Joined(Items, w, a, u)
  <2>1. a \in Seq(Items)
    BY <1>5 DEF Joined
  <2> QED
    BY <1>6, <2>1, ConcatIs
<1> HIDE DEF w
<1>8. \A i \in 1 .. Len(a) : Closes(a[i], text)
  <2> TAKE i \in 1 .. Len(a)
  <2>1. CASE i \in 1 .. Len(m)
    BY <1>1, <1>5, <2>1 DEF Joined
  <2>2. CASE \E j \in 1 .. Len(f) : i = Len(m) + j
    BY <1>2, <1>5, <2>2 DEF Joined
  <2> QED
    BY <1>5, <2>1, <2>2 DEF Joined
<1>9. Len(a) \in Nat /\ Len(w) = Len(a) + 1 /\ w \in Seq(Items)
  BY <1>6, <1>7 DEF Joined
<1>10. \A i \in 1 .. Len(w) - 1 : Closes(w[i], text)
  <2>1. Len(w) - 1 = Len(a)
    BY <1>9
  <2> QED
    BY <1>7, <1>8, <2>1 DEF Joined
<1>11. w[Len(w)] = x
  <2>1. 1 \in 1 .. Len(u)
    BY <1>6
  <2>2. w[Len(a) + 1] = u[1]
    BY <1>7, <2>1 DEF Joined
  <2> QED
    BY <1>6, <1>9, <2>2
<1>12. ASSUME NEW i \in 1 .. Len(a)
       PROVE  i \in 1 .. Len(w) /\ w[i] = a[i]
  <2>1. i \in 1 .. Len(w)
    BY <1>9
  <2> QED
    BY <1>7, <2>1 DEF Joined
<1>13. text # << >> => \E i \in 1 .. Len(w) : w[i].type = "message"
  <2> SUFFICES ASSUME text # << >> PROVE \E i \in 1 .. Len(w) : w[i].type = "message"
    OBVIOUS
  <2>1. PICK i \in 1 .. Len(m) : m[i].type = "message"
    BY <1>1
  <2>2. i \in 1 .. Len(a) /\ a[i] = m[i]
    <3>1. Len(a) = Len(m) + Len(f) /\ Len(m) \in Nat /\ Len(f) \in Nat /\ a[i] = m[i]
      BY <1>5 DEF Joined
    <3> QED
      BY <3>1
  <2> QED
    BY <1>12, <2>1, <2>2
<1>14. ASSUME NEW j \in 1 .. n, calls[j].name # ""
       PROVE  \E i \in 1 .. Len(w) : w[i].type = "function_call" /\ w[i].calls = <<calls[j]>>
  <2>1. PICK i \in 1 .. Len(f) : f[i].type = "function_call" /\ f[i].calls = <<calls[j]>>
    BY <1>2, <1>14
  <2> DEFINE k == Len(m) + i
  <2>2. k \in 1 .. Len(a) /\ a[k] = f[i]
    <3>1. Len(a) = Len(m) + Len(f) /\ Len(m) \in Nat /\ Len(f) \in Nat /\ a[Len(m) + i] = f[i]
      BY <1>5 DEF Joined
    <3> QED
      BY <3>1
  <2> HIDE DEF k
  <2> QED
    BY <1>12, <2>1, <2>2
<1>15. Spread(TextItem, w) = << >>
  <2>1. \A i \in 1 .. Len(w) : w[i].type \notin DeltaTypes
    <3> TAKE i \in 1 .. Len(w)
    <3>1. CASE i = Len(w)
      BY <1>3, <1>11, <3>1, TypesDiffer
    <3>2. CASE i # Len(w)
      <4>1. i \in 1 .. Len(w) - 1
        BY <1>9, <3>2
      <4>2. w[i].type \in Closing
        BY <1>10, <4>1 DEF Closes
      <4> QED
        BY <4>2, TypesDiffer DEF Closing
    <3> QED
      BY <3>1, <3>2
  <2> QED
    BY <1>9, <2>1, NoDelta
<1>16. Len(w) >= 1
  BY <1>9
<1>17. Terminal(w, text, calls)
  BY <1>3, <1>9, <1>10, <1>11, <1>13, <1>14, <1>15, <1>16 DEF Terminal, n
<1> QED
  BY <1>4, <1>17 DEF text, calls

(* While the upstream speaks: response.created, and then the text.           *)
OpenRead(list, text) ==
  /\ list \in Seq(Items) /\ Spread(TextItem, list) = text
  /\ \A i \in 1 .. Len(list) :
       list[i].type = IF i = 1 THEN "response.created" ELSE "response.output_text.delta"

LEMMA OpenNone == OpenRead(<< >>, << >>)
<1>1. Spread(TextItem, << >>) = << >>
  BY PartsOfItems, SpreadIs
<1> QED
  BY <1>1, NothingIs DEF OpenRead

LEMMA OpenAppend ==
  ASSUME NEW list, NEW text, OpenRead(list, text), NEW x \in Items,
         x.type = IF list = << >> THEN "response.created" ELSE "response.output_text.delta"
  PROVE  OpenRead(list \o <<x>>, text \o TextItem[x]) /\ list \o <<x>> # << >>
<1> DEFINE s == list
           u == <<x>>
           w == s \o u
<1>1. /\ s \in Seq(Items) /\ Spread(TextItem, s) = text
      /\ \A i \in 1 .. Len(s) : s[i].type = IF i = 1 THEN "response.created" ELSE "response.output_text.delta"
  BY DEF OpenRead
<1>2. u \in Seq(Items) /\ Len(u) = 1 /\ u[1] = x
  BY SingleIs
<1>3. s = << >> <=> Len(s) = 0
  BY <1>1, EmptySeq
<1>0. w = Append(s, x)
  <2> DEFINE A == Items
  <2>1. s \in Seq(A) /\ x \in A
    BY <1>1
  <2> HIDE DEF A, s
  <2> QED
    BY <2>1
<1> HIDE DEF s, u, w
<1>4. Joined(Items, w, s, u)
  BY <1>1, <1>2, ConcatIs DEF w
<1>5. Spread(TextItem, w) = text \o TextItem[x]
  <2>1. TextItem \in [Items -> Seq(Words)]
    BY PartsOfItems
  <2>2. \A s1 \in Seq(Items) : \A x1 \in Items : Spread(TextItem, Append(s1, x1)) = Spread(TextItem, s1) \o TextItem[x1]
    BY ONLY <2>1, SpreadIs
  <2> QED
    BY <1>0, <1>1, <2>2
<1>6. Len(s) \in Nat /\ Len(w) = Len(s) + 1 /\ w \in Seq(Items) /\ w[Len(s) + 1] = x
  <2>1. 1 \in 1 .. Len(u)
    BY <1>2
  <2> QED
    BY <1>2, <1>4, <2>1 DEF Joined
<1>7. \A i \in 1 .. Len(w) : w[i].type = IF i = 1 THEN "response.created" ELSE "response.output_text.delta"
  <2> TAKE i \in 1 .. Len(w)
  <2>1. CASE i = Len(s) + 1
    <3>1. w[i] = x
      BY <1>6, <2>1
    <3>2. i = 1 <=> s = << >>
      BY <1>3, <1>6, <2>1
    <3> QED
      BY <3>1, <3>2 DEF s
  <2>2. CASE i # Len(s) + 1
    <3>1. i \in 1 .. Len(s)
      BY <1>6, <2>2
    <3>2. w[i] = s[i]
      BY <1>4, <3>1 DEF Joined
    <3> QED
      BY <1>1, <3>1, <3>2
  <2> QED
    BY <2>1, <2>2
<1>8. w # << >>
  <2>1. Len(<< >>) = 0 /\ Len(w) # 0
    BY <1>6
  <2> QED
    BY <2>1
<1>9. OpenRead(w, text \o TextItem[x])
  BY <1>5, <1>6, <1>7 DEF OpenRead
<1> QED
  BY <1>8, <1>9 DEF w, s, u

-----------------------------------------------------------------------------
(* The renderer of the Responses surface.                                    *)

ClosedRead(list, text, calls) ==
  \E open, t : OpenRead(open, text) /\ open # << >> /\ Terminal(t, text, calls) /\ list = open \o t

RendererSound(q) ==
  /\ q.created \in BOOLEAN /\ q.finished \in BOOLEAN
  /\ q.text \in Seq(Words) /\ q.calls \in Seq(CallRecs) /\ q.prompt \in Nat /\ q.completion \in Nat

EventSound(ev) ==
  ev.delta \in Seq(Words) /\ ev.calls \in Seq(Fragments) /\ ev.prompt \in Nat /\ ev.completion \in Nat

Ends(ev) == ev.finish # "" \/ ev.done

LEMMA OpenIs ==
  ASSUME NEW list, NEW text, OpenRead(list, text)
  PROVE  list \in Seq(Items) /\ text \in Seq(Words) /\ text \o << >> = text /\ list \o << >> = list
<1>1. list \in Seq(Items) /\ Spread(TextItem, list) = text
  BY DEF OpenRead
<1>2. TextItem \in [Items -> Seq(Words)]
  BY PartsOfItems
<1>3. \A s \in Seq(Items) : Spread(TextItem, s) \in Seq(Words)
  BY ONLY <1>2, SpreadIs
<1>4. text \in Seq(Words)
  BY <1>1, <1>3
<1>5. \A A : \A s \in Seq(A) : s \o << >> = s
  OBVIOUS
<1> QED
  BY <1>1, <1>4, <1>5

LEMMA CreatedIs ==
  ASSUME NEW q, q.created \in BOOLEAN, NEW list, NEW text, OpenRead(list, text), q.created <=> list # << >>
  PROVE  /\ CreatedFrame(q) \in Seq(Items)
         /\ OpenRead(list \o CreatedFrame(q), text) /\ list \o CreatedFrame(q) # << >>
<1> DEFINE t == "response.created"
           x == Item(t)
<1>1. x \in Items /\ x.type = t /\ x.text = << >>
  <2>1. t \in Words
    BY ItemTypes
  <2> HIDE DEF t
  <2> QED
    BY <2>1, ItemIs
<1>2. CreatedFrame(q) = IF q.created THEN << >> ELSE <<x>>
  BY DEF CreatedFrame
<1>3. TextItem[x] = << >>
  BY <1>1, ItemTypes DEF TextItem
<1> HIDE DEF x
<1>4. CASE q.created
  <2>1. CreatedFrame(q) = << >>
    BY <1>2, <1>4
  <2>2. list \o << >> = list
    BY OpenIs
  <2>3. CreatedFrame(q) \in Seq(Items)
    BY <2>1, NothingIs
  <2> QED
    BY <1>4, <2>1, <2>2, <2>3
<1>5. CASE ~q.created
  <2>1. CreatedFrame(q) = <<x>>
    BY <1>2, <1>5
  <2>2. x.type = IF list = << >> THEN "response.created" ELSE "response.output_text.delta"
    BY <1>1, <1>5
  <2>3. OpenRead(list \o <<x>>, text \o TextItem[x]) /\ list \o <<x>> # << >>
    BY <1>1, <2>2, OpenAppend
  <2>4. text \o TextItem[x] = text
    BY <1>3, OpenIs
  <2>5. <<x>> \in Seq(Items)
    BY <1>1, SingleIs
  <2> QED
    BY <2>1, <2>3, <2>4, <2>5
<1> QED
  BY <1>4, <1>5

DeltaFrame(delta) ==
  IF delta = << >> THEN << >> ELSE <<[Item("response.output_text.delta") EXCEPT !.text = delta]>>

LEMMA DeltaIs ==
  ASSUME NEW delta \in Seq(Words), NEW list, NEW text, OpenRead(list, text), list # << >>
  PROVE  /\ DeltaFrame(delta) \in Seq(Items)
         /\ OpenRead(list \o DeltaFrame(delta), text \o delta) /\ list \o DeltaFrame(delta) # << >>
<1> DEFINE t == "response.output_text.delta"
           x == [Item(t) EXCEPT !.text = delta]
<1>1. x \in Items /\ x.type = t /\ x.text = delta
  <2>1. t \in Words
    BY ItemTypes
  <2> HIDE DEF t
  <2> QED
    BY <2>1, ItemWith
<1>2. DeltaFrame(delta) = IF delta = << >> THEN << >> ELSE <<x>>
  BY DEF DeltaFrame
<1>3. TextItem[x] = delta
  BY <1>1, ItemTypes DEF TextItem
<1> HIDE DEF x
<1>4. CASE delta = << >>
  <2>1. DeltaFrame(delta) = << >>
    BY <1>2, <1>4
  <2>2. list \o << >> = list /\ text \o << >> = text
    BY OpenIs
  <2>3. DeltaFrame(delta) \in Seq(Items)
    BY <2>1, NothingIs
  <2> QED
    BY <1>4, <2>1, <2>2, <2>3
<1>5. CASE delta # << >>
  <2>1. DeltaFrame(delta) = <<x>>
    BY <1>2, <1>5
  <2>2. x.type = IF list = << >> THEN "response.created" ELSE "response.output_text.delta"
    BY <1>1
  <2>3. OpenRead(list \o <<x>>, text \o TextItem[x]) /\ list \o <<x>> # << >>
    BY <1>1, <2>2, OpenAppend
  <2>5. <<x>> \in Seq(Items)
    BY <1>1, SingleIs
  <2> QED
    BY <1>3, <2>1, <2>3, <2>5
<1> QED
  BY <1>4, <1>5

LEMMA AccumulateIs ==
  ASSUME NEW q, RendererSound(q), ~q.finished, NEW ev, EventSound(ev),
         Absorbed(q.calls, ev.calls) \in Seq(CallRecs)
  PROVE  LET acc == Accumulate(q, ev)
         IN  /\ RendererSound(acc) /\ acc.created = TRUE /\ (acc.finished <=> Ends(ev))
             /\ acc.text = q.text \o ev.delta /\ acc.calls = Absorbed(q.calls, ev.calls)
<1> DEFINE acc == Accumulate(q, ev)
           a == q.text \o ev.delta
           b == Absorbed(q.calls, ev.calls)
           c == IF ev.prompt # 0 THEN ev.prompt ELSE q.prompt
           d == IF ev.completion # 0 THEN ev.completion ELSE q.completion
           e == ev.finish # "" \/ ev.done
<1>1. acc = [created |-> TRUE, text |-> a, calls |-> b, prompt |-> c, completion |-> d, finished |-> e]
  BY DEF Accumulate
<1>2. a \in Seq(Words)
  <2> DEFINE x == q.text
             y == ev.delta
  <2>1. x \in Seq(Words) /\ y \in Seq(Words)
    BY DEF RendererSound, EventSound
  <2> HIDE DEF x, y
  <2>2. x \o y \in Seq(Words)
    BY <2>1
  <2> QED
    BY <2>2 DEF x, y
<1>3. b \in Seq(CallRecs) /\ c \in Nat /\ d \in Nat
  BY DEF RendererSound, EventSound
<1>4. e \in BOOLEAN /\ (e <=> Ends(ev))
  BY DEF Ends
<1> HIDE DEF acc, a, b, c, d, e
<1>5. acc.created = TRUE /\ acc.text = a /\ acc.calls = b /\ acc.prompt = c /\ acc.completion = d /\ acc.finished = e
  BY <1>1
<1>6. RendererSound(acc)
  BY <1>2, <1>3, <1>4, <1>5 DEF RendererSound
<1> QED
  BY <1>4, <1>5, <1>6 DEF acc, a, b

(* An event on a turn that is open: it stays open, or is closed.             *)
LEMMA RenderIs ==
  ASSUME NEW q, RendererSound(q), ~q.finished, NEW ev, EventSound(ev),
         Absorbed(q.calls, ev.calls) \in Seq(CallRecs),
         NEW list, OpenRead(list, q.text), q.created <=> list # << >>
  PROVE  LET acc == Accumulate(q, ev)
             out == RenderResponses(q, ev)
         IN  /\ ~Ends(ev) => OpenRead(list \o out, acc.text) /\ list \o out # << >>
             /\ Ends(ev) => ClosedRead(list \o out, acc.text, acc.calls) /\ out # << >>
<1> DEFINE acc == Accumulate(q, ev)
           out == RenderResponses(q, ev)
           c == CreatedFrame(q)
           d == DeltaFrame(ev.delta)
           t == TerminalFrames(acc)
           l1 == list \o c
           l2 == l1 \o d
<1>1. /\ RendererSound(acc) /\ acc.text = q.text \o ev.delta
  BY AccumulateIs
<1>2. out = (c \o d) \o (IF Ends(ev) THEN t ELSE << >>)
  BY DEF RenderResponses, DeltaFrame, Ends
<1>3. c \in Seq(Items) /\ OpenRead(l1, q.text) /\ l1 # << >>
  BY CreatedIs DEF RendererSound
<1>4. ev.delta \in Seq(Words)
  BY DEF EventSound
<1> HIDE DEF c, l1
<1>5. d \in Seq(Items) /\ OpenRead(l2, q.text \o ev.delta) /\ l2 # << >>
  BY <1>3, <1>4, DeltaIs
<1>6. list \in Seq(Items)
  BY OpenIs
<1>7. Terminal(t, acc.text, acc.calls)
  BY <1>1, TerminalIs DEF RendererSound
<1>8. t \in Seq(Items) /\ Len(t) >= 1
  BY <1>7 DEF Terminal
<1> HIDE DEF d, l2, t, acc, out
<1>9. list \o (c \o d) = l2 /\ list \o ((c \o d) \o t) = l2 \o t /\ c \o d \in Seq(Items)
  <2> DEFINE A == Items
  <2>1. list \in Seq(A) /\ c \in Seq(A) /\ d \in Seq(A) /\ t \in Seq(A)
    BY <1>3, <1>5, <1>6, <1>8
  <2> HIDE DEF A
  <2>2. list \o (c \o d) = (list \o c) \o d /\ list \o ((c \o d) \o t) = ((list \o c) \o d) \o t
    <3>1. list \o (c \o d) = (list \o c) \o d
      BY ONLY <2>1
    <3> DEFINE cd == c \o d
    <3>2. cd \in Seq(A)
      BY ONLY <2>1
    <3>3. list \o (cd \o t) = (list \o cd) \o t
      <4> HIDE DEF cd
      <4> QED
        BY ONLY <2>1, <3>2
    <3> QED
      BY <3>1, <3>3
  <2>3. c \o d \in Seq(A)
    BY <2>1
  <2> QED
    BY <2>2, <2>3 DEF l1, l2, A
<1>10. CASE ~Ends(ev)
  <2>1. out = (c \o d) \o << >>
    BY <1>2, <1>10
  <2>2. (c \o d) \o << >> = c \o d
    <3> DEFINE w == c \o d
               A == Items
    <3>1. w \in Seq(A)
      BY <1>9
    <3> HIDE DEF w, A
    <3>2. w \o << >> = w
      BY <3>1
    <3> QED
      BY <3>2 DEF w
  <2>3. list \o out = l2
    BY <1>9, <2>1, <2>2
  <2> QED
    BY <1>1, <1>5, <1>10, <2>3 DEF acc, out
<1>11. CASE Ends(ev)
  <2>1. out = (c \o d) \o t
    BY <1>2, <1>11
  <2>2. list \o out = l2 \o t
    BY <1>9, <2>1
  <2>3. ClosedRead(list \o out, acc.text, acc.calls)
    BY <1>1, <1>5, <1>7, <2>2 DEF ClosedRead
  <2>4. out # << >>
    <3> DEFINE w == c \o d
               A == Items
    <3>1. w \in Seq(A) /\ t \in Seq(A)
      BY <1>8, <1>9
    <3> HIDE DEF w, A
    <3>2. Len(w \o t) = Len(w) + Len(t) /\ Len(w) \in Nat /\ Len(t) \in Nat
      BY <3>1
    <3>3. Len(w \o t) # 0
      BY <1>8, <3>2
    <3>4. w \o t # << >>
      BY <3>3
    <3> QED
      BY <2>1, <3>4 DEF w
  <2> QED
    BY <1>11, <2>3, <2>4 DEF acc, out
<1> QED
  BY <1>10, <1>11

(* The end of the stream on a turn that is open.                             *)
LEMMA FinishIs ==
  ASSUME NEW q, RendererSound(q), ~q.finished, NEW list, OpenRead(list, q.text), q.created <=> list # << >>
  PROVE  ClosedRead(list \o FinishResponses(q), q.text, q.calls)
<1> DEFINE c == CreatedFrame(q)
           t == TerminalFrames(q)
           l1 == list \o c
<1>1. FinishResponses(q) = c \o t
  BY DEF FinishResponses
<1>2. c \in Seq(Items) /\ OpenRead(l1, q.text) /\ l1 # << >>
  <2>1. q.created \in BOOLEAN
    BY DEF RendererSound
  <2> QED
    BY <2>1, CreatedIs
<1>3. Terminal(t, q.text, q.calls)
  BY TerminalIs DEF RendererSound
<1>4. t \in Seq(Items) /\ list \in Seq(Items)
  BY <1>3, OpenIs DEF Terminal
<1> HIDE DEF c, t, l1
<1>5. list \o (c \o t) = l1 \o t
  <2> DEFINE A == Items
  <2>1. list \in Seq(A) /\ c \in Seq(A) /\ t \in Seq(A)
    BY <1>2, <1>4
  <2> HIDE DEF A
  <2>2. list \o (c \o t) = (list \o c) \o t
    BY ONLY <2>1
  <2> QED
    BY <2>2 DEF l1
<1> QED
  BY <1>1, <1>2, <1>3, <1>5 DEF ClosedRead

-----------------------------------------------------------------------------
(* The fragments a stream has said.                                          *)

Finishes(frames, list) == {i \in DOMAIN list : frames[list[i]].finish # ""}
HasFinish(frames, list) == Finishes(frames, list) # {}
CallsUpTo(frames, list, m) == FlattenSeq([i \in 1 .. m |-> frames[list[i]].calls])
SaidOf(frames, list) ==
  CallsUpTo(frames, list, IF HasFinish(frames, list) THEN Min(Finishes(frames, list)) ELSE Len(list))

(* The sentinel holds nothing.                                               *)
FramesSound(frames) ==
  /\ frames \in Seq(Frames)
  /\ \A k \in 1 .. Len(frames) : frames[k].type = "[DONE]" => frames[k].finish = "" /\ frames[k].calls = << >>

LEMMA FrameIs ==
  ASSUME NEW frames, FramesSound(frames), NEW k \in 1 .. Len(frames)
  PROVE  frames[k] \in Frames /\ frames[k].calls \in Seq(Fragments)
<1> DEFINE A == Frames
<1>1. frames \in Seq(A)
  BY DEF FramesSound
<1> HIDE DEF A
<1>2. frames[k] \in A
  BY <1>1
<1>3. \A f \in Frames : f.calls \in Seq(Fragments)
  BY DEF Frames
<1> QED
  BY <1>2, <1>3 DEF A

LEMMA SaidIs == Said = SaidOf(answer.frames, got)
BY DEF Said, SaidOf, HasFinish, Finishes, CallsUpTo

LEMMA CallsAlike ==
  ASSUME NEW frames, NEW list, NEW more, NEW m \in Nat, \A i \in 1 .. m : list[i] = more[i]
  PROVE  CallsUpTo(frames, list, m) = CallsUpTo(frames, more, m)
<1>1. [i \in 1 .. m |-> frames[list[i]].calls] = [i \in 1 .. m |-> frames[more[i]].calls]
  OBVIOUS
<1> QED
  BY <1>1 DEF CallsUpTo

LEMMA CallsNext ==
  ASSUME NEW frames, FramesSound(frames), NEW list \in Seq(1 .. Len(frames)), NEW m \in Nat, m + 1 = Len(list)
  PROVE  CallsUpTo(frames, list, m + 1) = CallsUpTo(frames, list, m) \o frames[list[m + 1]].calls
<1> DEFINE T == Fragments
           c(i) == frames[list[i]].calls
           gs == [i \in 1 .. m |-> c(i)]
           ga == [i \in 1 .. m + 1 |-> c(i)]
           y == c(m + 1)
<1>1. \A i \in 1 .. m + 1 : c(i) \in Seq(T)
  <2> TAKE i \in 1 .. m + 1
  <2>1. list[i] \in 1 .. Len(frames)
    <3> DEFINE B == 1 .. Len(frames)
               s == list
    <3>1. s \in Seq(B) /\ i \in 1 .. Len(s)
      OBVIOUS
    <3> HIDE DEF B, s
    <3>2. s[i] \in B
      BY ONLY <3>1
    <3> QED
      BY <3>2 DEF B, s
  <2> QED
    BY <2>1, FrameIs
<1>2. CallsUpTo(frames, list, m) = FlattenSeq(gs) /\ CallsUpTo(frames, list, m + 1) = FlattenSeq(ga)
  BY DEF CallsUpTo
<1> HIDE DEF c, T
<1>3. gs \in Seq(Seq(T)) /\ Len(gs) = m /\ y \in Seq(T)
  <2>1. \A i \in 1 .. m : i \in 1 .. m + 1
    OBVIOUS
  <2>2. gs \in [1 .. m -> Seq(T)] /\ m + 1 \in 1 .. m + 1
    BY <1>1, <2>1
  <2> QED
    BY <1>1, <2>2
<1>4. ga = Append(gs, y)
  <2>1. /\ Append(gs, y) \in Seq(Seq(T)) /\ Len(Append(gs, y)) = m + 1
        /\ Append(gs, y)[m + 1] = y /\ \A i \in 1 .. m : Append(gs, y)[i] = gs[i]
    <3> HIDE DEF gs, y
    <3> QED
      BY <1>3, AppendProperties
  <2> DEFINE b == Append(gs, y)
  <2>2. \A i \in 1 .. m + 1 : b[i] = c(i)
    <3> TAKE i \in 1 .. m + 1
    <3>1. CASE i = m + 1
      BY <2>1, <3>1
    <3>2. CASE i # m + 1
      <4>1. i \in 1 .. m
        BY <3>2
      <4> QED
        BY <2>1, <4>1
    <3> QED
      BY <3>1, <3>2
  <2>3. b \in Seq(Seq(T)) /\ Len(b) = m + 1
    BY <2>1
  <2> HIDE DEF b
  <2>4. b \in [1 .. m + 1 -> Seq(T)]
    BY <2>3
  <2>5. b = [i \in 1 .. m + 1 |-> b[i]]
    BY <2>4
  <2>6. b = ga
    BY <2>2, <2>5
  <2> QED
    BY <2>6 DEF b
<1> HIDE DEF gs, ga, y
<1>5. FlattenSeq(ga) = FlattenSeq(gs) \o y
  BY <1>3, <1>4, FlatAppend
<1> QED
  BY <1>2, <1>5 DEF y, c

LEMMA SaidNone ==
  ASSUME NEW frames
  PROVE  SaidOf(frames, << >>) = << >> /\ ~HasFinish(frames, << >>)
<1>1. Finishes(frames, << >>) = {}
  BY DEF Finishes
<1>2. Len(<< >>) = 0
  OBVIOUS
<1>3. CallsUpTo(frames, << >>, 0) = << >>
  <2> DEFINE e == [i \in 1 .. 0 |-> frames[<< >>[i]].calls]
  <2>1. e = << >> /\ Len(e) = 0
    <3>1. 1 .. 0 = {}
      OBVIOUS
    <3> QED
      BY <3>1
  <2> HIDE DEF e
  <2>2. FlattenSeq(e) = << >>
    BY <2>1 DEF FlattenSeq
  <2> QED
    BY <2>2 DEF CallsUpTo, e
<1> QED
  BY <1>1, <1>2, <1>3 DEF SaidOf, HasFinish

LEMMA MinStays ==
  ASSUME NEW n \in Nat, NEW S \in SUBSET (1 .. n), S # {}, NEW T, T = S \/ T = S \cup {n + 1}
  PROVE  Min(T) = Min(S) /\ Min(S) \in 1 .. n
<1>1. Min(S) \in S /\ \A x \in S : Min(S) <= x
  <2>1. S \in SUBSET Nat
    OBVIOUS
  <2> QED
    BY ONLY <2>1, S # {}, MinIs
<1>2. T # {} /\ T \in SUBSET Nat
  <2>1. \A x \in S : x \in Nat
    OBVIOUS
  <2>2. n + 1 \in Nat
    OBVIOUS
  <2>3. \A x \in T : x \in S \/ x = n + 1
    OBVIOUS
  <2>4. \A x \in T : x \in Nat
    BY ONLY <2>1, <2>2, <2>3
  <2>5. T # {}
    OBVIOUS
  <2> QED
    BY <2>4, <2>5
<1>3. Min(T) \in T /\ \A x \in T : Min(T) <= x
  BY <1>2, MinIs
<1> DEFINE a == Min(S)
           b == Min(T)
<1> HIDE DEF a, b
<1>4. a \in 1 .. n /\ a \in T /\ \A x \in S : a <= x
  BY <1>1 DEF a
<1>5. b \in T /\ b <= a
  BY <1>3, <1>4 DEF b
<1>6. b \in S
  <2>1. b # n + 1
    BY <1>4, <1>5
  <2> QED
    BY <1>5, <2>1
<1>7. a <= b /\ b \in 1 .. n
  BY <1>4, <1>6
<1>8. a = b
  BY <1>4, <1>5, <1>7
<1> QED
  BY <1>4, <1>8 DEF a, b

(* One more frame.                                                           *)
LEMMA SaidNext ==
  ASSUME NEW frames, FramesSound(frames), NEW list \in Seq(1 .. Len(frames)), NEW k \in 1 .. Len(frames)
  PROVE  /\ HasFinish(frames, Append(list, k)) <=> HasFinish(frames, list) \/ frames[k].finish # ""
         /\ HasFinish(frames, list) => SaidOf(frames, Append(list, k)) = SaidOf(frames, list)
         /\ ~HasFinish(frames, list) => SaidOf(frames, Append(list, k)) = SaidOf(frames, list) \o frames[k].calls
<1> DEFINE B == 1 .. Len(frames)
           s == list
           w == Append(s, k)
           n == Len(s)
           S == Finishes(frames, s)
           T == Finishes(frames, w)
<1>1. s \in Seq(B) /\ k \in B
  OBVIOUS
<1> HIDE DEF B, s
<1>2. /\ w \in Seq(B) /\ Len(w) = n + 1 /\ n \in Nat /\ w[n + 1] = k /\ \A i \in 1 .. n : w[i] = s[i]
  BY <1>1, AppendProperties
<1>3. DOMAIN s = 1 .. n /\ DOMAIN w = 1 .. n + 1
  <2>1. DOMAIN s = 1 .. n
    BY <1>1
  <2>2. w \in Seq(B)
    BY <1>2
  <2> HIDE DEF w
  <2>3. DOMAIN w = 1 .. Len(w)
    BY <2>2
  <2> QED
    BY <1>2, <2>1, <2>3
<1> HIDE DEF w, n
<1>4. T = S \cup (IF frames[k].finish # "" THEN {n + 1} ELSE {})
  <2>1. \A i \in 1 .. n : i \in T <=> i \in S
    <3> TAKE i \in 1 .. n
    <3>1. i \in 1 .. n + 1
      BY <1>2
    <3> QED
      BY <1>2, <1>3, <3>1 DEF Finishes
  <2>2. n + 1 \in T <=> frames[k].finish # ""
    <3>1. n + 1 \in 1 .. n + 1
      BY <1>2
    <3> QED
      BY <1>2, <1>3, <3>1 DEF Finishes
  <2>3. S \subseteq 1 .. n /\ T \subseteq 1 .. n + 1
    BY <1>3 DEF Finishes
  <2>4. \A i \in 1 .. n + 1 : i \in 1 .. n \/ i = n + 1
    BY <1>2
  <2>5. n + 1 \notin 1 .. n
    BY <1>2
  <2> HIDE DEF S, T
  <2> QED
    BY <2>1, <2>2, <2>3, <2>4, <2>5
<1>5. S \in SUBSET (1 .. n)
  BY <1>3 DEF Finishes
<1> HIDE DEF S, T
<1>6. HasFinish(frames, s) <=> S # {}
  BY DEF HasFinish, S
<1>7. HasFinish(frames, w) <=> T # {}
  BY DEF HasFinish, T
<1>8. HasFinish(frames, w) <=> HasFinish(frames, s) \/ frames[k].finish # ""
  BY <1>4, <1>6, <1>7
<1>9. CASE S # {}
  <2>1. Min(T) = Min(S) /\ Min(S) \in 1 .. n
    <3>1. T = S \/ T = S \cup {n + 1}
      BY <1>4
    <3>2. n \in Nat
      BY <1>2
    <3> QED
      BY ONLY <1>5, <1>9, <3>1, <3>2, MinStays
  <2>2. T # {}
    BY <1>4, <1>9
  <2> DEFINE m == Min(S)
  <2>3. m \in Nat /\ \A i \in 1 .. m : w[i] = s[i]
    <3>1. m \in 1 .. n
      BY <2>1
    <3> HIDE DEF m
    <3>2. m \in Nat /\ \A i \in 1 .. m : i \in 1 .. n
      BY <1>2, <3>1
    <3> QED
      BY <1>2, <3>2
  <2> HIDE DEF m
  <2>4. CallsUpTo(frames, w, m) = CallsUpTo(frames, s, m)
    BY <2>3, CallsAlike
  <2>5. SaidOf(frames, w) = CallsUpTo(frames, w, m) /\ SaidOf(frames, s) = CallsUpTo(frames, s, m)
    BY <1>6, <1>7, <1>9, <2>1, <2>2 DEF SaidOf, m, S, T
  <2> QED
    BY <1>6, <1>8, <1>9, <2>4, <2>5 DEF w, s
<1>10. CASE S = {}
  <2>1. CallsUpTo(frames, w, n) = CallsUpTo(frames, s, n)
    BY <1>2, CallsAlike
  <2>2. SaidOf(frames, s) = CallsUpTo(frames, s, n)
    BY <1>6, <1>10 DEF SaidOf, n
  <2>3. SaidOf(frames, w) = CallsUpTo(frames, w, n + 1)
    <3>1. CASE T = {}
      BY <1>2, <1>7, <3>1 DEF SaidOf
    <3>2. CASE T # {}
      <4>1. T = {n + 1}
        BY <1>4, <1>10, <3>2
      <4>2. Min(T) = n + 1
        <5>1. T \in SUBSET Nat /\ T # {}
          BY <1>2, <4>1
        <5>2. Min(T) \in T
          BY <5>1, MinIs
        <5> QED
          BY <4>1, <5>2
      <4> QED
        BY <1>7, <3>2, <4>2 DEF SaidOf, T
    <3> QED
      BY <3>1, <3>2
  <2>4. CallsUpTo(frames, w, n + 1) = CallsUpTo(frames, w, n) \o frames[w[n + 1]].calls
    <3>1. w \in Seq(1 .. Len(frames)) /\ n \in Nat /\ n + 1 = Len(w)
      BY <1>2 DEF B
    <3>2. FramesSound(frames)
      OBVIOUS
    <3> QED
      BY ONLY <3>1, <3>2, CallsNext
  <2> QED
    BY <1>2, <1>6, <1>8, <1>10, <2>1, <2>2, <2>3, <2>4 DEF w, s
<1> QED
  BY <1>9, <1>10

(* What a reader makes of a frame: no event, or one.                         *)
FrameSound(frame) ==
  /\ frame.text \in Seq(Words) /\ frame.calls \in Seq(Fragments)
  /\ frame.prompt \in Nat /\ frame.completion \in Nat
  /\ frame.type = "[DONE]" => frame.finish = "" /\ frame.calls = << >>

Yields(kind, frame, ev) ==
  EventSound(ev) /\ (kind = "openai" => ev.calls = frame.calls /\ (Ends(ev) <=> frame.finish # ""))

Decoded(kind, frame, evs) ==
  \/ evs = << >> /\ (kind = "openai" => frame.type = "[DONE]")
  \/ \E ev : evs = <<ev>> /\ Yields(kind, frame, ev)

EventOf(a, b, c, d, e, g) ==
  [delta |-> a, finish |-> b, prompt |-> c, completion |-> d, done |-> e, calls |-> g]

LEMMA EventIs ==
  ASSUME NEW a \in Seq(Words), NEW b, NEW c \in Nat, NEW d \in Nat, NEW e, NEW g \in Seq(Fragments)
  PROVE  /\ EventSound(EventOf(a, b, c, d, e, g))
         /\ EventOf(a, b, c, d, e, g).finish = b /\ EventOf(a, b, c, d, e, g).done = e
         /\ EventOf(a, b, c, d, e, g).calls = g
<1> DEFINE x == EventOf(a, b, c, d, e, g)
<1>1. x.delta = a /\ x.finish = b /\ x.prompt = c /\ x.completion = d /\ x.done = e /\ x.calls = g
  BY DEF EventOf
<1> HIDE DEF x
<1>2. EventSound(x)
  BY <1>1 DEF EventSound
<1> QED
  BY <1>1, <1>2 DEF x

LEMMA EventIsOne ==
  ASSUME NEW kind, kind # "openai", NEW frame, NEW a \in Seq(Words), NEW b, NEW c \in Nat, NEW d \in Nat, NEW e
  PROVE  Decoded(kind, frame, <<EventOf(a, b, c, d, e, << >>)>>)
<1> DEFINE g == << >>
           x == EventOf(a, b, c, d, e, g)
<1>1. g \in Seq(Fragments)
  BY EmptyIn
<1> HIDE DEF g
<1>2. EventSound(x)
  BY <1>1, EventIs
<1> HIDE DEF x
<1>3. Decoded(kind, frame, <<x>>)
  BY <1>2 DEF Decoded, Yields
<1> QED
  BY <1>3 DEF x, g

WithFinish(x, finish, completion) == [x EXCEPT !.finish = finish, !.completion = completion]
WithStop(x, finish, done) == [x EXCEPT !.finish = finish, !.done = done]

LEMMA EventWithDelta ==
  ASSUME NEW a, NEW b, NEW c, NEW d, NEW e, NEW g, NEW y
  PROVE  [EventOf(a, b, c, d, e, g) EXCEPT !.delta = y] = EventOf(y, b, c, d, e, g)
BY DEF EventOf

LEMMA EventWithPrompt ==
  ASSUME NEW a, NEW b, NEW c, NEW d, NEW e, NEW g, NEW y
  PROVE  [EventOf(a, b, c, d, e, g) EXCEPT !.prompt = y] = EventOf(a, b, y, d, e, g)
BY DEF EventOf

LEMMA EventWithBoth ==
  ASSUME NEW a, NEW b, NEW c, NEW d, NEW e, NEW g, NEW y, NEW z
  PROVE  /\ WithFinish(EventOf(a, b, c, d, e, g), y, z) = EventOf(a, y, c, z, e, g)
         /\ WithStop(EventOf(a, b, c, d, e, g), y, z) = EventOf(a, y, c, d, z, g)
<1>1. [EventOf(a, b, c, d, e, g) EXCEPT !.finish = y] = EventOf(a, y, c, d, e, g)
  BY DEF EventOf
<1>2. [EventOf(a, y, c, d, e, g) EXCEPT !.completion = z] = EventOf(a, y, c, z, e, g)
  BY DEF EventOf
<1>3. [EventOf(a, y, c, d, e, g) EXCEPT !.done = z] = EventOf(a, y, c, d, z, g)
  BY DEF EventOf
<1>4. WithFinish(EventOf(a, b, c, d, e, g), y, z) = EventOf(a, y, c, z, e, g)
  BY ONLY <1>1, <1>2 DEF WithFinish
<1>5. WithStop(EventOf(a, b, c, d, e, g), y, z) = EventOf(a, y, c, d, z, g)
  BY ONLY <1>1, <1>3 DEF WithStop
<1> QED
  BY <1>4, <1>5

LEMMA AnthropicIs ==
  ASSUME NEW kind, kind # "openai", NEW frame, FrameSound(frame)
  PROVE  Decoded(kind, frame, DecodeAnthropic(frame))
<1> DEFINE n == << >>
           z == ""
           o == FALSE
           y == Event
           text == frame.text
           prompt == frame.prompt
           completion == frame.completion
           f == AnthropicFinish(frame.finish)
           s == "stop"
           t == TRUE
<1>1. n \in Seq(Words) /\ text \in Seq(Words) /\ prompt \in Nat /\ completion \in Nat /\ 0 \in Nat
  BY EmptyIn DEF FrameSound
<1>2. y = EventOf(n, z, 0, 0, o, n)
  BY DEF Event, EventOf
<1>3. /\ frame.type = "content_block_delta" => DecodeAnthropic(frame) = <<[y EXCEPT !.delta = text]>>
      /\ frame.type = "message_start" => DecodeAnthropic(frame) = <<[y EXCEPT !.prompt = prompt]>>
  BY DEF DecodeAnthropic
<1>4. frame.type = "message_delta" => DecodeAnthropic(frame) = <<WithFinish(y, f, completion)>>
  BY DEF DecodeAnthropic, WithFinish
<1>5. frame.type = "message_stop" => DecodeAnthropic(frame) = <<WithStop(y, s, t)>>
  BY DEF DecodeAnthropic, WithStop
<1>6. frame.type \notin {"content_block_delta", "message_start", "message_delta", "message_stop"} =>
        DecodeAnthropic(frame) = << >>
  BY DEF DecodeAnthropic
<1>7. \A a \in Seq(Words) : \A c, d \in Nat : \A b, e : Decoded(kind, frame, <<EventOf(a, b, c, d, e, n)>>)
  BY EventIsOne
<1> HIDE DEF n, z, o, y, text, prompt, completion, f, s, t
<1>8. [y EXCEPT !.delta = text] = EventOf(text, z, 0, 0, o, n) /\ [y EXCEPT !.prompt = prompt] = EventOf(n, z, prompt, 0, o, n)
  <2>1. [EventOf(n, z, 0, 0, o, n) EXCEPT !.delta = text] = EventOf(text, z, 0, 0, o, n)
    BY EventWithDelta
  <2>2. [EventOf(n, z, 0, 0, o, n) EXCEPT !.prompt = prompt] = EventOf(n, z, prompt, 0, o, n)
    BY EventWithPrompt
  <2> QED
    BY <1>2, <2>1, <2>2
<1>9. WithFinish(y, f, completion) = EventOf(n, f, 0, completion, o, n) /\ WithStop(y, s, t) = EventOf(n, s, 0, 0, t, n)
  BY <1>2, EventWithBoth
<1>10. CASE frame.type = "content_block_delta"
  <2>1. Decoded(kind, frame, <<EventOf(text, z, 0, 0, o, n)>>)
    BY ONLY <1>1, <1>7
  <2>2. DecodeAnthropic(frame) = <<EventOf(text, z, 0, 0, o, n)>>
    BY ONLY <1>3, <1>8, <1>10
  <2> QED
    BY <2>1, <2>2
<1>11. CASE frame.type = "message_start"
  <2>1. Decoded(kind, frame, <<EventOf(n, z, prompt, 0, o, n)>>)
    BY ONLY <1>1, <1>7
  <2>2. DecodeAnthropic(frame) = <<EventOf(n, z, prompt, 0, o, n)>>
    BY ONLY <1>3, <1>8, <1>11
  <2> QED
    BY <2>1, <2>2
<1>12. CASE frame.type = "message_delta"
  BY <1>1, <1>4, <1>7, <1>9, <1>12
<1>13. CASE frame.type = "message_stop"
  BY <1>1, <1>5, <1>7, <1>9, <1>13
<1>14. CASE frame.type \notin {"content_block_delta", "message_start", "message_delta", "message_stop"}
  BY <1>6, <1>14 DEF Decoded
<1> QED
  BY <1>10, <1>11, <1>12, <1>13, <1>14

LEMMA GoogleIs ==
  ASSUME NEW kind, kind # "openai", NEW frame, FrameSound(frame)
  PROVE  Decoded(kind, frame, DecodeGoogle(frame))
<1> DEFINE f == GoogleFinish(frame.finish)
           e == frame.finish # ""
           x == EventOf(frame.text, f, frame.prompt, frame.completion, e, << >>)
<1>0. frame.text \in Seq(Words) /\ frame.prompt \in Nat /\ frame.completion \in Nat
  BY DEF FrameSound
<1>1. DecodeGoogle(frame) = << >> \/ DecodeGoogle(frame) = <<x>>
  BY DEF DecodeGoogle, EventOf
<1> HIDE DEF f, e
<1>2. Decoded(kind, frame, <<x>>)
  BY <1>0, EventIsOne
<1> HIDE DEF x
<1> QED
  BY <1>1, <1>2 DEF Decoded

LEMMA OpenAIIs ==
  ASSUME NEW kind, NEW frame, FrameSound(frame)
  PROVE  Decoded(kind, frame, DecodeOpenAI(frame))
<1> DEFINE e == frame.finish # ""
           x == EventOf(frame.text, frame.finish, frame.prompt, frame.completion, e, frame.calls)
<1>0. /\ frame.text \in Seq(Words) /\ frame.prompt \in Nat /\ frame.completion \in Nat
      /\ frame.calls \in Seq(Fragments)
  BY DEF FrameSound
<1>1. DecodeOpenAI(frame) = <<x>>
  BY DEF DecodeOpenAI, EventOf
<1> DEFINE text == frame.text
           finish == frame.finish
           prompt == frame.prompt
           completion == frame.completion
           calls == frame.calls
<1>2. EventSound(x) /\ x.finish = finish /\ x.done = e /\ x.calls = calls
  <2>1. text \in Seq(Words) /\ prompt \in Nat /\ completion \in Nat /\ calls \in Seq(Fragments)
    BY <1>0
  <2> DEFINE w == EventOf(text, finish, prompt, completion, e, calls)
  <2>2. x = w
    OBVIOUS
  <2> HIDE DEF text, finish, prompt, completion, calls, e, x
  <2>3. EventSound(w) /\ w.finish = finish /\ w.done = e /\ w.calls = calls
    BY <2>1, EventIs
  <2> QED
    BY <2>2, <2>3
<1> HIDE DEF x
<1>3. Ends(x) <=> frame.finish # ""
  BY <1>2 DEF Ends
<1>4. Yields(kind, frame, x)
  BY <1>2, <1>3 DEF Yields
<1> QED
  BY <1>1, <1>4 DEF Decoded

LEMMA DecodeIs ==
  ASSUME NEW kind, NEW frame, FrameSound(frame)
  PROVE  Decoded(kind, frame, Decode(kind, frame))
<1>1. CASE frame.type = "[DONE]"
  <2>1. Decode(kind, frame) = << >>
    BY <1>1 DEF Decode
  <2> QED
    BY <1>1, <2>1 DEF Decoded
<1>2. CASE frame.type # "[DONE]"
  <2>1. CASE kind = "anthropic"
    <3>1. Decode(kind, frame) = DecodeAnthropic(frame)
      BY <1>2, <2>1 DEF Decode
    <3> QED
      BY <2>1, <3>1, AnthropicIs
  <2>2. CASE kind = "google"
    <3>1. Decode(kind, frame) = DecodeGoogle(frame)
      BY <1>2, <2>2 DEF Decode
    <3> QED
      BY <2>2, <3>1, GoogleIs
  <2>3. CASE kind # "anthropic" /\ kind # "google"
    <3>1. Decode(kind, frame) = DecodeOpenAI(frame)
      BY <1>2, <2>3 DEF Decode
    <3> QED
      BY <3>1, OpenAIIs
  <2> QED
    BY <2>1, <2>2, <2>3
<1> QED
  BY <1>1, <1>2

(* The frame of a payload, whether a cut has damaged it or not.              *)
LEMMA FrameOfIs ==
  ASSUME FramesSound(answer.frames), NEW payload, payload.frame \in 1 .. Len(answer.frames)
  PROVE  /\ FrameSound(FrameOf(payload))
         /\ FrameOf(payload).type = answer.frames[payload.frame].type
         /\ FrameOf(payload).finish = answer.frames[payload.frame].finish
         /\ FrameOf(payload).calls = answer.frames[payload.frame].calls
<1> DEFINE frame == answer.frames[payload.frame]
           shown == [i \in DOMAIN frame.text |-> IF frame.text[i] \in Wide THEN "?" ELSE frame.text[i]]
           x == FrameOf(payload)
<1>1. frame \in Frames /\ (frame.type = "[DONE]" => frame.finish = "" /\ frame.calls = << >>)
  <2>1. frame \in Frames
    BY FrameIs
  <2>2. frame.type = "[DONE]" => frame.finish = "" /\ frame.calls = << >>
    BY DEF FramesSound
  <2> QED
    BY <2>1, <2>2
<1>2. frame.text \in Seq(Words)
  <2>1. frame.text \in Seq(STRING)
    BY <1>1 DEF Frames
  <2> QED
    BY <2>1, WordsAre
<1>3. frame.calls \in Seq(Fragments) /\ frame.prompt \in Nat /\ frame.completion \in Nat
  BY <1>1 DEF Frames
<1>4. shown \in Seq(Words)
  <2> DEFINE text == frame.text
             W == Words
             q == "?"
             s == [i \in DOMAIN text |-> IF text[i] \in Wide THEN q ELSE text[i]]
  <2>1. text \in Seq(W) /\ q \in W
    BY <1>2 DEF Words
  <2> HIDE DEF text, W, q
  <2>2. s \in Seq(W)
    <3>1. DOMAIN text = 1 .. Len(text) /\ Len(text) \in Nat /\ \A i \in 1 .. Len(text) : text[i] \in W
      BY <2>1
    <3>2. s \in [1 .. Len(text) -> W]
      BY <2>1, <3>1
    <3> QED
      BY <3>1, <3>2
  <2> QED
    BY <2>2 DEF s, text, W, q
<1>5. x = IF payload.intact THEN frame ELSE [frame EXCEPT !.text = shown]
  BY DEF FrameOf
<1> HIDE DEF x, shown, frame
<1>6. CASE payload.intact
  <2>1. x = frame
    BY <1>5, <1>6
  <2> QED
    BY <1>1, <1>2, <1>3, <2>1 DEF FrameSound, x, frame
<1>7. CASE ~payload.intact
  <2>1. x = [frame EXCEPT !.text = shown]
    BY <1>5, <1>7
  <2>2. /\ x.text = shown /\ x.type = frame.type /\ x.finish = frame.finish /\ x.calls = frame.calls
        /\ x.prompt = frame.prompt /\ x.completion = frame.completion
    BY <1>1, <2>1 DEF Frames
  <2>3. FrameSound(x)
    BY <1>1, <1>3, <1>4, <2>2 DEF FrameSound
  <2> QED
    BY <2>2, <2>3 DEF x, frame
<1> QED
  BY <1>6, <1>7

-----------------------------------------------------------------------------
(* A turn of the Responses surface, payload by payload.                      *)

(* The renderer's calls are made of the fragments said before the finish.    *)
Heeds(frames, kind, calls, list) ==
  \E said : CallsSound(calls, said) /\ (kind = "openai" => said = SaidOf(frames, list))

TurnGood(frames, kind, x) ==
  /\ x.got \in Seq(1 .. Len(frames))
  /\ RendererSound(x.r)
  /\ x.ended \in BOOLEAN /\ (x.ended <=> x.r.finished)
  /\ Heeds(frames, kind, x.r.calls, x.got)
  /\ x.ended => ClosedRead(x.read, x.r.text, x.r.calls)
  /\ ~x.ended => OpenRead(x.read, x.r.text) /\ (x.r.created <=> x.read # << >>)
  /\ kind = "openai" => (x.ended <=> HasFinish(frames, x.got))

LEMMA ClosedIs ==
  ASSUME NEW list, NEW text, NEW calls, ClosedRead(list, text, calls)
  PROVE  list \in Seq(Items)
<1>1. PICK open, t : OpenRead(open, text) /\ Terminal(t, text, calls) /\ list = open \o t
  BY DEF ClosedRead
<1>2. open \in Seq(Items) /\ t \in Seq(Items)
  BY <1>1 DEF OpenRead, Terminal
<1> DEFINE A == Items
<1> HIDE DEF A
<1>3. open \in Seq(A) /\ t \in Seq(A)
  BY <1>2 DEF A
<1>4. open \o t \in Seq(A)
  BY ONLY <1>3
<1> QED
  BY <1>1, <1>4 DEF A

LEMMA TurnRead ==
  ASSUME NEW frames, NEW kind, NEW x, TurnGood(frames, kind, x)
  PROVE  x.read \in Seq(Items) /\ x.read \o << >> = x.read
<1>1. x.read \in Seq(Items)
  <2>1. CASE x.ended
    <3>1. ClosedRead(x.read, x.r.text, x.r.calls)
      BY <2>1 DEF TurnGood
    <3> QED
      BY <3>1, ClosedIs
  <2>2. CASE ~x.ended
    BY <2>2 DEF TurnGood, OpenRead
  <2> QED
    BY <2>1, <2>2 DEF TurnGood
<1> DEFINE s == x.read
           A == Items
<1>2. s \in Seq(A)
  BY <1>1
<1> HIDE DEF s, A
<1>3. s \o << >> = s
  BY <1>2
<1> QED
  BY <1>1, <1>3 DEF s

(* A payload without an event changes nothing but what has been read.        *)
LEMMA QuietIs ==
  ASSUME NEW frames, FramesSound(frames), NEW kind, NEW x, TurnGood(frames, kind, x),
         NEW k \in 1 .. Len(frames), kind = "openai" => frames[k].type = "[DONE]",
         NEW y, y.got = Append(x.got, k), y.r = x.r, y.read = x.read, y.ended = x.ended
  PROVE  TurnGood(frames, kind, y)
<1> DEFINE list == x.got
           B == 1 .. Len(frames)
<1>1. list \in Seq(B) /\ k \in B
  BY DEF TurnGood
<1>2. Append(list, k) \in Seq(B)
  <2> HIDE DEF list, B
  <2> QED
    BY <1>1
<1>3. kind = "openai" => /\ HasFinish(frames, Append(list, k)) <=> HasFinish(frames, list)
                         /\ SaidOf(frames, list) \in Seq(Fragments) => SaidOf(frames, Append(list, k)) = SaidOf(frames, list)
  <2> SUFFICES ASSUME kind = "openai"
               PROVE  /\ HasFinish(frames, Append(list, k)) <=> HasFinish(frames, list)
                      /\ SaidOf(frames, list) \in Seq(Fragments) => SaidOf(frames, Append(list, k)) = SaidOf(frames, list)
    OBVIOUS
  <2>1. frames[k].finish = "" /\ frames[k].calls = << >>
    BY DEF FramesSound
  <2> HIDE DEF list
  <2>2. /\ HasFinish(frames, Append(list, k)) <=> HasFinish(frames, list) \/ frames[k].finish # ""
        /\ HasFinish(frames, list) => SaidOf(frames, Append(list, k)) = SaidOf(frames, list)
        /\ ~HasFinish(frames, list) => SaidOf(frames, Append(list, k)) = SaidOf(frames, list) \o frames[k].calls
    BY <1>1, SaidNext
  <2>3. \A A : \A s \in Seq(A) : s \o << >> = s
    OBVIOUS
  <2>4. SaidOf(frames, list) \in Seq(Fragments) => SaidOf(frames, list) \o << >> = SaidOf(frames, list)
    BY <2>3
  <2> QED
    BY <2>1, <2>2, <2>4
<1>4. Heeds(frames, kind, y.r.calls, y.got)
  <2>1. PICK said : CallsSound(x.r.calls, said) /\ (kind = "openai" => said = SaidOf(frames, list))
    BY DEF TurnGood, Heeds
  <2>2. said \in Seq(Fragments)
    BY <2>1 DEF CallsSound
  <2>3. kind = "openai" => said = SaidOf(frames, Append(list, k))
    BY <1>3, <2>1, <2>2
  <2> QED
    BY <2>1, <2>3 DEF Heeds
<1> QED
  BY <1>2, <1>3, <1>4 DEF TurnGood

(* An event is rendered, until one has ended the stream.                     *)
LEMMA EventTaken ==
  ASSUME NEW frames, FramesSound(frames), NEW kind, NEW x, TurnGood(frames, kind, x),
         NEW k \in 1 .. Len(frames), NEW ev, EventSound(ev),
         kind = "openai" => ev.calls = frames[k].calls /\ (Ends(ev) <=> frames[k].finish # ""),
         NEW y, y.got = Append(x.got, k), y.r = Accumulate(x.r, ev), y.read = x.read \o RenderResponses(x.r, ev),
         y.ended \in BOOLEAN, y.ended <=> x.ended \/ (RenderResponses(x.r, ev) # << >> /\ Ends(ev))
  PROVE  TurnGood(frames, kind, y)
<1> DEFINE list == x.got
           B == 1 .. Len(frames)
           q == x.r
<1>1. list \in Seq(B) /\ k \in B
  BY DEF TurnGood
<1>2. Append(list, k) \in Seq(B)
  <2> HIDE DEF list, B
  <2> QED
    BY ONLY <1>1
<1>3. /\ HasFinish(frames, Append(list, k)) <=> HasFinish(frames, list) \/ frames[k].finish # ""
      /\ HasFinish(frames, list) => SaidOf(frames, Append(list, k)) = SaidOf(frames, list)
      /\ ~HasFinish(frames, list) => SaidOf(frames, Append(list, k)) = SaidOf(frames, list) \o frames[k].calls
  <2> HIDE DEF list
  <2> QED
    BY <1>1, SaidNext
<1>4. CASE x.ended
  <2>1. q.finished
    BY <1>4 DEF TurnGood
  <2>2. Accumulate(q, ev) = q /\ RenderResponses(q, ev) = << >>
    BY <2>1 DEF Accumulate, RenderResponses
  <2>3. y.r = q /\ y.read = x.read /\ y.ended
    BY <1>4, <2>2, TurnRead
  <2>4. kind = "openai" => HasFinish(frames, list)
    BY <1>4 DEF TurnGood
  <2>5. PICK said : CallsSound(q.calls, said) /\ (kind = "openai" => said = SaidOf(frames, list))
    BY DEF TurnGood, Heeds
  <2>6. kind = "openai" => said = SaidOf(frames, Append(list, k))
    BY <1>3, <2>4, <2>5
  <2>7. Heeds(frames, kind, y.r.calls, y.got)
    BY <2>3, <2>5, <2>6 DEF Heeds
  <2>8. kind = "openai" => (y.ended <=> HasFinish(frames, y.got))
    BY <1>3, <2>3, <2>4
  <2>9. RendererSound(q) /\ ClosedRead(x.read, q.text, q.calls)
    BY <1>4 DEF TurnGood
  <2> QED
    BY <1>2, <2>1, <2>3, <2>7, <2>8, <2>9 DEF TurnGood
<1>5. CASE ~x.ended
  <2>1. /\ RendererSound(q) /\ ~q.finished /\ OpenRead(x.read, q.text) /\ (q.created <=> x.read # << >>)
        /\ kind = "openai" => ~HasFinish(frames, list)
    BY <1>5 DEF TurnGood
  <2>2. PICK said : CallsSound(q.calls, said) /\ (kind = "openai" => said = SaidOf(frames, list))
    BY DEF TurnGood, Heeds
  <2> DEFINE calls == Absorbed(q.calls, ev.calls)
             acc == Accumulate(q, ev)
             out == RenderResponses(q, ev)
  <2>3. CallsSound(calls, said \o ev.calls)
    <3> DEFINE c == q.calls
               e == ev.calls
    <3>1. e \in Seq(Fragments) /\ CallsSound(c, said)
      BY <2>2 DEF EventSound
    <3> HIDE DEF c, e
    <3>2. CallsSound(Absorbed(c, e), said \o e)
      BY <3>1, AbsorbedIs
    <3> QED
      BY <3>2 DEF c, e
  <2>4. calls \in Seq(CallRecs)
    BY <2>3 DEF CallsSound
  <2>5. /\ RendererSound(acc) /\ acc.created = TRUE /\ (acc.finished <=> Ends(ev))
        /\ acc.text = q.text \o ev.delta /\ acc.calls = calls
    <3>1. EventSound(ev)
      OBVIOUS
    <3> HIDE DEF q
    <3> QED
      BY ONLY <2>1, <2>4, <3>1, AccumulateIs
  <2>6. /\ ~Ends(ev) => OpenRead(x.read \o out, acc.text) /\ x.read \o out # << >>
        /\ Ends(ev) => ClosedRead(x.read \o out, acc.text, acc.calls) /\ out # << >>
    <3> DEFINE l == x.read
    <3>1. OpenRead(l, q.text) /\ (q.created <=> l # << >>)
      BY <2>1
    <3> HIDE DEF l
    <3>2. /\ ~Ends(ev) => OpenRead(l \o out, acc.text) /\ l \o out # << >>
          /\ Ends(ev) => ClosedRead(l \o out, acc.text, acc.calls) /\ out # << >>
      BY <2>1, <2>4, <3>1, RenderIs
    <3> QED
      BY <3>2 DEF l
  <2>7. y.r = acc /\ y.read = x.read \o out /\ (y.ended <=> out # << >> /\ Ends(ev))
    BY <1>5
  <2> HIDE DEF acc, out, calls, q
  <2>8. y.ended <=> Ends(ev)
    BY <2>6, <2>7
  <2>9. Heeds(frames, kind, y.r.calls, y.got)
    <3>1. kind = "openai" => said \o ev.calls = SaidOf(frames, Append(list, k))
      BY <1>3, <2>1, <2>2
    <3> QED
      BY <2>3, <2>5, <2>7, <3>1 DEF Heeds
  <2>10. kind = "openai" => (y.ended <=> HasFinish(frames, y.got))
    BY <1>3, <2>1, <2>8
  <2> QED
    BY <1>2, <2>5, <2>6, <2>7, <2>8, <2>9, <2>10 DEF TurnGood
<1> QED
  BY <1>4, <1>5 DEF TurnGood

LEMMA AfterIs ==
  ASSUME deal.surface = "responses", NEW x, NEW h
  PROVE  LET y == ReadPayload(x, h)
             evs == Decode(deal.kind, FrameOf(Payload(h)))
         IN  /\ ~IsPayload(h) \/ evs = << >> =>
                  y.r = x.r /\ y.read = x.read \o << >> /\ (x.ended \in BOOLEAN => y.ended = x.ended)
             /\ ~IsPayload(h) => y.got = x.got
             /\ IsPayload(h) => y.got = Append(x.got, h[1][2])
             /\ \A ev : IsPayload(h) /\ evs = <<ev>> =>
                  /\ y.r = Accumulate(x.r, ev) /\ y.read = x.read \o RenderResponses(x.r, ev)
                  /\ y.ended \in BOOLEAN
                  /\ y.ended <=> x.ended \/ (RenderResponses(x.r, ev) # << >> /\ Ends(ev))
<1> DEFINE y == ReadPayload(x, h)
           evs == Decode(deal.kind, FrameOf(Payload(h)))
           taken == IF IsPayload(h) THEN evs ELSE << >>
           out == IF taken = << >> THEN << >> ELSE Render(deal.surface, x.r, taken[1])
           e == x.ended \/ (out # << >> /\ (taken[1].done \/ taken[1].finish # ""))
<1>1. y = [got   |-> IF IsPayload(h) THEN Append(x.got, h[1][2]) ELSE x.got,
           r     |-> IF taken = << >> THEN x.r ELSE Accumulate(x.r, taken[1]),
           read  |-> x.read \o out,
           ended |-> e]
  BY DEF ReadPayload, ReadLine, Native
<1>2. e \in BOOLEAN
  OBVIOUS
<1>3. \A q, ev : Render(deal.surface, q, ev) = RenderResponses(q, ev)
  BY DEF Render
<1> HIDE DEF y, evs, e
<1>4. /\ y.got = IF IsPayload(h) THEN Append(x.got, h[1][2]) ELSE x.got
      /\ y.r = IF taken = << >> THEN x.r ELSE Accumulate(x.r, taken[1])
      /\ y.read = x.read \o out
      /\ y.ended = e
  BY <1>1
<1> HIDE DEF taken, out
<1>5. ASSUME ~IsPayload(h) \/ evs = << >>
      PROVE  y.r = x.r /\ y.read = x.read \o << >> /\ (x.ended \in BOOLEAN => y.ended = x.ended)
  <2>1. taken = << >> /\ out = << >>
    BY <1>5 DEF taken, out
  <2>2. e <=> x.ended
    BY <2>1 DEF e
  <2>3. x.ended \in BOOLEAN => e = x.ended
    BY <1>2, <2>2
  <2> QED
    BY <1>4, <2>1, <2>3
<1>6. ASSUME NEW ev, IsPayload(h), evs = <<ev>>
      PROVE  /\ y.r = Accumulate(x.r, ev) /\ y.read = x.read \o RenderResponses(x.r, ev)
             /\ y.ended \in BOOLEAN
             /\ y.ended <=> x.ended \/ (RenderResponses(x.r, ev) # << >> /\ Ends(ev))
  <2>1. taken = <<ev>> /\ taken # << >> /\ taken[1] = ev
    <3>1. <<ev>> # << >> /\ <<ev>>[1] = ev
      OBVIOUS
    <3> QED
      BY <1>6, <3>1 DEF taken
  <2>2. out = RenderResponses(x.r, ev)
    BY <1>3, <2>1 DEF out
  <2>3. e <=> x.ended \/ (RenderResponses(x.r, ev) # << >> /\ Ends(ev))
    BY <2>1, <2>2 DEF e, Ends
  <2> QED
    BY <1>2, <1>4, <2>1, <2>2, <2>3
<1> QED
  BY <1>4, <1>5, <1>6 DEF y, evs

(* A payload, or what is left of one, is of a frame of the answer.           *)
InFrames(h) == IsPayload(h) => h[1][2] \in 1 .. Len(answer.frames)

LEMMA LineIs ==
  ASSUME deal.surface = "responses", FramesSound(answer.frames),
         NEW x, TurnGood(answer.frames, deal.kind, x), NEW h, InFrames(h)
  PROVE  TurnGood(answer.frames, deal.kind, ReadPayload(x, h))
<1> DEFINE y == ReadPayload(x, h)
           frame == FrameOf(Payload(h))
           evs == Decode(deal.kind, frame)
           frames == answer.frames
           kind == deal.kind
<1>1. /\ ~IsPayload(h) \/ evs = << >> =>
            y.r = x.r /\ y.read = x.read \o << >> /\ (x.ended \in BOOLEAN => y.ended = x.ended)
      /\ ~IsPayload(h) => y.got = x.got
      /\ IsPayload(h) => y.got = Append(x.got, h[1][2])
      /\ \A ev : IsPayload(h) /\ evs = <<ev>> =>
            /\ y.r = Accumulate(x.r, ev) /\ y.read = x.read \o RenderResponses(x.r, ev)
            /\ y.ended \in BOOLEAN
            /\ y.ended <=> x.ended \/ (RenderResponses(x.r, ev) # << >> /\ Ends(ev))
  BY AfterIs
<1>2. x.ended \in BOOLEAN /\ x.read \o << >> = x.read
  BY TurnRead DEF TurnGood
<1> HIDE DEF y
<1>3. CASE ~IsPayload(h)
  <2>1. y.r = x.r /\ y.read = x.read /\ y.ended = x.ended /\ y.got = x.got
    BY <1>1, <1>2, <1>3
  <2>2. TurnGood(frames, kind, y)
    BY <2>1 DEF TurnGood
  <2> QED
    BY <2>2 DEF y
<1>4. CASE IsPayload(h)
  <2> DEFINE k == h[1][2]
  <2>1. k \in 1 .. Len(frames) /\ Payload(h).frame = k
    BY <1>4 DEF InFrames, Payload
  <2>2. /\ FrameSound(frame) /\ frame.type = frames[k].type /\ frame.finish = frames[k].finish
        /\ frame.calls = frames[k].calls
    BY <2>1, FrameOfIs
  <2> HIDE DEF k, frame
  <2>3. Decoded(kind, frame, evs)
    BY <2>2, DecodeIs
  <2> HIDE DEF evs
  <2>4. y.got = Append(x.got, k)
    BY <1>1, <1>4 DEF k
  <2>5. CASE evs = << >> /\ (kind = "openai" => frame.type = "[DONE]")
    <3>1. y.r = x.r /\ y.read = x.read /\ y.ended = x.ended
      BY <1>1, <1>2, <2>5
    <3>2. kind = "openai" => frames[k].type = "[DONE]"
      BY <2>2, <2>5
    <3>3. TurnGood(frames, kind, y)
      BY <2>1, <2>4, <3>1, <3>2, QuietIs
    <3> QED
      BY <3>3 DEF y
  <2>6. CASE \E ev : evs = <<ev>> /\ Yields(kind, frame, ev)
    <3>1. PICK ev : evs = <<ev>> /\ Yields(kind, frame, ev)
      BY <2>6
    <3>2. EventSound(ev) /\ (kind = "openai" => ev.calls = frames[k].calls /\ (Ends(ev) <=> frames[k].finish # ""))
      BY <2>2, <3>1 DEF Yields
    <3>3. /\ y.r = Accumulate(x.r, ev) /\ y.read = x.read \o RenderResponses(x.r, ev)
          /\ y.ended \in BOOLEAN
          /\ y.ended <=> x.ended \/ (RenderResponses(x.r, ev) # << >> /\ Ends(ev))
      BY <1>1, <1>4, <3>1
    <3>4. TurnGood(frames, kind, y)
      BY <2>1, <2>4, <3>2, <3>3, EventTaken
    <3> QED
      BY <3>4 DEF y
  <2> QED
    BY <2>3, <2>5, <2>6 DEF Decoded
<1> QED
  BY <1>3, <1>4

-----------------------------------------------------------------------------
(* A turn of the Responses surface, some payloads at a time.                 *)

Now == [got |-> got, r |-> r, read |-> read, ended |-> ended]

Good(x) == TurnGood(answer.frames, deal.kind, x)

LEMMA ReadingGood ==
  ASSUME deal.surface = "responses", FramesSound(answer.frames), Good(Now),
         NEW payloads, Len(payloads) \in Nat, \A i \in 1 .. Len(payloads) : InFrames(payloads[i])
  PROVE  Good(Reading(payloads))
<1> DEFINE n == Len(payloads)
           start == [got |-> got, r |-> r, read |-> read, ended |-> ended]
           Body(f) == [i \in 0 .. Len(payloads) |-> IF i = 0 THEN start ELSE ReadPayload(f[i - 1], payloads[i])]
           after == CHOOSE f : f = Body(f)
<1>1. n \in Nat
  OBVIOUS
<1>2. after = Body(after)
  <2>1. \E f : f = Body(f)
    <3> HIDE DEF start
    <3>1. \E f : Reads(f, start, payloads, n)
      BY <1>1, ReadingExists
    <3> QED
      BY <3>1 DEF Reads
  <2> HIDE DEF Body
  <2> QED
    BY <2>1
<1>3. Reading(payloads) = after[n]
  BY DEF Reading
<1>0. Good(start)
  BY DEF Now
<1> HIDE DEF after, start
<1>4. after[0] = start /\ \A i \in 1 .. n : after[i] = ReadPayload(after[i - 1], payloads[i])
  <2> HIDE DEF n
  <2>1. 0 \in 0 .. n /\ \A i \in 1 .. n : i \in 0 .. n /\ i # 0
    BY <1>1
  <2>2. \A i \in 0 .. n : after[i] = IF i = 0 THEN start ELSE ReadPayload(after[i - 1], payloads[i])
    BY <1>2 DEF n
  <2> QED
    BY <2>1, <2>2
<1> DEFINE D == {i \in Nat : i <= n => Good(after[i])}
<1>5. 0 \in D
  BY <1>0, <1>4
<1>6. ASSUME NEW i \in Nat, i \in D
      PROVE  i + 1 \in D
  <2> SUFFICES ASSUME i + 1 <= n PROVE Good(after[i + 1])
    OBVIOUS
  <2> DEFINE j == i + 1
  <2>1. j \in 1 .. n /\ j - 1 = i /\ Good(after[i])
    BY <1>1, <1>6
  <2> HIDE DEF j
  <2>2. after[j] = ReadPayload(after[i], payloads[j])
    BY <1>4, <2>1
  <2>3. InFrames(payloads[j])
    BY <2>1
  <2>4. Good(ReadPayload(after[i], payloads[j]))
    <3> DEFINE x == after[i]
               h == payloads[j]
    <3>1. TurnGood(answer.frames, deal.kind, x) /\ InFrames(h)
      BY <2>1, <2>3 DEF Good
    <3> HIDE DEF x, h
    <3>2. TurnGood(answer.frames, deal.kind, ReadPayload(x, h))
      BY <3>1, LineIs
    <3> QED
      BY <3>2 DEF x, h, Good
  <2> QED
    BY <2>2, <2>4 DEF j
<1> HIDE DEF D
<1>7. n \in D
  BY <1>1, <1>5, <1>6, Induction
<1>8. n <= n
  BY <1>1
<1>9. Good(after[n])
  BY <1>7, <1>8 DEF D
<1> QED
  BY <1>3, <1>9

HalvesOf(raw) == {x \in {raw[i] : i \in 1 .. Len(raw)} : IsHalf(x)}

(* What Halves keeps, the raw bytes had.                                     *)
LEMMA HalvesHold ==
  ASSUME NEW raw, Len(raw) \in Nat
  PROVE  Halves(raw) \in Seq(HalvesOf(raw))
<1> DEFINE n == Len(raw)
           H == HalvesOf(raw)
           Body(g) == [i \in 0 .. Len(raw) |->
                         IF i = 0 THEN << >>
                         ELSE IF IsHalf(raw[i]) THEN Append(g[i - 1], raw[i]) ELSE g[i - 1]]
           kept == CHOOSE kept : kept = Body(kept)
           Loops(g, j) ==
             g = [i \in 0 .. j |-> IF i = 0 THEN << >>
                                   ELSE IF IsHalf(raw[i]) THEN Append(g[i - 1], raw[i]) ELSE g[i - 1]]
           D == {j \in Nat : \E g : Loops(g, j)}
<1>1. 0 \in D
  <2> DEFINE g == [i \in 0 .. 0 |-> << >>]
  <2>1. Loops(g, 0)
    OBVIOUS
  <2> QED
    BY <2>1
<1>2. ASSUME NEW j \in Nat, j \in D
      PROVE  j + 1 \in D
  <2>1. PICK f : Loops(f, j)
    BY <1>2
  <2> DEFINE last == IF IsHalf(raw[j + 1]) THEN Append(f[j], raw[j + 1]) ELSE f[j]
             g == [i \in 0 .. j + 1 |-> IF i = j + 1 THEN last ELSE f[i]]
  <2>2. \A i \in 0 .. j + 1 : g[i] = IF i = 0 THEN << >>
                                     ELSE IF IsHalf(raw[i]) THEN Append(g[i - 1], raw[i]) ELSE g[i - 1]
    <3> TAKE i \in 0 .. j + 1
    <3>1. CASE i = 0
      <4>1. 0 \in 0 .. j /\ i # j + 1
        BY <3>1
      <4> QED
        BY <2>1, <3>1, <4>1
    <3>2. CASE i = j + 1
      <4>1. i - 1 = j /\ j \in 0 .. j + 1 /\ j # j + 1 /\ i # 0
        BY <3>2
      <4>2. g[i] = last /\ g[i - 1] = f[j]
        <5> HIDE DEF last
        <5> QED
          BY <3>2, <4>1
      <4> HIDE DEF g
      <4> QED
        BY <3>2, <4>1, <4>2
    <3>3. CASE i # 0 /\ i # j + 1
      <4>1. i \in 0 .. j /\ i - 1 \in 0 .. j /\ i - 1 \in 0 .. j + 1 /\ i - 1 # j + 1
        BY <3>3
      <4>2. g[i] = f[i] /\ g[i - 1] = f[i - 1]
        <5> HIDE DEF last
        <5> QED
          BY <3>3, <4>1
      <4>3. f[i] = IF i = 0 THEN << >> ELSE IF IsHalf(raw[i]) THEN Append(f[i - 1], raw[i]) ELSE f[i - 1]
        BY <2>1, <4>1
      <4> HIDE DEF g
      <4> QED
        BY <4>2, <4>3
    <3> QED
      BY <3>1, <3>2, <3>3
  <2>3. g = [i \in 0 .. j + 1 |-> g[i]]
    OBVIOUS
  <2> HIDE DEF g
  <2>4. Loops(g, j + 1)
    BY <2>2, <2>3
  <2> HIDE DEF Loops
  <2> QED
    BY <2>4
<1>3. n \in D
  <2> HIDE DEF D
  <2>1. n \in Nat
    OBVIOUS
  <2> QED
    BY <1>1, <1>2, <2>1, Induction
<1>4. kept = Body(kept)
  <2>1. \E g : g = Body(g)
    BY <1>3
  <2> HIDE DEF Body
  <2> QED
    BY <2>1
<1>5. Halves(raw) = kept[n]
  BY DEF Halves
<1> HIDE DEF kept, D
<1>6. \A i \in 0 .. n : kept[i] = IF i = 0 THEN << >>
                                  ELSE IF IsHalf(raw[i]) THEN Append(kept[i - 1], raw[i]) ELSE kept[i - 1]
  BY <1>4
<1>7. \A i \in 1 .. n : IsHalf(raw[i]) => raw[i] \in H
  BY DEF HalvesOf
<1>8. n \in Nat
  OBVIOUS
<1> HIDE DEF n, H
<1> DEFINE E == {i \in Nat : i <= n => kept[i] \in Seq(H)}
<1>9. 0 \in E
  <2>1. 0 \in 0 .. n
    BY <1>8
  <2>2. kept[0] = << >>
    BY <1>6, <2>1
  <2> QED
    BY <2>2, EmptyIn
<1>10. ASSUME NEW i \in Nat, i \in E
       PROVE  i + 1 \in E
  <2> SUFFICES ASSUME i + 1 <= n PROVE kept[i + 1] \in Seq(H)
    OBVIOUS
  <2> DEFINE j == i + 1
  <2>1. j \in 0 .. n /\ j \in 1 .. n /\ j # 0 /\ j - 1 = i /\ kept[i] \in Seq(H)
    BY <1>8, <1>10
  <2> HIDE DEF j
  <2>2. kept[j] = IF IsHalf(raw[j]) THEN Append(kept[i], raw[j]) ELSE kept[i]
    BY <1>6, <2>1
  <2>3. CASE IsHalf(raw[j])
    <3> DEFINE s == kept[i]
               x == raw[j]
    <3>1. s \in Seq(H) /\ x \in H
      BY <1>7, <2>1, <2>3
    <3> HIDE DEF s, x
    <3>2. Append(s, x) \in Seq(H)
      BY <3>1
    <3> QED
      BY <2>2, <2>3, <3>2 DEF s, x, j
  <2>4. CASE ~IsHalf(raw[j])
    BY <2>1, <2>2, <2>4 DEF j
  <2> QED
    BY <2>3, <2>4
<1> HIDE DEF E
<1>11. n \in E
  BY <1>8, <1>9, <1>10, Induction
<1>12. kept[n] \in Seq(H)
  <2>1. n <= n
    BY <1>8
  <2> QED
    BY <1>11, <2>1 DEF E
<1> QED
  BY <1>5, <1>12 DEF H, n

(* The rest of a buffer is a payload of the answer, or none.                 *)
LEMMA RestIs ==
  ASSUME NEW k, Holding(k)
  PROVE  Len(Flush(buf)) \in Nat /\ \A i \in 1 .. Len(Flush(buf)) : InFrames(Flush(buf)[i])
<1> DEFINE n == Len(answer.frames)
           s == Sending
           b == buf
           h == Halves(b)
<1>1. PICK p, q, m : /\ Sent(answer.frames, answer.layout, p, q)
                     /\ Reached(s, n, p, q, Native, m, k, answer.at, b)
  BY DEF Holding
<1>2. Marks(s, n, p, q, Native)
  BY <1>1 DEF Sent, Sending
<1>3. Window(b, s, m, answer.at)
  BY <1>1 DEF Reached
<1> HIDE DEF s, n, b
<1>4. /\ m \in Nat /\ answer.at \in Nat /\ m <= answer.at /\ answer.at <= Len(s) /\ Len(s) \in Nat
      /\ b \in Seq(Symbols) /\ Len(b) = answer.at - m /\ Len(b) \in Nat
      /\ \A i \in 1 .. Len(b) : Like(b[i], s[m + i])
  <2>1. s \in Seq(Symbols)
    BY <1>2 DEF Marks
  <2>2. Len(s) \in Nat
    BY ONLY <2>1, LenProperties
  <2> QED
    BY <1>3, <2>2 DEF Window
<1>5. \A x \in HalvesOf(b) : x[2] \in 1 .. n
  <2> SUFFICES ASSUME NEW i \in 1 .. Len(b), IsHalf(b[i]) PROVE b[i][2] \in 1 .. n
    BY DEF HalvesOf
  <2> DEFINE o == m + i
  <2>1. o \in 1 .. Len(s)
    BY <1>4
  <2> HIDE DEF o
  <2>2. Like(b[i], s[o])
    BY <1>4 DEF o
  <2>3. IsHalf(s[o]) /\ b[i][2] = s[o][2]
    BY <2>2, LikeIs
  <2>4. PICK j \in 1 .. n : o = p[j] + 1 \/ o = p[j] + 2
    BY <1>2, <2>1, <2>3 DEF Marks
  <2>5. s[p[j] + 1] = Half(j, 1) /\ s[p[j] + 2] = Half(j, 2)
    BY <1>2 DEF Marks
  <2>6. s[o][2] = j
    BY <2>4, <2>5, SymbolsDiffer
  <2> QED
    BY <2>3, <2>6
<1>6. h \in Seq(HalvesOf(b))
  BY <1>4, HalvesHold
<1>7. IsPayload(h) => h[1][2] \in 1 .. n
  <2> SUFFICES ASSUME IsPayload(h) PROVE h[1][2] \in 1 .. n
    OBVIOUS
  <2> DEFINE H == HalvesOf(b)
  <2>1. h \in Seq(H) /\ Len(h) = 2
    BY <1>6 DEF IsPayload
  <2> HIDE DEF h, H
  <2>2. h[1] \in H
    BY <2>1, SMTT(30)
  <2> QED
    BY <1>5, <2>2 DEF H
<1>8. InFrames(h)
  BY <1>7 DEF InFrames, n
<1>9. Flush(b) = << >> \/ Flush(b) = <<h>>
  BY DEF Flush, ParseFrame
<1> HIDE DEF h
<1>10. Len(Flush(b)) \in Nat /\ \A i \in 1 .. Len(Flush(b)) : InFrames(Flush(b)[i])
  <2>1. CASE Flush(b) = << >>
    <3>1. Len(Flush(b)) = 0 /\ 1 .. 0 = {}
      BY <2>1
    <3> QED
      BY <3>1
  <2>2. CASE Flush(b) = <<h>>
    <3>1. Len(Flush(b)) = 1 /\ \A i \in 1 .. Len(Flush(b)) : Flush(b)[i] = h
      BY <2>2
    <3> QED
      BY <1>8, <3>1
  <2> QED
    BY <1>9, <2>1, <2>2
<1> QED
  BY <1>10 DEF b

LEMMA PayloadsAre ==
  ASSUME NEW payloads, NEW k \in Nat, NEW k2 \in 0 .. Len(answer.frames), Len(answer.frames) \in Nat, k <= k2,
         Numbered(payloads, k, k2)
  PROVE  Len(payloads) \in Nat /\ \A i \in 1 .. Len(payloads) : InFrames(payloads[i])
<1>1. Len(payloads) = k2 - k /\ k2 - k \in Nat /\ \A i \in 1 .. k2 - k : IsRaw(payloads[i], k + i)
  BY DEF Numbered
<1>2. ASSUME NEW i \in 1 .. k2 - k
      PROVE  InFrames(payloads[i])
  <2>1. payloads[i][1][2] = k + i
    BY <1>1 DEF IsRaw
  <2>2. k + i \in 1 .. Len(answer.frames)
    BY <1>1
  <2> QED
    BY <2>1, <2>2 DEF InFrames
<1> QED
  BY <1>1, <1>2

(* What a Responses upstream sends a stream: a body, and no end of a line.   *)
Halfs == {x \in Symbols : IsHalf(x)}

LEMMA NoLine ==
  ASSUME NEW b \in Seq(Halfs)
  PROVE  Lines(b) = [frames |-> << >>, buf |-> b] /\ Flush(b) = << >>
<1> DEFINE turns == Cardinality({i \in DOMAIN b : b[i] = LF})
           start == [frames |-> << >>, buf |-> b]
           Body(f) == [j \in 0 .. turns |-> IF j = 0 THEN start ELSE TakeLine(f[j - 1])]
           taken == CHOOSE f : f = Body(f)
<1>1. \A i \in DOMAIN b : IsHalf(b[i])
  BY DEF Halfs
<1>2. \A i \in DOMAIN b : b[i] # LF /\ b[i] # DATA
  BY <1>1, SymbolsDiffer
<1>3. turns = 0
  <2>1. {i \in DOMAIN b : b[i] = LF} = {}
    BY <1>2
  <2> QED
    BY <2>1, FS_EmptySet
<1>4. Lines(b) = taken[turns]
  BY DEF Lines, Drain
<1> HIDE DEF turns
<1>5. taken = Body(taken)
  <2>1. \E f : f = Body(f)
    <3> HIDE DEF start
    <3>1. \E f : IsLoop(f, TRUE, start, turns)
      BY <1>3, Looping
    <3> QED
      BY <3>1 DEF IsLoop, Turn
  <2> HIDE DEF Body
  <2> QED
    BY <2>1
<1> HIDE DEF taken, start
<1>6. taken[0] = start
  <2>1. 0 \in 0 .. turns
    BY <1>3
  <2> QED
    BY <1>5, <2>1
<1>7. DATA \notin Range(b)
  BY <1>2 DEF Range
<1>8. Flush(b) = << >>
  BY <1>7 DEF Flush, ParseFrame
<1> QED
  BY <1>3, <1>4, <1>6, <1>8 DEF start

LEMMA LossyHalves ==
  ASSUME NEW chunk \in Seq(Halfs), NEW wide
  PROVE  Lossy(chunk, wide) \in Seq(Halfs)
<1> DEFINE t == Lossy(chunk, wide)
<1>1. chunk \in Seq(Symbols) /\ Len(chunk) \in Nat /\ \A i \in 1 .. Len(chunk) : IsHalf(chunk[i])
  BY DEF Halfs
<1>2. t \in Seq(Symbols) /\ Len(t) = Len(chunk) /\ \A i \in 1 .. Len(chunk) : Like(t[i], chunk[i])
  BY <1>1, LossyIsLike
<1> HIDE DEF t
<1>3. \A i \in 1 .. Len(t) : t[i] \in Halfs
  BY <1>1, <1>2, LikeIs DEF Halfs
<1>4. t = [i \in 1 .. Len(t) |-> t[i]] /\ Len(t) \in Nat
  BY <1>1, <1>2
<1>5. t \in Seq(Halfs)
  BY <1>3, <1>4
<1> QED
  BY <1>5 DEF t

Waits ==
  /\ answer = [frames |-> answer.frames, layout |-> answer.layout, at |-> answer.at]
  /\ answer.at \in Nat /\ buf \in Seq(Halfs)

LEMMA BodyTakes ==
  ASSUME Chunk, Native, deal.kind = "responses", Waits
  PROVE  Takes(<< >>) /\ Waits' /\ answer'.frames = answer.frames
<1>1. PICK end \in (answer.at + 1)..Len(Sending) :
        LET chunk == SubSeq(Sending, answer.at + 1, end)
            taken == IF Native THEN Lines(buf \o Lossy(chunk, WideFrames)) ELSE Feed(buf \o chunk)
        IN  /\ answer' = [answer EXCEPT !.at = end]
            /\ buf' = taken.buf
            /\ Takes(taken.frames)
  BY DEF Chunk
<1> DEFINE s == Sending
           upto == answer.at
           chunk == SubSeq(s, upto + 1, end)
           piece == Lossy(chunk, WideFrames)
           b == buf \o piece
<1>2. s \in Seq(Halfs) /\ Len(s) = 2
  <2>1. Half(1, 1) \in Halfs /\ Half(1, 2) \in Halfs
    BY SymbolsAre, SymbolsDiffer DEF Halfs
  <2>2. s = <<Half(1, 1), Half(1, 2)>>
    BY DEF Sending, Bytes
  <2> QED
    BY <2>1, <2>2
<1>3. upto \in Nat /\ end \in upto + 1 .. Len(s) /\ buf \in Seq(Halfs)
  BY DEF Waits
<1>4. answer' = [answer EXCEPT !.at = end] /\ buf' = Lines(b).buf /\ Takes(Lines(b).frames)
  BY <1>1
<1>5. /\ answer'.frames = answer.frames /\ answer'.at = end
      /\ answer' = [frames |-> answer'.frames, layout |-> answer'.layout, at |-> answer'.at]
  <2>1. answer = [frames |-> answer.frames, layout |-> answer.layout, at |-> answer.at]
    BY DEF Waits
  <2>2. answer' = [frames |-> answer.frames, layout |-> answer.layout, at |-> end]
    BY <1>4, <2>1
  <2> QED
    BY <2>2
<1> HIDE DEF s, upto
<1>6. chunk \in Seq(Halfs)
  <2>1. upto + 1 \in Int /\ end \in Int /\ \A i \in upto + 1 .. end : i \in 1 .. Len(s)
    BY <1>2, <1>3
  <2>2. \A i \in 1 .. Len(s) : s[i] \in Halfs
    BY ONLY <1>2, SMTT(30)
  <2>3. \A i \in upto + 1 .. end : s[i] \in Halfs
    BY <2>1, <2>2
  <2> QED
    BY <2>1, <2>3, SubSeqProperties
<1> HIDE DEF chunk
<1>7. piece \in Seq(Halfs)
  BY <1>6, LossyHalves
<1> HIDE DEF piece
<1>8. b \in Seq(Halfs)
  BY <1>3, <1>7
<1> HIDE DEF b
<1>9. buf' = b /\ Takes(<< >>)
  <2>1. Lines(b) = [frames |-> << >>, buf |-> b]
    BY <1>8, NoLine
  <2> QED
    BY <1>4, <2>1
<1>10. answer'.at \in Nat /\ buf' \in Seq(Halfs)
  BY <1>2, <1>3, <1>5, <1>8, <1>9
<1> QED
  BY <1>5, <1>9, <1>10 DEF Waits

Unread == {"asked", "parsed", "sent", "refused"}

(* A turn is not begun, open or closed as its stream is.                     *)
TurnSound ==
  deal.surface = "responses" /\ deal.stream =>
    /\ phase \in Unread \cup {"reading", "broken", "done"}
    /\ phase \in Unread => got = << >> /\ r = Renderer /\ read = << >> /\ ended = FALSE /\ buf = << >>
    /\ phase \in {"reading", "broken"} => FramesSound(answer.frames) /\ Good(Now)
    /\ phase = "reading" /\ deal.kind = "responses" => Waits
    /\ phase = "done" => ClosedRead(read, r.text, r.calls) /\ Heeds(answer.frames, deal.kind, r.calls, got)

LEMMA SameGood ==
  ASSUME NEW frames, NEW kind, NEW x, TurnGood(frames, kind, x),
         NEW y, y.got = x.got, y.r = x.r, y.read = x.read, y.ended = x.ended
  PROVE  TurnGood(frames, kind, y)
BY DEF TurnGood

LEMMA StartGood ==
  ASSUME NEW frames, FramesSound(frames), NEW kind, NEW x,
         x.got = << >>, x.r = Renderer, x.read = << >>, x.ended = FALSE
  PROVE  TurnGood(frames, kind, x)
<1>1. RendererSound(Renderer) /\ Renderer.finished = FALSE /\ Renderer.created = FALSE
      /\ Renderer.text = << >> /\ Renderer.calls = << >>
  <2>1. \A A : << >> \in Seq(A)
    BY EmptyIn
  <2> QED
    BY <2>1 DEF Renderer, RendererSound
<1>2. CallsSound(<< >>, << >>)
  <2>1. << >> \in Seq(CallRecs) /\ << >> \in Seq(Fragments)
    BY EmptyIn
  <2>2. \A index : Spread(OfIndex(index), << >>) = << >>
    BY PartsOfCalls, SpreadIs
  <2>3. \A index \in Nat : ~(index + 1 <= Len(<< >>))
    <3>1. Len(<< >>) = 0
      OBVIOUS
    <3> QED
      BY <3>1
  <2> QED
    BY <2>1, <2>2, <2>3 DEF CallsSound
<1>3. SaidOf(frames, << >>) = << >> /\ ~HasFinish(frames, << >>)
  BY SaidNone
<1>4. Heeds(frames, kind, << >>, << >>)
  BY <1>2, <1>3 DEF Heeds
<1>5. << >> \in Seq(1 .. Len(frames))
  BY EmptyIn
<1>6. OpenRead(<< >>, << >>)
  BY OpenNone
<1> QED
  BY <1>1, <1>3, <1>4, <1>5, <1>6 DEF TurnGood

LEMMA TurnStarts == Init => TurnSound
BY DEF Init, TurnSound, Unread

LEMMA AnswerStreamKeeps ==
  ASSUME ReadSound, TurnSound, AnswerStream
  PROVE  TurnSound'
<1>1. /\ phase = "sent" /\ phase' = "reading" /\ UNCHANGED <<deal, buf, got, r, read, ended>>
      /\ deal.kind \in Kinds
  BY DEF AnswerStream, ReadSound
<1> SUFFICES ASSUME deal.surface = "responses", deal.stream
             PROVE  FramesSound(answer'.frames) /\ Good(Now)' /\ Waits'
  BY <1>1 DEF TurnSound, Unread
<1>2. PICK frames \in Streams(deal.kind), layout \in Layouts :
        answer' = [frames |-> frames, layout |-> layout, at |-> 0]
  BY DEF AnswerStream
<1>3. FramesSound(frames)
  <2>1. frames \in Seq(Frames) /\ \A f \in Range(frames) : f.type = "[DONE]" => f.finish = "" /\ f.calls = << >>
    BY <1>1, <1>2, StreamAssumption
  <2>2. \A k \in 1 .. Len(frames) : frames[k] \in Range(frames)
    <3>1. DOMAIN frames = 1 .. Len(frames)
      <4>1. frames \in Seq(Frames)
        BY <2>1
      <4> QED
        BY ONLY <4>1, LenProperties
    <3> QED
      BY ONLY <3>1 DEF Range
  <2> QED
    BY <2>1, <2>2 DEF FramesSound
<1>4. answer'.frames = frames /\ answer'.layout = layout /\ answer'.at = 0
  BY <1>2
<1>5. got' = << >> /\ r' = Renderer /\ read' = << >> /\ ended' = FALSE /\ buf' = << >>
  BY <1>1 DEF TurnSound, Unread
<1> DEFINE y == [got |-> got', r |-> r', read |-> read', ended |-> ended']
<1>6. TurnGood(frames, deal.kind, y)
  <2>1. y.got = << >> /\ y.r = Renderer /\ y.read = << >> /\ y.ended = FALSE
    BY <1>5
  <2> HIDE DEF y
  <2> QED
    BY <1>3, <2>1, StartGood
<1>7. Good(Now)'
  BY <1>1, <1>4, <1>6 DEF Good, Now
<1>8. Waits'
  BY <1>2, <1>4, <1>5, EmptyIn DEF Waits
<1> QED
  BY <1>3, <1>4, <1>7, <1>8

LEMMA ChunkKeeps ==
  ASSUME ReadSound, TurnSound, Chunk
  PROVE  TurnSound'
<1>1. phase = "reading" /\ UNCHANGED <<deal, phase, asking>>
  BY DEF Chunk
<1> SUFFICES ASSUME deal.surface = "responses", deal.stream
             PROVE  /\ FramesSound(answer'.frames) /\ Good(Now)'
                    /\ deal.kind = "responses" => Waits'
  BY <1>1 DEF TurnSound, Unread
<1>2. FramesSound(answer.frames) /\ Good(Now) /\ Native /\ (deal.kind = "responses" => Waits)
  BY <1>1 DEF TurnSound, Native
<1>3. \E payloads : /\ Len(payloads) \in Nat /\ \A i \in 1 .. Len(payloads) : InFrames(payloads[i])
                    /\ Takes(payloads) /\ answer'.frames = answer.frames
                    /\ deal.kind = "responses" => Waits'
  <2>1. CASE deal.kind = "responses"
    <3>1. Takes(<< >>) /\ Waits' /\ answer'.frames = answer.frames
      BY <1>2, <2>1, BodyTakes
    <3>2. Len(<< >>) \in Nat /\ 1 .. Len(<< >>) = {}
      OBVIOUS
    <3> QED
      BY <3>1, <3>2
  <2>2. CASE deal.kind # "responses"
    <3>1. PICK k : Holding(k)
      BY <1>1, <1>2, <2>2 DEF ReadSound, ReaderSound
    <3>2. PICK payloads : \E k2 \in 0 .. Len(answer.frames) :
            /\ k \in Nat /\ k <= k2 /\ Numbered(payloads, k, k2) /\ Takes(payloads)
            /\ Holding(k2)' /\ answer'.frames = answer.frames
      BY <3>1, ChunkTakes
    <3>3. Len(answer.frames) \in Nat
      BY <3>1 DEF Holding
    <3>4. Len(payloads) \in Nat /\ \A i \in 1 .. Len(payloads) : InFrames(payloads[i])
      BY <3>2, <3>3, PayloadsAre
    <3> QED
      BY <2>2, <3>2, <3>4
  <2> QED
    BY <2>1, <2>2
<1>4. PICK payloads : /\ Len(payloads) \in Nat /\ \A i \in 1 .. Len(payloads) : InFrames(payloads[i])
                      /\ Takes(payloads) /\ answer'.frames = answer.frames
                      /\ deal.kind = "responses" => Waits'
  BY <1>3
<1>5. Good(Reading(payloads))
  BY <1>2, <1>4, ReadingGood
<1> DEFINE x == Reading(payloads)
           y == [got |-> got', r |-> r', read |-> read', ended |-> ended']
<1>6. y.got = x.got /\ y.r = x.r /\ y.read = x.read /\ y.ended = x.ended
  BY <1>4 DEF Takes
<1>7. TurnGood(answer.frames, deal.kind, x)
  BY <1>5 DEF Good
<1>8. TurnGood(answer.frames, deal.kind, y)
  <2> HIDE DEF x, y
  <2> QED
    BY <1>6, <1>7, SameGood
<1>9. Good(Now)'
  BY <1>1, <1>4, <1>8 DEF Good, Now
<1> QED
  BY <1>2, <1>4, <1>9

LEMMA EndKeeps ==
  ASSUME ReadSound, TurnSound, End
  PROVE  TurnSound'
<1>1. phase = "reading" /\ phase' = "done" /\ UNCHANGED <<deal, asking, answer>>
  BY DEF End
<1> SUFFICES ASSUME deal.surface = "responses", deal.stream
             PROVE  ClosedRead(read', r'.text, r'.calls) /\ Heeds(answer.frames, deal.kind, r'.calls, got')
  BY <1>1 DEF TurnSound, Unread, Heeds
<1>2. FramesSound(answer.frames) /\ Good(Now) /\ Native /\ (deal.kind = "responses" => Waits)
  BY <1>1 DEF TurnSound, Native
<1> DEFINE rest == IF Native /\ ended THEN << >> ELSE Flush(buf)
           after == Reading(rest)
<1>3. /\ got' = after.got /\ r' = after.r
      /\ read' = after.read \o IF Native /\ ~after.ended THEN FinishStream(deal.surface, after.r) ELSE << >>
  BY DEF End
<1>4. Len(rest) \in Nat /\ \A i \in 1 .. Len(rest) : InFrames(rest[i])
  <2>0. Len(<< >>) \in Nat /\ 1 .. Len(<< >>) = {}
    OBVIOUS
  <2>1. CASE deal.kind = "responses"
    <3>1. rest = << >>
      BY <1>2, <2>1, NoLine DEF Waits
    <3> QED
      BY <2>0, <3>1
  <2>2. CASE deal.kind # "responses"
    <3>1. PICK k : Holding(k)
      BY <1>1, <1>2, <2>2 DEF ReadSound, ReaderSound
    <3>2. Len(Flush(buf)) \in Nat /\ \A i \in 1 .. Len(Flush(buf)) : InFrames(Flush(buf)[i])
      BY <3>1, RestIs
    <3> QED
      BY <2>0, <3>2
  <2> QED
    BY <2>1, <2>2
<1> HIDE DEF rest
<1>5. Good(after)
  BY <1>2, <1>4, ReadingGood
<1> HIDE DEF after
<1>6. TurnGood(answer.frames, deal.kind, after)
  BY <1>5 DEF Good
<1>7. Heeds(answer.frames, deal.kind, r'.calls, got')
  BY <1>3, <1>6 DEF TurnGood
<1>8. ClosedRead(read', r'.text, r'.calls)
  <2>1. CASE after.ended
    <3>1. read' = after.read \o << >> /\ ClosedRead(after.read, r'.text, r'.calls)
      BY <1>3, <1>6, <2>1 DEF TurnGood
    <3>2. after.read \o << >> = after.read
      BY <1>6, TurnRead
    <3> QED
      BY <3>1, <3>2
  <2>2. CASE ~after.ended
    <3>1. read' = after.read \o FinishResponses(after.r)
      BY <1>2, <1>3, <2>2 DEF FinishStream
    <3>2. /\ RendererSound(after.r) /\ ~after.r.finished /\ OpenRead(after.read, after.r.text)
          /\ after.r.created <=> after.read # << >>
      BY <1>6, <2>2 DEF TurnGood
    <3> DEFINE q == after.r
               list == after.read
    <3>3. RendererSound(q) /\ ~q.finished /\ OpenRead(list, q.text) /\ (q.created <=> list # << >>)
      BY <3>2
    <3> HIDE DEF q, list
    <3>4. ClosedRead(list \o FinishResponses(q), q.text, q.calls)
      BY <3>3, FinishIs
    <3> QED
      BY <1>3, <3>1, <3>4 DEF q, list
  <2> QED
    BY <2>1, <2>2
<1> QED
  BY <1>7, <1>8

LEMMA TurnOthers ==
  ASSUME TurnSound, Parse \/ Build \/ AnswerWhole \/ Leave \/ Break \/ UNCHANGED vars
  PROVE  TurnSound'
<1> SUFFICES ASSUME deal'.surface = "responses", deal'.stream
             PROVE  TurnSound'
  BY DEF TurnSound
<1>1. deal' = deal
  BY DEF Parse, Build, AnswerWhole, Leave, Break, vars
<1>2. CASE Parse
  BY <1>1, <1>2 DEF TurnSound, Unread, Parse, reading
<1>3. CASE Build
  BY <1>1, <1>3 DEF TurnSound, Unread, Build, reading
<1>4. CASE AnswerWhole \/ Leave
  BY <1>1, <1>4 DEF AnswerWhole, Leave, Buffered, Native
<1>5. CASE Break
  <2>1. phase = "reading" /\ phase' = "broken" /\ UNCHANGED reading
    BY <1>5 DEF Break
  <2>2. FramesSound(answer.frames) /\ Good(Now)
    BY <1>1, <2>1 DEF TurnSound
  <2>3. FramesSound(answer'.frames) /\ Good(Now)'
    BY <1>1, <2>1, <2>2 DEF reading, Good, Now
  <2> QED
    BY <1>1, <2>1, <2>3 DEF TurnSound, Unread
<1>6. CASE UNCHANGED vars
  <2>1. UNCHANGED <<deal, phase, answer, buf, got, r, read, ended>>
    BY <1>6 DEF vars, reading
  <2>2. (Good(Now)' <=> Good(Now)) /\ (Waits' <=> Waits)
    BY <2>1 DEF Good, Now, Waits
  <2> QED
    BY <2>1, <2>2 DEF TurnSound, Unread
<1> QED
  BY <1>2, <1>3, <1>4, <1>5, <1>6

LEMMA TurnStaysSound == ReadSound /\ TurnSound /\ [Next]_vars => TurnSound'
<1> SUFFICES ASSUME ReadSound, TurnSound, [Next]_vars PROVE TurnSound'
  OBVIOUS
<1>1. CASE AnswerStream
  BY <1>1, AnswerStreamKeeps
<1>2. CASE Chunk
  BY <1>2, ChunkKeeps
<1>3. CASE End
  BY <1>3, EndKeeps
<1>4. CASE Parse \/ Build \/ AnswerWhole \/ Leave \/ Break \/ UNCHANGED vars
  BY <1>4, TurnOthers
<1> QED
  BY <1>1, <1>2, <1>3, <1>4 DEF Next

(* What a closed turn holds, and where.                                      *)
CallsIn(list, calls) ==
  \A j \in 1 .. Len(calls) : calls[j].name # "" =>
    \E i \in 1 .. Len(list) : list[i].type = "function_call" /\ list[i].calls = <<calls[j]>>

Closed(list, text, calls) ==
  /\ list \in Seq(Items) /\ list # << >> /\ Spread(TextItem, list) = text
  /\ \A i \in 1 .. Len(list) : list[i].type = "response.created" <=> i = 1
  /\ \A i \in 1 .. Len(list) : list[i].type = "response.completed" <=> i = Len(list)
  /\ \A i \in 1 .. Len(list) : list[i].type = "message" => list[i].text = text
  /\ text # << >> => \E i \in 1 .. Len(list) : list[i].type = "message"
  /\ CallsIn(list, calls)

LEMMA ClosedHolds ==
  ASSUME NEW list, NEW text, NEW calls, ClosedRead(list, text, calls)
  PROVE  Closed(list, text, calls)
<1>1. PICK open, t : OpenRead(open, text) /\ open # << >> /\ Terminal(t, text, calls) /\ list = open \o t
  BY DEF ClosedRead
<1> DEFINE m == Len(open)
           n == Len(t)
<1>2. open \in Seq(Items) /\ t \in Seq(Items)
  BY <1>1 DEF OpenRead, Terminal
<1>3. Spread(TextItem, open \o t) = Spread(TextItem, open) \o Spread(TextItem, t)
  <2> DEFINE A == Items
             W == Words
  <2>1. TextItem \in [A -> Seq(W)]
    BY PartsOfItems
  <2>2. open \in Seq(A) /\ t \in Seq(A)
    BY <1>2
  <2> HIDE DEF A, W
  <2> QED
    BY ONLY <2>1, <2>2, SpreadGlued
<1>4. Spread(TextItem, list) = text
  <2>1. Spread(TextItem, open) = text /\ Spread(TextItem, t) = << >> /\ text \o << >> = text
    BY <1>1, OpenIs DEF OpenRead, Terminal
  <2> QED
    BY <1>1, <1>3, <2>1
<1>5. Joined(Items, open \o t, open, t)
  BY <1>2, ConcatIs
<1>6. /\ list \in Seq(Items) /\ m \in Nat /\ n \in Nat /\ Len(list) = m + n
      /\ \A i \in 1 .. m : list[i] = open[i]
      /\ \A i \in 1 .. n : list[m + i] = t[i]
      /\ \A i \in 1 .. Len(list) : i \in 1 .. m \/ \E j \in 1 .. n : i = m + j
  BY <1>1, <1>5 DEF Joined
<1>7. m >= 1
  <2>1. m # 0
    BY <1>1, <1>2, EmptySeq
  <2> QED
    BY <1>6, <2>1
<1>8. n >= 1
  BY <1>1 DEF Terminal
<1>9. \A i \in 1 .. m : open[i].type = IF i = 1 THEN "response.created" ELSE "response.output_text.delta"
  BY <1>1 DEF OpenRead
<1>10. t[n].type = "response.completed" /\ \A i \in 1 .. n - 1 : t[i].type \in Closing /\ (t[i].type = "message" => t[i].text = text)
  BY <1>1 DEF Terminal, Closes
<1>11. text # << >> => \E i \in 1 .. n : t[i].type = "message"
  BY <1>1 DEF Terminal
<1>12. \A j \in 1 .. Len(calls) : calls[j].name # "" =>
         \E i \in 1 .. n : t[i].type = "function_call" /\ t[i].calls = <<calls[j]>>
  BY <1>1 DEF Terminal
<1> HIDE DEF m, n
<1> DEFINE created == "response.created"
           delta == "response.output_text.delta"
           message == "message"
           call == "function_call"
           completed == "response.completed"
<1>13. /\ created # delta /\ created # message /\ created # call /\ created # completed
       /\ delta # message /\ completed # delta /\ completed # message /\ completed # call
  BY TypesDiffer DEF DeltaTypes
<1>14. \A i \in 1 .. m : list[i].type = IF i = 1 THEN created ELSE delta
  BY <1>6, <1>9
<1>15. \A i \in 1 .. n : IF i = n THEN t[i].type = completed
                         ELSE t[i].type \in {message, call} /\ (t[i].type = message => t[i].text = text)
  <2> TAKE i \in 1 .. n
  <2>1. CASE i = n
    BY <1>10, <2>1
  <2>2. CASE i # n
    <3>1. i \in 1 .. n - 1
      BY <1>6, <2>2
    <3> QED
      BY <1>10, <2>2, <3>1 DEF Closing
  <2> QED
    BY <2>1, <2>2
<1> HIDE DEF created, delta, message, call, completed
<1>16. ASSUME NEW i \in 1 .. Len(list)
       PROVE  /\ list[i].type = created <=> i = 1
              /\ list[i].type = completed <=> i = Len(list)
              /\ list[i].type = message => list[i].text = text
  <2>1. CASE i \in 1 .. m
    <3>1. list[i].type = IF i = 1 THEN created ELSE delta
      BY <1>14, <2>1
    <3>2. i # Len(list)
      BY <1>6, <1>8, <2>1
    <3> QED
      BY <1>13, <3>1, <3>2
  <2>2. CASE \E j \in 1 .. n : i = m + j
    <3>1. PICK j \in 1 .. n : i = m + j
      BY <2>2
    <3>2. list[i] = t[j]
      BY <1>6, <3>1
    <3>3. i # 1 /\ (i = Len(list) <=> j = n)
      BY <1>6, <1>7, <3>1
    <3>4. IF j = n THEN t[j].type = completed
          ELSE t[j].type \in {message, call} /\ (t[j].type = message => t[j].text = text)
      BY <1>15
    <3> QED
      BY <1>13, <3>2, <3>3, <3>4
  <2> QED
    BY <1>6, <2>1, <2>2
<1>17. \A i \in 1 .. n : m + i \in 1 .. Len(list) /\ list[m + i] = t[i]
  BY <1>6
<1>18. text # << >> => \E i \in 1 .. Len(list) : list[i].type = "message"
  BY <1>11, <1>17
<1>19. \A j \in 1 .. Len(calls) : calls[j].name # "" =>
         \E i \in 1 .. Len(list) : list[i].type = "function_call" /\ list[i].calls = <<calls[j]>>
  <2> SUFFICES ASSUME NEW j \in 1 .. Len(calls), calls[j].name # ""
               PROVE  \E i \in 1 .. Len(list) : list[i].type = "function_call" /\ list[i].calls = <<calls[j]>>
    OBVIOUS
  <2>1. PICK i \in 1 .. n : t[i].type = "function_call" /\ t[i].calls = <<calls[j]>>
    BY <1>12
  <2> QED
    BY <1>17, <2>1
<1>20. Len(list) \in Nat /\ list # << >>
  <2>1. Len(list) \in Nat /\ Len(list) # 0
    BY <1>6, <1>7
  <2>2. Len(<< >>) = 0
    OBVIOUS
  <2> QED
    BY <2>1, <2>2
<1> QED
  BY <1>4, <1>6, <1>16, <1>18, <1>19, <1>20 DEF created, completed, message, Closed, CallsIn

LEMMA OpenHolds ==
  ASSUME NEW list, NEW text, OpenRead(list, text)
  PROVE  /\ list \in Seq(Items) /\ Spread(TextItem, list) = text
         /\ \A i \in 1 .. Len(list) : list[i].type = "response.created" <=> i = 1
         /\ \A i \in 1 .. Len(list) : list[i].type # "response.completed" /\ list[i].type # "message"
BY TypesDiffer DEF OpenRead, DeltaTypes

(* What the text of a stream is.                                             *)
LEMMA TextIs ==
  ASSUME deal.stream, read \in Seq(Items)
  PROVE  TextRead = Spread(TextItem, read) /\ DOMAIN read = 1 .. Len(read) /\ Len(read) \in Nat
<1>1. DOMAIN read = 1 .. Len(read) /\ Len(read) \in Nat
  BY LenProperties
<1>2. \A i \in DOMAIN read : read[i] \in Items
  BY ONLY read \in Seq(Items), ElementOfSeq, <1>1
<1>3. \A i \in DOMAIN read :
        TextItem[read[i]] = IF read[i].type \in DeltaTypes \/ (~deal.stream /\ read[i].type = "message")
                            THEN read[i].text ELSE << >>
  BY <1>2 DEF TextItem
<1>4. [i \in DOMAIN read |-> TextItem[read[i]]] =
        [i \in DOMAIN read |->
           IF read[i].type \in DeltaTypes \/ (~deal.stream /\ read[i].type = "message")
           THEN read[i].text ELSE << >>]
  BY <1>3
<1> QED
  BY <1>1, <1>4 DEF TextRead, Spread

(* The fragments of a call and their arguments.                              *)
LEMMA FragmentsAre ==
  ASSUME NEW said \in Seq(Fragments), NEW index
  PROVE  /\ FlattenSeq([i \in DOMAIN said |-> IF said[i].index = index THEN <<said[i]>> ELSE << >>]) = Spread(OfIndex(index), said)
         /\ ArgumentsOf(said) = Spread(Arguments, said)
<1>1. DOMAIN said = 1 .. Len(said)
  BY LenProperties
<1>2. \A i \in DOMAIN said : said[i] \in Fragments
  <2> DEFINE F == Fragments
  <2>1. said \in Seq(F)
    OBVIOUS
  <2> HIDE DEF F
  <2>2. \A i \in DOMAIN said : said[i] \in F
    BY <1>1, <2>1
  <2> QED
    BY <2>2 DEF F
<1>3. \A i \in DOMAIN said : OfIndex(index)[said[i]] = IF said[i].index = index THEN <<said[i]>> ELSE << >>
  BY <1>2 DEF OfIndex
<1>4. \A i \in DOMAIN said : Arguments[said[i]] = said[i].arguments
  BY <1>2 DEF Arguments
<1>5. [i \in DOMAIN said |-> OfIndex(index)[said[i]]] =
        [i \in DOMAIN said |-> IF said[i].index = index THEN <<said[i]>> ELSE << >>]
  BY <1>3
<1>6. [i \in DOMAIN said |-> Arguments[said[i]]] = [i \in DOMAIN said |-> said[i].arguments]
  BY <1>4
<1> QED
  BY <1>5, <1>6 DEF Spread, ArgumentsOf

CallIn(list, of) ==
  \E i \in 1 .. Len(list) :
    /\ list[i].type = "function_call"
    /\ list[i].calls[1].arguments = ArgumentsOf(of)
    /\ list[i].calls[1].id \in {f.id : f \in Range(of)}

(* Every call with a name is among the items, with its own arguments.        *)
LEMMA CallsCarried ==
  ASSUME NEW calls, NEW said, CallsSound(calls, said), NEW list, NEW index \in Nat,
         CallsIn(list, calls),
         NEW of, of = Spread(OfIndex(index), said), \E f \in Range(of) : f.name # ""
  PROVE  CallIn(list, of)
<1>1. said \in Seq(Fragments) /\ calls \in Seq(CallRecs)
  BY DEF CallsSound
<1>2. of \in Seq(Fragments)
  <2> DEFINE F == Fragments
  <2>1. OfIndex(index) \in [F -> Seq(F)] /\ said \in Seq(F)
    BY <1>1, PartsOfCalls
  <2> HIDE DEF F
  <2>2. Spread(OfIndex(index), said) \in Seq(F)
    BY ONLY <2>1, SpreadIs
  <2> QED
    BY <2>2 DEF F
<1>3. DOMAIN of = 1 .. Len(of)
  BY ONLY <1>2, LenProperties
<1>4. of # << >>
  <2> SUFFICES ASSUME of = << >> PROVE FALSE
    OBVIOUS
  <2>1. of = << >>
    OBVIOUS
  <2>2. Len(of) = 0
    BY ONLY <2>1
  <2>3. DOMAIN of = {}
    BY ONLY <1>3, <2>2
  <2> QED
    BY <2>3 DEF Range
<1> DEFINE j == index + 1
<1>5. j <= Len(calls) /\ CallSound(calls[j], of)
  BY <1>4 DEF CallsSound
<1>6. j \in 1 .. Len(calls)
  <2>1. Len(calls) \in Nat
    BY ONLY <1>1, LenProperties
  <2> DEFINE n == Len(calls)
  <2>2. n \in Nat /\ j <= n
    BY <1>5, <2>1
  <2>3. index \in Nat
    OBVIOUS
  <2> HIDE DEF n
  <2>4. j \in 1 .. n
    BY ONLY <2>2, <2>3
  <2> HIDE DEF j
  <2> QED
    BY <2>4 DEF n
<1> HIDE DEF j
<1>7. \E i \in 1 .. Len(of) : of[i].name # ""
  BY <1>3 DEF Range
<1>8. /\ calls[j].arguments = Spread(Arguments, of) /\ calls[j].name # ""
      /\ \E i \in 1 .. Len(of) : of[i].id = calls[j].id
  BY <1>4, <1>5, <1>7 DEF CallSound
<1>9. calls[j].id \in {f.id : f \in Range(of)}
  BY <1>3, <1>8 DEF Range
<1>10. ArgumentsOf(of) = Spread(Arguments, of)
  BY <1>2, FragmentsAre
<1>11. PICK i \in 1 .. Len(list) : list[i].type = "function_call" /\ list[i].calls = <<calls[j]>>
  BY <1>6, <1>8 DEF CallsIn
<1>12. list[i].calls[1] = calls[j]
  <2>1. \A c : <<c>>[1] = c
    OBVIOUS
  <2>2. list[i].calls = <<calls[j]>>
    BY <1>11
  <2> QED
    BY ONLY <2>1, <2>2
<1> QED
  BY <1>8, <1>9, <1>10, <1>11, <1>12 DEF CallIn

LEMMA ClosedTurn ==
  ASSUME deal.stream, NEW text, NEW calls, ClosedRead(read, text, calls), Heeds(answer.frames, deal.kind, calls, got)
  PROVE  TurnIsClosed
<1>1. Closed(read, text, calls)
  BY ClosedHolds
<1>2. read \in Seq(Items) /\ read # << >> /\ Spread(TextItem, read) = text /\ CallsIn(read, calls)
  BY <1>1 DEF Closed
<1>3. TextRead = text /\ DOMAIN read = 1 .. Len(read) /\ Len(read) \in Nat
  BY <1>2, TextIs
<1> DEFINE n == Len(read)
<1>4. 1 \in 1 .. n /\ n \in 1 .. n
  <2>1. n # 0
    BY ONLY <1>2, EmptySeq
  <2> HIDE DEF n
  <2>2. n \in Nat
    BY <1>3 DEF n
  <2> QED
    BY ONLY <2>1, <2>2
<1>5. Types("response.created") = {1} /\ Types("response.completed") = {n}
  <2>1. \A i \in 1 .. n : read[i].type = "response.created" <=> i = 1
    BY <1>1 DEF Closed
  <2>2. \A i \in 1 .. n : read[i].type = "response.completed" <=> i = n
    BY <1>1 DEF Closed
  <2> HIDE DEF n
  <2>3. DOMAIN read = 1 .. n
    BY <1>3 DEF n
  <2>4. Types("response.created") = {1}
    BY ONLY <1>4, <2>1, <2>3 DEF Types
  <2>5. Types("response.completed") = {n}
    BY ONLY <1>4, <2>2, <2>3 DEF Types
  <2> QED
    BY <2>4, <2>5
<1>6. /\ \A i \in Types("message") : read[i].text = TextRead
      /\ TextRead # << >> => Types("message") # {}
  <2>1. /\ \A i \in 1 .. n : read[i].type = "message" => read[i].text = text
        /\ text # << >> => \E i \in 1 .. n : read[i].type = "message"
    BY <1>1 DEF Closed
  <2> QED
    BY <1>3, <2>1 DEF Types
<1>7. ASSUME deal.kind = "openai", NEW index \in {f.index : f \in Range(Said)},
             \E f \in Range(CallSaid(index)) : f.name # ""
      PROVE  \E i \in Types("function_call") :
               /\ read[i].calls[1].arguments = ArgumentsOf(CallSaid(index))
               /\ read[i].calls[1].id \in {f.id : f \in Range(CallSaid(index))}
  <2>1. CallsSound(calls, Said)
    BY <1>7, SaidIs DEF Heeds
  <2>2. Said \in Seq(Fragments)
    BY <2>1 DEF CallsSound
  <2>3. CallSaid(index) = Spread(OfIndex(index), Said)
    BY <2>2, FragmentsAre DEF CallSaid
  <2>4. index \in Nat
    <3>1. DOMAIN Said = 1 .. Len(Said)
      BY ONLY <2>2, LenProperties
    <3>2. \A i \in 1 .. Len(Said) : Said[i] \in Fragments
      <4> DEFINE F == Fragments
      <4>1. Said \in Seq(F)
        BY <2>2
      <4> HIDE DEF F
      <4>2. \A i \in 1 .. Len(Said) : Said[i] \in F
        BY <4>1
      <4> QED
        BY <4>2 DEF F
    <3>3. \A f \in Fragments : f.index \in Nat
      BY DEF Fragments
    <3> QED
      BY <1>7, <3>1, <3>2, <3>3 DEF Range
  <2> DEFINE of == CallSaid(index)
             list == read
             said == Said
  <2>5. /\ CallsSound(calls, said) /\ of = Spread(OfIndex(index), said) /\ \E f \in Range(of) : f.name # ""
        /\ CallsIn(list, calls)
    BY <1>2, <1>7, <2>1, <2>3
  <2> HIDE DEF of, list, said
  <2>6. CallIn(list, of)
    BY <2>4, <2>5, CallsCarried
  <2> QED
    BY <1>3, <2>6 DEF of, list, Types, CallIn
<1> QED
  BY <1>5, <1>6, <1>7 DEF TurnIsClosed

LEMMA OpenTurn ==
  ASSUME deal.stream, NEW text, OpenRead(read, text), phase # "done"
  PROVE  TurnIsClosed
<1>1. /\ read \in Seq(Items)
      /\ \A i \in 1 .. Len(read) : read[i].type = "response.created" <=> i = 1
      /\ \A i \in 1 .. Len(read) : read[i].type # "response.completed" /\ read[i].type # "message"
  BY OpenHolds
<1>2. DOMAIN read = 1 .. Len(read) /\ Len(read) \in Nat
  BY <1>1, TextIs
<1>3. Types("response.completed") = {} /\ Types("message") = {}
  BY <1>1, <1>2 DEF Types
<1>4. read # << >> => Types("response.created") = {1}
  <2> SUFFICES ASSUME read # << >> PROVE Types("response.created") = {1}
    OBVIOUS
  <2>1. Len(read) # 0
    BY <1>1, EmptySeq
  <2>2. 1 \in 1 .. Len(read)
    BY <1>2, <2>1
  <2> QED
    BY <1>1, <1>2, <2>2 DEF Types
<1> QED
  BY <1>3, <1>4 DEF TurnIsClosed

LEMMA TurnIsSound == TurnSound => TurnIsClosed
<1> SUFFICES ASSUME TurnSound, deal.surface = "responses", deal.stream PROVE TurnIsClosed
  BY DEF TurnIsClosed
<1>1. CASE phase \in Unread
  <2>1. OpenRead(read, << >>) /\ phase # "done"
    BY <1>1, OpenNone DEF TurnSound, Unread
  <2> QED
    BY <2>1, OpenTurn
<1>2. CASE phase \in {"reading", "broken"}
  <2>1. Good(Now) /\ phase # "done"
    BY <1>2 DEF TurnSound
  <2>2. CASE ended
    <3>1. ClosedRead(read, r.text, r.calls) /\ Heeds(answer.frames, deal.kind, r.calls, got)
      BY <2>1, <2>2 DEF Good, Now, TurnGood
    <3> QED
      BY <3>1, ClosedTurn
  <2>3. CASE ~ended
    <3>1. OpenRead(read, r.text)
      BY <2>1, <2>3 DEF Good, Now, TurnGood
    <3> QED
      BY <2>1, <3>1, OpenTurn
  <2> QED
    BY <2>2, <2>3
<1>3. CASE phase = "done"
  <2>1. ClosedRead(read, r.text, r.calls) /\ Heeds(answer.frames, deal.kind, r.calls, got)
    BY <1>3 DEF TurnSound
  <2> QED
    BY <2>1, ClosedTurn
<1> QED
  BY <1>1, <1>2, <1>3 DEF TurnSound

(* What Codex needs of native.rs and ResponsesRenderer: in a stream of the   *)
(* Responses surface response.created comes first, response.completed once,  *)
(* last, and always unless the connection breaks; before it the whole text   *)
(* the client has read, and, of an OpenAI upstream, every call that has a    *)
(* name, with the fragments of its arguments joined in their order, however  *)
(* the fragments of several calls mingle and the network cuts the stream.    *)
THEOREM TurnsAreClosed == Spec => []TurnIsClosed
<1>1. Init => ReadSound /\ TurnSound
  BY ReadStarts, TurnStarts
<1>2. ReadSound /\ TurnSound /\ [Next]_vars => ReadSound' /\ TurnSound'
  BY ReadStaysSound, TurnStaysSound
<1>3. TurnSound => TurnIsClosed
  BY TurnIsSound
<1> QED
  BY <1>1, <1>2, <1>3, PTL DEF Spec

-----------------------------------------------------------------------------
(* The text of what a client has been sent.                                  *)

TextPart(x) ==
  IF x.type \in DeltaTypes \/ (~deal.stream /\ x.type = "message") THEN x.text ELSE << >>

ReadText(list) == FlattenSeq([i \in DOMAIN list |-> TextPart(list[i])])

Sane(list) ==
  /\ Len(list) \in Nat /\ list = [i \in 1 .. Len(list) |-> list[i]]
  /\ \A i \in 1 .. Len(list) : TextPart(list[i]) \in Seq(Words)

LEMMA ReadTextIs == TextRead = ReadText(read)
BY DEF TextRead, ReadText, TextPart

(* A map of items to their texts, for the items of two lists.                *)
IsTextMap(F, A) ==
  /\ F \in [A -> Seq(Words)] /\ \A x \in A : F[x] = TextPart(x)
  /\ \A s \in Seq(A) : Sane(s) /\ ReadText(s) = Spread(F, s)

LEMMA TextParts ==
  ASSUME NEW a, Sane(a), NEW b, Sane(b)
  PROVE  \E A, F : IsTextMap(F, A) /\ a \in Seq(A) /\ b \in Seq(A)
<1> DEFINE A == {a[i] : i \in 1 .. Len(a)} \cup {b[i] : i \in 1 .. Len(b)}
           F == [x \in A |-> TextPart(x)]
<1>1. /\ Len(a) \in Nat /\ a = [i \in 1 .. Len(a) |-> a[i]]
      /\ \A i \in 1 .. Len(a) : TextPart(a[i]) \in Seq(Words)
      /\ Len(b) \in Nat /\ b = [i \in 1 .. Len(b) |-> b[i]]
      /\ \A i \in 1 .. Len(b) : TextPart(b[i]) \in Seq(Words)
  BY DEF Sane
<1>2. \A x \in A : TextPart(x) \in Seq(Words)
  BY <1>1
<1>3. (\A i \in 1 .. Len(a) : a[i] \in A) /\ (\A i \in 1 .. Len(b) : b[i] \in A)
  OBVIOUS
<1> HIDE DEF A
<1>4. F \in [A -> Seq(Words)] /\ \A x \in A : F[x] = TextPart(x)
  BY <1>2
<1>5. a \in Seq(A) /\ b \in Seq(A)
  BY <1>1, <1>3
<1> HIDE DEF F
<1>6. ASSUME NEW s \in Seq(A)
      PROVE  Sane(s) /\ ReadText(s) = Spread(F, s)
  <2>1. Len(s) \in Nat /\ DOMAIN s = 1 .. Len(s) /\ s = [i \in 1 .. Len(s) |-> s[i]]
    BY <1>6
  <2>2. \A i \in 1 .. Len(s) : s[i] \in A
    BY <1>6
  <2>3. \A i \in 1 .. Len(s) : TextPart(s[i]) \in Seq(Words)
    BY <1>2, <2>2
  <2>4. [i \in DOMAIN s |-> TextPart(s[i])] = [i \in DOMAIN s |-> F[s[i]]]
    BY <1>4, <2>1, <2>2
  <2> QED
    BY <2>1, <2>3, <2>4 DEF Sane, ReadText, Spread
<1>7. IsTextMap(F, A)
  BY <1>4, <1>6 DEF IsTextMap
<1> QED
  BY <1>5, <1>7

LEMMA TextGlued ==
  ASSUME NEW a, Sane(a), NEW b, Sane(b)
  PROVE  Sane(a \o b) /\ ReadText(a \o b) = ReadText(a) \o ReadText(b) /\ ReadText(a) \in Seq(Words)
<1>1. PICK A, F : IsTextMap(F, A) /\ a \in Seq(A) /\ b \in Seq(A)
  BY TextParts
<1> DEFINE T == Words
<1>2. F \in [A -> Seq(T)] /\ a \in Seq(A) /\ b \in Seq(A)
  BY <1>1 DEF IsTextMap
<1> HIDE DEF T
<1>3. Spread(F, a \o b) = Spread(F, a) \o Spread(F, b)
  BY ONLY <1>2, SpreadGlued
<1>4. a \o b \in Seq(A)
  BY ONLY <1>2
<1>5. Spread(F, a) \in Seq(T)
  BY ONLY <1>2, SpreadIs
<1> QED
  BY <1>1, <1>2, <1>3, <1>4, <1>5 DEF T, IsTextMap

LEMMA NoText ==
  ASSUME NEW list, Len(list) \in Nat, list = [i \in 1 .. Len(list) |-> list[i]],
         \A i \in 1 .. Len(list) : TextPart(list[i]) = << >>
  PROVE  Sane(list) /\ ReadText(list) = << >>
<1>1. Sane(list)
  BY EmptyIn DEF Sane
<1>2. PICK A, F : IsTextMap(F, A) /\ list \in Seq(A)
  BY <1>1, TextParts
<1> DEFINE T == Words
<1>3. F \in [A -> Seq(T)] /\ list \in Seq(A)
  BY <1>2 DEF IsTextMap
<1> HIDE DEF T
<1>4. \A i \in 1 .. Len(list) : list[i] \in A
  BY ONLY <1>3
<1>5. \A i \in 1 .. Len(list) : F[list[i]] = << >>
  BY <1>2, <1>4 DEF IsTextMap
<1>6. Spread(F, list) = << >>
  BY ONLY <1>3, <1>5, SpreadNothing
<1> QED
  BY <1>1, <1>2, <1>6 DEF IsTextMap

LEMMA NoneRead == Sane(<< >>) /\ ReadText(<< >>) = << >>
<1> DEFINE list == << >>
<1>1. Len(list) = 0 /\ list = [i \in 1 .. Len(list) |-> list[i]]
  OBVIOUS
<1> HIDE DEF list
<1>2. Len(list) \in Nat /\ \A i \in 1 .. Len(list) : TextPart(list[i]) = << >>
  BY <1>1
<1>3. Sane(list) /\ ReadText(list) = << >>
  BY ONLY <1>1, <1>2, NoText
<1> QED
  BY <1>3 DEF list

LEMMA OneRead ==
  ASSUME NEW x, TextPart(x) \in Seq(Words)
  PROVE  Sane(<<x>>) /\ ReadText(<<x>>) = TextPart(x)
<1> DEFINE list == <<x>>
<1>1. Len(list) = 1 /\ list = [i \in 1 .. Len(list) |-> list[i]] /\ \A i \in 1 .. Len(list) : list[i] = x
  OBVIOUS
<1>2. DOMAIN list = 1 .. 1 /\ list[1] = x
  OBVIOUS
<1> HIDE DEF list
<1>3. Sane(list)
  BY <1>1 DEF Sane
<1> DEFINE seqs == [i \in DOMAIN list |-> TextPart(list[i])]
<1>4. Len(seqs) = 1 /\ seqs[1] = TextPart(x)
  BY <1>2
<1> HIDE DEF seqs
<1>5. FlattenSeq(seqs) = TextPart(x)
  <2>1. 1 \in Nat /\ 1 # 0
    OBVIOUS
  <2>2. PICK f : IsFlat(f, seqs, 1) /\ FlattenSeq(seqs) = f[1]
    BY <1>4, <2>1, FlatIs
  <2>3. f[1] = seqs[1]
    BY <2>2 DEF IsFlat
  <2> QED
    BY <1>4, <2>2, <2>3
<1>6. ReadText(list) = TextPart(x)
  BY <1>5 DEF ReadText, seqs
<1> QED
  BY <1>3, <1>6 DEF list

(* A piece as the upstream said it, or damaged by a cut.                     *)
Resembles(t, u) ==
  /\ t \in Seq(Words) /\ u \in Seq(Words) /\ Len(t) = Len(u)
  /\ \A i \in 1 .. Len(u) : Same(t[i], u[i])

LEMMA ResembleGlued ==
  ASSUME NEW t, NEW u, Resembles(t, u), NEW t2, NEW u2, Resembles(t2, u2)
  PROVE  Resembles(t \o t2, u \o u2)
<1> DEFINE A == Words
<1>1. t \in Seq(A) /\ u \in Seq(A) /\ t2 \in Seq(A) /\ u2 \in Seq(A) /\ Len(t) = Len(u) /\ Len(t2) = Len(u2)
  BY DEF Resembles
<1> HIDE DEF A
<1>2. Joined(A, t \o t2, t, t2) /\ Joined(A, u \o u2, u, u2)
  BY ONLY <1>1, ConcatIs
<1> DEFINE v == t \o t2
           w == u \o u2
<1> HIDE DEF v, w
<1>3. /\ v \in Seq(A) /\ w \in Seq(A) /\ Len(v) = Len(w) /\ Len(w) = Len(u) + Len(u2)
      /\ \A i \in 1 .. Len(u) : v[i] = t[i] /\ w[i] = u[i]
      /\ \A i \in 1 .. Len(u2) : v[Len(u) + i] = t2[i] /\ w[Len(u) + i] = u2[i]
      /\ \A i \in 1 .. Len(w) : i \in 1 .. Len(u) \/ \E j \in 1 .. Len(u2) : i = Len(u) + j
  BY <1>1, <1>2 DEF Joined, v, w
<1>4. \A i \in 1 .. Len(w) : Same(v[i], w[i])
  BY <1>3 DEF Resembles
<1> QED
  BY <1>3, <1>4 DEF Resembles, A, v, w

LEMMA ResembleNone == Resembles(<< >>, << >>)
BY EmptyIn DEF Resembles

LEMMA ResembleSelf == \A t \in Seq(Words) : Resembles(t, t)
BY DEF Resembles, Same

-----------------------------------------------------------------------------
(* The text of what the upstream has said.                                   *)

Shown(frame) == IF Hidden(frame) THEN << >> ELSE frame.text

SaidText(frames, k) == FlattenSeq([i \in 1 .. k |-> Shown(frames[i])])

(* One of the first k frames is an end, and no text comes after it.          *)
Over(frames, k) == \E i \in 1 .. k : EndsStream(frames[i])

SpeaksAs(kind, frame) ==
  frame.text # << >> => frame.type # "[DONE]" /\ (kind = "anthropic" => frame.type = "content_block_delta")

SpeechSound(frames, kind) ==
  /\ \A i \in 1 .. Len(frames) : SpeaksAs(kind, frames[i])
  /\ \A i, j \in 1 .. Len(frames) : i < j /\ EndsStream(frames[i]) => frames[j].text = << >>

LEMMA SpeechIs ==
  ASSUME NEW kind \in Kinds, kind # "responses", NEW frames \in Streams(kind)
  PROVE  FramesSound(frames) /\ SpeechSound(frames, kind) /\ DOMAIN frames = 1 .. Len(frames) /\ Len(frames) \in Nat
<1>1. frames \in Seq(Frames)
  BY StreamAssumption
<1>2. DOMAIN frames = 1 .. Len(frames) /\ Len(frames) \in Nat
  BY ONLY <1>1, LenProperties
<1>3. \A i \in 1 .. Len(frames) : frames[i] \in Range(frames)
  BY ONLY <1>2 DEF Range
<1>4. FramesSound(frames)
  BY <1>1, <1>3, StreamAssumption DEF FramesSound
<1>5. \A i \in 1 .. Len(frames) : SpeaksAs(kind, frames[i])
  BY <1>3, SpeechAssumption DEF SpeaksAs
<1>6. \A i, j \in 1 .. Len(frames) : i < j /\ EndsStream(frames[i]) => frames[j].text = << >>
  BY <1>2, SpeechAssumption
<1> QED
  BY <1>2, <1>4, <1>5, <1>6 DEF SpeechSound

LEMMA TextsAre ==
  ASSUME NEW frames, FramesSound(frames)
  PROVE  \A i \in 1 .. Len(frames) : frames[i].text \in Seq(Words) /\ Shown(frames[i]) \in Seq(Words)
<1> TAKE i \in 1 .. Len(frames)
<1>1. frames[i] \in Frames
  BY FrameIs
<1>2. frames[i].text \in Seq(STRING)
  BY <1>1 DEF Frames
<1> QED
  BY <1>2, WordsAre, EmptyIn DEF Shown

LEMMA SaidTextNone == \A frames : SaidText(frames, 0) = << >>
<1> TAKE frames
<1> DEFINE seqs == [i \in 1 .. 0 |-> Shown(frames[i])]
<1>1. Len(seqs) = 0
  <2>1. seqs \in [1 .. 0 -> {}]
    OBVIOUS
  <2> HIDE DEF seqs
  <2> QED
    BY <2>1
<1>2. FlattenSeq(seqs) = seqs
  BY <1>1 DEF FlattenSeq
<1>3. seqs = << >>
  OBVIOUS
<1> QED
  BY <1>2, <1>3 DEF SaidText

LEMMA SaidTextNext ==
  ASSUME NEW frames, FramesSound(frames), Len(frames) \in Nat, NEW k \in Nat, k + 1 <= Len(frames)
  PROVE  SaidText(frames, k + 1) = SaidText(frames, k) \o Shown(frames[k + 1])
<1> DEFINE T == Words
           c(i) == Shown(frames[i])
           gs == [i \in 1 .. k |-> c(i)]
           ga == [i \in 1 .. k + 1 |-> c(i)]
           y == c(k + 1)
<1>1. \A i \in 1 .. k + 1 : c(i) \in Seq(T)
  BY TextsAre
<1>2. SaidText(frames, k) = FlattenSeq(gs) /\ SaidText(frames, k + 1) = FlattenSeq(ga)
  BY DEF SaidText
<1> HIDE DEF c, T
<1>3. gs \in Seq(Seq(T)) /\ Len(gs) = k /\ y \in Seq(T)
  <2>1. \A i \in 1 .. k : i \in 1 .. k + 1
    OBVIOUS
  <2>2. gs \in [1 .. k -> Seq(T)] /\ k + 1 \in 1 .. k + 1
    BY <1>1, <2>1
  <2> QED
    BY <1>1, <2>2
<1>4. ga = Append(gs, y)
  <2>1. /\ Append(gs, y) \in Seq(Seq(T)) /\ Len(Append(gs, y)) = k + 1
        /\ Append(gs, y)[k + 1] = y /\ \A i \in 1 .. k : Append(gs, y)[i] = gs[i]
    <3> HIDE DEF gs, y
    <3> QED
      BY <1>3, AppendProperties
  <2> DEFINE b == Append(gs, y)
  <2>2. \A i \in 1 .. k + 1 : b[i] = c(i)
    <3> TAKE i \in 1 .. k + 1
    <3>1. CASE i = k + 1
      BY <2>1, <3>1
    <3>2. CASE i # k + 1
      <4>1. i \in 1 .. k
        BY <3>2
      <4> QED
        BY <2>1, <4>1
    <3> QED
      BY <3>1, <3>2
  <2>3. b \in Seq(Seq(T)) /\ Len(b) = k + 1
    BY <2>1
  <2> HIDE DEF b
  <2>4. b \in [1 .. k + 1 -> Seq(T)]
    BY <2>3
  <2>5. b = [i \in 1 .. k + 1 |-> b[i]]
    BY <2>4
  <2>6. b = ga
    BY <2>2, <2>5
  <2> QED
    BY <2>6 DEF b
<1> HIDE DEF gs, ga, y
<1>5. FlattenSeq(ga) = FlattenSeq(gs) \o y
  BY <1>3, <1>4, FlatAppend
<1> QED
  BY <1>2, <1>5 DEF y, c

IsFront(t, u) ==
  /\ t \in Seq(Words) /\ u \in Seq(Words) /\ Len(t) <= Len(u)
  /\ \A i \in 1 .. Len(t) : t[i] = u[i]

LEMMA FrontGrows ==
  ASSUME NEW t, NEW u, IsFront(t, u), NEW v \in Seq(Words)
  PROVE  IsFront(t, u \o v)
<1> DEFINE A == Words
           w == u \o v
<1>1. t \in Seq(A) /\ u \in Seq(A) /\ v \in Seq(A) /\ Len(t) <= Len(u) /\ \A i \in 1 .. Len(t) : t[i] = u[i]
  BY DEF IsFront
<1> HIDE DEF A
<1>2. Joined(A, w, u, v)
  BY ONLY <1>1, ConcatIs
<1> HIDE DEF w
<1>3. /\ w \in Seq(A) /\ Len(u) \in Nat /\ Len(v) \in Nat /\ Len(w) = Len(u) + Len(v)
      /\ \A i \in 1 .. Len(u) : w[i] = u[i]
  BY <1>2 DEF Joined
<1>4. Len(t) \in Nat
  BY ONLY <1>1, LenProperties
<1>5. Len(t) <= Len(w) /\ \A i \in 1 .. Len(t) : i \in 1 .. Len(u)
  BY <1>1, <1>3, <1>4
<1> QED
  BY <1>1, <1>3, <1>5 DEF IsFront, A, w

(* What has been said stays, and after an end nothing comes.                 *)
LEMMA SaidTextGrows ==
  ASSUME NEW frames, FramesSound(frames), Len(frames) \in Nat, NEW k \in Nat,
         NEW kind, SpeechSound(frames, kind), k <= Len(frames)
  PROVE  /\ SaidText(frames, k) \in Seq(Words)
         /\ IsFront(SaidText(frames, k), SaidText(frames, Len(frames)))
         /\ Over(frames, k) => SaidText(frames, Len(frames)) = SaidText(frames, k)
<1> DEFINE n == Len(frames)
           T(j) == SaidText(frames, j)
           Typed == {j \in Nat : j <= n => T(j) \in Seq(Words)}
           Grows == {d \in Nat : k + d <= n => IsFront(T(k), T(k + d)) /\ (Over(frames, k) => T(k + d) = T(k))}
<1>1. n \in Nat
  OBVIOUS
<1>2. \A j \in Nat : j + 1 <= n => T(j + 1) = T(j) \o Shown(frames[j + 1])
  BY <1>1, SaidTextNext
<1>3. \A i \in 1 .. n : Shown(frames[i]) \in Seq(Words)
  BY TextsAre
<1>4. T(0) = << >>
  BY SaidTextNone
<1>5. ASSUME Over(frames, k), NEW j \in Nat, k <= j, j + 1 <= n
      PROVE  Shown(frames[j + 1]) = << >>
  <2>1. PICK i \in 1 .. k : EndsStream(frames[i])
    BY <1>5 DEF Over
  <2>2. i \in 1 .. n /\ j + 1 \in 1 .. n /\ i < j + 1
    BY <1>1, <1>5
  <2>3. frames[j + 1].text = << >>
    BY <2>1, <2>2 DEF SpeechSound
  <2> QED
    BY <2>3 DEF Shown
<1> HIDE DEF n, T
<1>6. \A j \in Nat : j <= n => T(j) \in Seq(Words)
  <2>1. 0 \in Typed
    BY <1>4, EmptyIn
  <2>2. ASSUME NEW j \in Nat, j \in Typed
        PROVE  j + 1 \in Typed
    <3> SUFFICES ASSUME j + 1 <= n PROVE T(j + 1) \in Seq(Words)
      OBVIOUS
    <3>1. j <= n /\ j + 1 \in 1 .. n
      BY <1>1
    <3> DEFINE a == T(j)
               b == Shown(frames[j + 1])
               W == Words
    <3>2. a \in Seq(W) /\ b \in Seq(W)
      BY <1>3, <2>2, <3>1
    <3> HIDE DEF a, b, W
    <3>3. a \o b \in Seq(W)
      BY ONLY <3>2
    <3> QED
      BY <1>2, <3>3 DEF a, b, W
  <2> HIDE DEF Typed
  <2>3. \A j \in Nat : j \in Typed
    BY <2>1, <2>2, Induction
  <2> QED
    BY <2>3 DEF Typed
<1>7. \A d \in Nat : d \in Grows
  <2>1. 0 \in Grows
    <3>1. k + 0 = k /\ k <= n
      BY DEF n
    <3>2. T(k) \in Seq(Words)
      BY <1>6, <3>1
    <3>3. IsFront(T(k), T(k))
      <4> DEFINE t == T(k)
                 W == Words
      <4>1. t \in Seq(W)
        BY <3>2
      <4> HIDE DEF t, W
      <4>2. Len(t) \in Nat
        BY ONLY <4>1, LenProperties
      <4> QED
        BY <4>1, <4>2 DEF t, W, IsFront
    <3> QED
      BY <3>1, <3>3
  <2>2. ASSUME NEW d \in Nat, d \in Grows
        PROVE  d + 1 \in Grows
    <3> SUFFICES ASSUME k + (d + 1) <= n
                 PROVE  IsFront(T(k), T(k + (d + 1))) /\ (Over(frames, k) => T(k + (d + 1)) = T(k))
      OBVIOUS
    <3> DEFINE j == k + d
    <3>1. j \in Nat /\ k <= j /\ j + 1 <= n /\ k + (d + 1) = j + 1 /\ j <= n /\ j + 1 \in 1 .. n
      BY <1>1
    <3>2. IsFront(T(k), T(j)) /\ (Over(frames, k) => T(j) = T(k))
      BY <2>2, <3>1
    <3> HIDE DEF j
    <3>3. T(j + 1) = T(j) \o Shown(frames[j + 1]) /\ Shown(frames[j + 1]) \in Seq(Words) /\ T(j) \in Seq(Words)
      BY <1>2, <1>3, <1>6, <3>1
    <3>4. IsFront(T(k), T(j + 1))
      BY <3>2, <3>3, FrontGrows
    <3>5. Over(frames, k) => T(j + 1) = T(k)
      <4> SUFFICES ASSUME Over(frames, k) PROVE T(j + 1) = T(k)
        OBVIOUS
      <4>1. Shown(frames[j + 1]) = << >> /\ T(j) = T(k)
        BY <1>5, <3>1, <3>2
      <4> DEFINE a == T(j)
                 W == Words
      <4>2. a \in Seq(W)
        BY <3>3
      <4> HIDE DEF a, W
      <4>3. a \o << >> = a
        BY ONLY <4>2, ConcatEmptySeq
      <4> QED
        BY <3>3, <4>1, <4>3 DEF a
    <3> QED
      BY <3>1, <3>4, <3>5
  <2> HIDE DEF Grows
  <2> QED
    BY <2>1, <2>2, Induction
<1>8. n - k \in Nat /\ k + (n - k) = n /\ k <= n
  BY <1>1 DEF n
<1>9. IsFront(T(k), T(n)) /\ (Over(frames, k) => T(n) = T(k))
  <2> DEFINE d == n - k
  <2>1. d \in Nat /\ k + d = n
    BY <1>8
  <2> HIDE DEF d
  <2>2. d \in Grows
    BY <1>7, <2>1
  <2>3. k + d <= n => IsFront(T(k), T(k + d)) /\ (Over(frames, k) => T(k + d) = T(k))
    BY <2>2
  <2>4. n <= n
    BY <1>1
  <2> QED
    BY <2>1, <2>3, <2>4
<1> QED
  BY <1>6, <1>8, <1>9 DEF n, T

-----------------------------------------------------------------------------
(* The text of a frame, decoded and rendered.                                *)

Tells(kind, frame, ev) ==
  /\ ev.delta = frame.text
  /\ Ends(ev) => EndsStream(frame)
  /\ kind # "anthropic" => (ev.done <=> frame.finish # "")
  /\ kind = "anthropic" /\ ev.done => frame.text = << >>

Told(kind, frame, evs) ==
  \/ evs = << >> /\ frame.text = << >>
  \/ \E ev : evs = <<ev>> /\ EventSound(ev) /\ Tells(kind, frame, ev)

(* An event that tells of a frame, by its fields.                            *)
LEMMA ToldBy ==
  ASSUME NEW kind, NEW frame, NEW a \in Seq(Words), NEW b, NEW c \in Nat, NEW d \in Nat, NEW e,
         NEW g \in Seq(Fragments), a = frame.text, b # "" \/ e => EndsStream(frame),
         kind # "anthropic" => (e <=> frame.finish # ""), kind = "anthropic" /\ e => frame.text = << >>
  PROVE  Told(kind, frame, <<EventOf(a, b, c, d, e, g)>>)
<1> DEFINE x == EventOf(a, b, c, d, e, g)
<1>1. EventSound(x)
  BY EventIs
<1>2. x.delta = a /\ x.finish = b /\ x.done = e
  BY DEF EventOf
<1> HIDE DEF x
<1>3. Tells(kind, frame, x)
  BY <1>2 DEF Tells, Ends
<1>4. Told(kind, frame, <<x>>)
  BY <1>1, <1>3 DEF Told
<1> QED
  BY <1>4 DEF x

LEMMA AnthropicTells ==
  ASSUME NEW frame, FrameSound(frame), SpeaksAs("anthropic", frame)
  PROVE  Told("anthropic", frame, DecodeAnthropic(frame))
<1> DEFINE n == << >>
           z == ""
           o == FALSE
           y == Event
           text == frame.text
           prompt == frame.prompt
           completion == frame.completion
           f == AnthropicFinish(frame.finish)
           s == "stop"
           t == TRUE
           kind == "anthropic"
<1>1. n \in Seq(Words) /\ n \in Seq(Fragments) /\ text \in Seq(Words) /\ prompt \in Nat /\ completion \in Nat /\ 0 \in Nat
  BY EmptyIn DEF FrameSound
<1>2. y = EventOf(n, z, 0, 0, o, n)
  BY DEF Event, EventOf
<1>3. /\ frame.type = "content_block_delta" => DecodeAnthropic(frame) = <<[y EXCEPT !.delta = text]>>
      /\ frame.type = "message_start" => DecodeAnthropic(frame) = <<[y EXCEPT !.prompt = prompt]>>
  BY DEF DecodeAnthropic
<1>4. frame.type = "message_delta" => DecodeAnthropic(frame) = <<WithFinish(y, f, completion)>>
  BY DEF DecodeAnthropic, WithFinish
<1>5. frame.type = "message_stop" => DecodeAnthropic(frame) = <<WithStop(y, s, t)>>
  BY DEF DecodeAnthropic, WithStop
<1>6. frame.type \notin {"content_block_delta", "message_start", "message_delta", "message_stop"} =>
        DecodeAnthropic(frame) = << >>
  BY DEF DecodeAnthropic
<1>7. frame.type # "content_block_delta" => text = n
  BY DEF SpeaksAs
<1>8. f # z => EndsStream(frame)
  BY DEF AnthropicFinish, EndsStream
<1>9. frame.type = "message_stop" => EndsStream(frame)
  BY DEF EndsStream
<1>10. \A a \in Seq(Words) : \A c, d \in Nat : \A b, e :
         a = text /\ (b # z \/ e => EndsStream(frame)) /\ (e => text = n)
           => Told(kind, frame, <<EventOf(a, b, c, d, e, n)>>)
  <2> TAKE a \in Seq(Words)
  <2> TAKE c, d \in Nat
  <2> TAKE b, e
  <2> HAVE a = text /\ (b # z \/ e => EndsStream(frame)) /\ (e => text = n)
  <2>1. kind = "anthropic"
    OBVIOUS
  <2> DEFINE g == n
  <2>2. g \in Seq(Fragments)
    BY <1>1
  <2> HIDE DEF g, kind
  <2>3. Told(kind, frame, <<EventOf(a, b, c, d, e, g)>>)
    BY <2>1, <2>2, ToldBy
  <2> QED
    BY <2>3 DEF g
<1> HIDE DEF n, z, o, y, text, prompt, completion, f, s, t, kind
<1>11. [y EXCEPT !.delta = text] = EventOf(text, z, 0, 0, o, n) /\ [y EXCEPT !.prompt = prompt] = EventOf(n, z, prompt, 0, o, n)
  <2>1. [EventOf(n, z, 0, 0, o, n) EXCEPT !.delta = text] = EventOf(text, z, 0, 0, o, n)
    BY EventWithDelta
  <2>2. [EventOf(n, z, 0, 0, o, n) EXCEPT !.prompt = prompt] = EventOf(n, z, prompt, 0, o, n)
    BY EventWithPrompt
  <2> QED
    BY <1>2, <2>1, <2>2
<1>12. WithFinish(y, f, completion) = EventOf(n, f, 0, completion, o, n) /\ WithStop(y, s, t) = EventOf(n, s, 0, 0, t, n)
  BY <1>2, EventWithBoth
<1>13. ~o
  BY DEF o
<1>14. CASE frame.type = "content_block_delta"
  <2>1. Told(kind, frame, <<EventOf(text, z, 0, 0, o, n)>>)
    BY ONLY <1>1, <1>10, <1>13
  <2>2. DecodeAnthropic(frame) = <<EventOf(text, z, 0, 0, o, n)>>
    BY ONLY <1>3, <1>11, <1>14
  <2> QED
    BY <2>1, <2>2 DEF kind
<1>15. CASE frame.type = "message_start"
  <2>1. text = n
    BY <1>7, <1>15
  <2>2. Told(kind, frame, <<EventOf(n, z, prompt, 0, o, n)>>)
    BY ONLY <1>1, <1>10, <1>13, <2>1
  <2>3. DecodeAnthropic(frame) = <<EventOf(n, z, prompt, 0, o, n)>>
    BY ONLY <1>3, <1>11, <1>15
  <2> QED
    BY <2>2, <2>3 DEF kind
<1>16. CASE frame.type = "message_delta"
  <2>1. text = n
    BY <1>7, <1>16
  <2>2. Told(kind, frame, <<EventOf(n, f, 0, completion, o, n)>>)
    BY ONLY <1>1, <1>8, <1>10, <1>13, <2>1
  <2> QED
    BY <1>4, <1>12, <1>16, <2>2 DEF kind
<1>17. CASE frame.type = "message_stop"
  <2>1. text = n
    BY <1>7, <1>17
  <2>2. Told(kind, frame, <<EventOf(n, s, 0, 0, t, n)>>)
    BY ONLY <1>1, <1>9, <1>10, <1>17, <2>1
  <2> QED
    BY <1>5, <1>12, <1>17, <2>2 DEF kind
<1>18. CASE frame.type \notin {"content_block_delta", "message_start", "message_delta", "message_stop"}
  <2>1. DecodeAnthropic(frame) = n /\ text = n
    BY <1>6, <1>7, <1>18 DEF n
  <2> QED
    BY <2>1 DEF Told, n, text, kind
<1> QED
  BY <1>14, <1>15, <1>16, <1>17, <1>18

LEMMA GoogleTells ==
  ASSUME NEW kind, kind # "anthropic", NEW frame, FrameSound(frame)
  PROVE  Told(kind, frame, DecodeGoogle(frame))
<1> DEFINE f == GoogleFinish(frame.finish)
           e == frame.finish # ""
           a == frame.text
           c == frame.prompt
           d == frame.completion
           g == << >>
<1>0. a \in Seq(Words) /\ c \in Nat /\ d \in Nat /\ g \in Seq(Fragments)
  BY EmptyIn DEF FrameSound
<1>1. (DecodeGoogle(frame) = << >> /\ a = << >>) \/ DecodeGoogle(frame) = <<EventOf(a, f, c, d, e, g)>>
  BY DEF DecodeGoogle, EventOf
<1>2. (f # "" \/ e => EndsStream(frame)) /\ (e <=> frame.finish # "") /\ a = frame.text
  BY DEF GoogleFinish, EndsStream
<1> HIDE DEF f, e, a, c, d, g
<1>3. Told(kind, frame, <<EventOf(a, f, c, d, e, g)>>)
  BY <1>0, <1>2, ToldBy
<1>4. CASE DecodeGoogle(frame) = << >> /\ a = << >>
  BY <1>2, <1>4 DEF Told
<1>5. CASE DecodeGoogle(frame) = <<EventOf(a, f, c, d, e, g)>>
  BY <1>3, <1>5
<1> QED
  BY <1>1, <1>4, <1>5

LEMMA OpenAITells ==
  ASSUME NEW kind, kind # "anthropic", NEW frame, FrameSound(frame)
  PROVE  Told(kind, frame, DecodeOpenAI(frame))
<1> DEFINE f == frame.finish
           e == frame.finish # ""
           a == frame.text
           c == frame.prompt
           d == frame.completion
           g == frame.calls
<1>0. a \in Seq(Words) /\ c \in Nat /\ d \in Nat /\ g \in Seq(Fragments)
  BY DEF FrameSound
<1>1. DecodeOpenAI(frame) = <<EventOf(a, f, c, d, e, g)>>
  BY DEF DecodeOpenAI, EventOf
<1>2. (f # "" \/ e => EndsStream(frame)) /\ (e <=> frame.finish # "") /\ a = frame.text
  BY DEF EndsStream
<1> HIDE DEF f, e, a, c, d, g
<1>3. Told(kind, frame, <<EventOf(a, f, c, d, e, g)>>)
  BY <1>0, <1>2, ToldBy
<1> QED
  BY <1>1, <1>3

LEMMA DecodeTells ==
  ASSUME NEW kind, NEW frame, FrameSound(frame), SpeaksAs(kind, frame)
  PROVE  Told(kind, frame, Decode(kind, frame))
<1>1. CASE frame.type = "[DONE]"
  BY <1>1 DEF Decode, SpeaksAs, Told
<1>2. CASE frame.type # "[DONE]"
  <2>1. CASE kind = "anthropic"
    <3>1. Decode(kind, frame) = DecodeAnthropic(frame)
      BY <1>2, <2>1 DEF Decode
    <3> QED
      BY <2>1, <3>1, AnthropicTells
  <2>2. CASE kind = "google"
    <3>1. Decode(kind, frame) = DecodeGoogle(frame)
      BY <1>2, <2>2 DEF Decode
    <3>2. kind # "anthropic"
      BY <2>2
    <3> QED
      BY <3>1, <3>2, GoogleTells
  <2>3. CASE kind # "anthropic" /\ kind # "google"
    <3>1. Decode(kind, frame) = DecodeOpenAI(frame)
      BY <1>2, <2>3 DEF Decode
    <3> QED
      BY <2>3, <3>1, OpenAITells
  <2> QED
    BY <2>1, <2>2, <2>3
<1> QED
  BY <1>1, <1>2

(* An item of a type and a text, whatever else it holds.                     *)
Shape(x, type, text) == \E c, d, e, g : x = ItemOf(type, text, c, d, e, g)

LEMMA ShapeIs ==
  ASSUME NEW x, NEW type, NEW text, Shape(x, type, text)
  PROVE  /\ x.type = type /\ x.text = text
         /\ \A y : Shape([x EXCEPT !.text = y], type, y)
         /\ \A y : Shape([x EXCEPT !.finish = y], type, text)
         /\ \A y : Shape([x EXCEPT !.prompt = y], type, text)
         /\ \A y : Shape([x EXCEPT !.completion = y], type, text)
         /\ \A y : Shape([x EXCEPT !.calls = y], type, text)
<1>1. PICK c, d, e, g : x = ItemOf(type, text, c, d, e, g)
  BY DEF Shape
<1>2. x.type = type /\ x.text = text
  BY <1>1, RecordIs
<1>3. ASSUME NEW y
      PROVE  Shape([x EXCEPT !.text = y], type, y)
  <2> DEFINE z == [x EXCEPT !.text = y]
  <2>1. z = ItemOf(type, y, c, d, e, g)
    BY <1>1 DEF ItemOf
  <2> HIDE DEF z
  <2>2. Shape(z, type, y)
    BY <2>1 DEF Shape
  <2> QED
    BY <2>2 DEF z
<1>4. ASSUME NEW y
      PROVE  Shape([x EXCEPT !.finish = y], type, text)
  <2> DEFINE z == [x EXCEPT !.finish = y]
  <2>1. z = ItemOf(type, text, y, d, e, g)
    BY <1>1 DEF ItemOf
  <2> HIDE DEF z
  <2>2. Shape(z, type, text)
    BY <2>1 DEF Shape
  <2> QED
    BY <2>2 DEF z
<1>5. ASSUME NEW y
      PROVE  Shape([x EXCEPT !.prompt = y], type, text)
  <2> DEFINE z == [x EXCEPT !.prompt = y]
  <2>1. z = ItemOf(type, text, c, y, e, g)
    BY <1>1 DEF ItemOf
  <2> HIDE DEF z
  <2>2. Shape(z, type, text)
    BY <2>1 DEF Shape
  <2> QED
    BY <2>2 DEF z
<1>6. ASSUME NEW y
      PROVE  Shape([x EXCEPT !.completion = y], type, text)
  <2> DEFINE z == [x EXCEPT !.completion = y]
  <2>1. z = ItemOf(type, text, c, d, y, g)
    BY <1>1 DEF ItemOf
  <2> HIDE DEF z
  <2>2. Shape(z, type, text)
    BY <2>1 DEF Shape
  <2> QED
    BY <2>2 DEF z
<1>7. ASSUME NEW y
      PROVE  Shape([x EXCEPT !.calls = y], type, text)
  <2> DEFINE z == [x EXCEPT !.calls = y]
  <2>1. z = ItemOf(type, text, c, d, e, y)
    BY <1>1 DEF ItemOf
  <2> HIDE DEF z
  <2>2. Shape(z, type, text)
    BY <2>1 DEF Shape
  <2> QED
    BY <2>2 DEF z
<1> QED
  BY ONLY <1>2, <1>3, <1>4, <1>5, <1>6, <1>7

LEMMA ItemShape == \A type : Shape(Item(type), type, << >>)
<1> TAKE type
<1> DEFINE c == ""
           n == << >>
<1>1. Item(type) = ItemOf(type, n, c, 0, 0, n)
  BY DEF Item, ItemOf
<1> HIDE DEF c, n
<1>2. Shape(Item(type), type, n)
  BY <1>1 DEF Shape
<1> QED
  BY <1>2 DEF n

(* The text in an item, by its type.                                         *)
LEMMA ShapePart ==
  ASSUME NEW x, NEW type, NEW text, Shape(x, type, text)
  PROVE  /\ type \in DeltaTypes => TextPart(x) = text
         /\ type \notin DeltaTypes /\ (deal.stream \/ type # "message") => TextPart(x) = << >>
         /\ type = "message" /\ ~deal.stream => TextPart(x) = text
BY ShapeIs DEF TextPart

LEMMA ShapeRead ==
  ASSUME NEW x, NEW type, NEW text \in Seq(Words), Shape(x, type, text)
  PROVE  /\ type \in DeltaTypes => Sane(<<x>>) /\ ReadText(<<x>>) = text
         /\ type \notin DeltaTypes /\ (deal.stream \/ type # "message") => Sane(<<x>>) /\ ReadText(<<x>>) = << >>
         /\ type = "message" /\ ~deal.stream => Sane(<<x>>) /\ ReadText(<<x>>) = text
<1>1. << >> \in Seq(Words)
  BY EmptyIn
<1>2. TextPart(x) \in Seq(Words) => Sane(<<x>>) /\ ReadText(<<x>>) = TextPart(x)
  BY OneRead
<1> QED
  BY <1>1, <1>2, ShapePart

(* The stateless renderers show the text of an event, Anthropic's not of     *)
(* the last.                                                                 *)
LEMMA RenderShows ==
  ASSUME NEW surface, surface # "responses", NEW q, NEW ev, EventSound(ev)
  PROVE  LET out == Render(surface, q, ev)
         IN  /\ Sane(out)
             /\ ReadText(out) = IF surface = "anthropic" /\ ev.done THEN << >> ELSE ev.delta
<1> DEFINE out == Render(surface, q, ev)
           delta == ev.delta
           n == << >>
<1>1. delta \in Seq(Words) /\ n \in Seq(Words)
  BY EmptyIn DEF EventSound
<1>2. CASE surface = "anthropic"
  <2>1. out = RenderAnthropic(ev)
    BY <1>2 DEF Render
  <2> DEFINE stop == Item("message_stop")
             text == Item("content_block_delta")
             end == Item("message_delta")
             reason == AnthropicStop(ev.finish)
             tokens == ev.completion
             end2 == [end EXCEPT !.finish = reason]
             end3 == [end EXCEPT !.finish = reason, !.completion = tokens]
             text2 == [text EXCEPT !.text = delta]
  <2>2. Shape(stop, "message_stop", n) /\ Shape(text, "content_block_delta", n) /\ Shape(end, "message_delta", n)
    BY ItemShape
  <2>3. RenderAnthropic(ev) = IF ev.done THEN <<stop>> ELSE IF delta # n THEN <<text2>>
                              ELSE IF ev.finish # "" THEN <<end3>> ELSE n
    BY DEF RenderAnthropic
  <2>4. end3 = [end2 EXCEPT !.completion = tokens]
    <3> HIDE DEF end, reason, tokens
    <3> QED
      OBVIOUS
  <2>5. Shape(end2, "message_delta", n)
    <3> HIDE DEF end, reason, n
    <3> QED
      BY <2>2, ShapeIs
  <2> HIDE DEF end2
  <2>6. Shape(end3, "message_delta", n)
    <3> HIDE DEF end3, tokens, n
    <3> QED
      BY <2>4, <2>5, ShapeIs
  <2>7. Shape(text2, "content_block_delta", delta)
    <3> HIDE DEF text, delta, n
    <3> QED
      BY <2>2, ShapeIs
  <2> HIDE DEF stop, end3, text2, text
  <2>8. Sane(<<stop>>) /\ ReadText(<<stop>>) = n /\ Sane(<<end3>>) /\ ReadText(<<end3>>) = n
        /\ Sane(<<text2>>) /\ ReadText(<<text2>>) = delta
    <3>1. "message_stop" \notin DeltaTypes /\ "message_stop" # "message"
          /\ "message_delta" \notin DeltaTypes /\ "message_delta" # "message"
          /\ "content_block_delta" \in DeltaTypes
      BY DEF DeltaTypes
    <3>2. Sane(<<stop>>) /\ ReadText(<<stop>>) = n
      BY <1>1, <2>2, <3>1, ShapeRead
    <3>3. Sane(<<end3>>) /\ ReadText(<<end3>>) = n
      BY <1>1, <2>6, <3>1, ShapeRead
    <3>4. Sane(<<text2>>) /\ ReadText(<<text2>>) = delta
      BY <1>1, <2>7, <3>1, ShapeRead
    <3> QED
      BY <3>2, <3>3, <3>4
  <2>9. Sane(n) /\ ReadText(n) = n
    BY NoneRead
  <2> HIDE DEF out, n, delta, end
  <2>10. CASE ev.done
    BY <1>2, <2>1, <2>3, <2>8, <2>10 DEF out, delta, n
  <2>11. CASE ~ev.done /\ delta # n
    BY <1>2, <2>1, <2>3, <2>8, <2>11 DEF out, delta, n
  <2>12. CASE ~ev.done /\ delta = n
    BY <1>2, <2>1, <2>3, <2>8, <2>9, <2>12 DEF out, delta, n
  <2> QED
    BY <2>10, <2>11, <2>12
<1>3. CASE surface # "anthropic"
  <2> SUFFICES Sane(out) /\ ReadText(out) = delta
    BY <1>3
  <2> DEFINE type == IF surface = "google" THEN "candidates" ELSE "chunk"
             c == IF surface = "google" THEN (IF ev.finish = "" THEN "" ELSE GoogleStop(ev.finish)) ELSE ev.finish
  <2>1. out = IF surface = "google" THEN RenderGoogle(ev) ELSE RenderOpenAI(ev)
    BY <1>3 DEF Render
  <2>2. out = <<[Item(type) EXCEPT !.text = delta, !.finish = c]>>
    <3>1. CASE surface = "google"
      <4>1. out = RenderGoogle(ev)
        BY <2>1, <3>1
      <4>2. type = "candidates" /\ c = IF ev.finish = "" THEN "" ELSE GoogleStop(ev.finish)
        BY <3>1
      <4> HIDE DEF out, c, type
      <4> QED
        BY <4>1, <4>2 DEF RenderGoogle
    <3>2. CASE surface # "google"
      <4>1. out = RenderOpenAI(ev)
        BY <2>1, <3>2
      <4>2. type = "chunk" /\ c = ev.finish
        BY <3>2
      <4> HIDE DEF out, c, type
      <4> QED
        BY <4>1, <4>2 DEF RenderOpenAI
    <3> QED
      BY <3>1, <3>2
  <2>9. type \in {"candidates", "chunk"}
    OBVIOUS
  <2> HIDE DEF type, c
  <2> DEFINE x == Item(type)
             y == [x EXCEPT !.text = delta]
             z == [x EXCEPT !.text = delta, !.finish = c]
  <2>3. Shape(x, type, n)
    BY ItemShape
  <2> HIDE DEF x, n
  <2>4. Shape(y, type, delta)
    BY <2>3, ShapeIs
  <2>5. z = [y EXCEPT !.finish = c]
    OBVIOUS
  <2> HIDE DEF y
  <2>6. Shape(z, type, delta)
    <3> HIDE DEF z, delta
    <3> QED
      BY <2>4, <2>5, ShapeIs
  <2>7. type \in DeltaTypes
    BY <2>9 DEF DeltaTypes
  <2>8. out = <<z>>
    BY <2>2 DEF x
  <2> HIDE DEF z, out, delta
  <2> QED
    BY <1>1, <2>6, <2>7, <2>8, ShapeRead
<1> QED
  BY <1>2, <1>3

LEMMA ChunkShows ==
  ASSUME NEW text \in Seq(Words), NEW finish, NEW calls
  PROVE  LET x == [Item("chunk") EXCEPT !.text = text, !.finish = finish, !.calls = calls]
         IN  Sane(<<x>>) /\ ReadText(<<x>>) = text /\ x.type = "chunk"
<1> DEFINE x0 == Item("chunk")
           x1 == [x0 EXCEPT !.text = text]
           x2 == [x1 EXCEPT !.finish = finish]
           x3 == [x0 EXCEPT !.text = text, !.finish = finish, !.calls = calls]
           n == << >>
<1>1. Shape(x0, "chunk", n)
  BY ItemShape
<1> HIDE DEF x0, n
<1>2. Shape(x1, "chunk", text)
  BY <1>1, ShapeIs
<1>3. x3 = [x2 EXCEPT !.calls = calls]
  OBVIOUS
<1> HIDE DEF x1
<1>4. Shape(x2, "chunk", text)
  BY <1>2, ShapeIs
<1> HIDE DEF x2, x3
<1>5. Shape(x3, "chunk", text)
  BY <1>3, <1>4, ShapeIs
<1>6. "chunk" \in DeltaTypes
  BY DEF DeltaTypes
<1>7. Sane(<<x3>>) /\ ReadText(<<x3>>) = text /\ x3.type = "chunk"
  BY <1>5, <1>6, ShapeRead, ShapeIs
<1> QED
  BY <1>7 DEF x3, x0

LEMMA MarkerShows == Sane(<<Item("[DONE]")>>) /\ ReadText(<<Item("[DONE]")>>) = << >> /\ Item("[DONE]").type = "[DONE]"
<1> DEFINE type == "[DONE]"
           x == Item(type)
           n == << >>
<1>1. Shape(x, type, n) /\ n \in Seq(Words)
  BY ItemShape, EmptyIn
<1>2. type \notin DeltaTypes /\ type # "message"
  BY DEF DeltaTypes
<1> HIDE DEF type, x
<1>3. Sane(<<x>>) /\ ReadText(<<x>>) = n
  BY <1>1, <1>2, ShapeRead
<1>4. x.type = type
  BY <1>1, ShapeIs
<1> QED
  BY <1>3, <1>4 DEF type, x

LEMMA OpenAIChunkShows ==
  ASSUME NEW ev, EventSound(ev), NEW first
  PROVE  LET out == RenderOpenAIChunk(ev, first)
         IN  Sane(out) /\ ReadText(out) = ev.delta /\ \A i \in DOMAIN out : out[i].type = "chunk"
<1> DEFINE delta == ev.delta
           finish == ev.finish
           calls == ev.calls
           x == [Item("chunk") EXCEPT !.text = delta, !.finish = finish, !.calls = calls]
           out == RenderOpenAIChunk(ev, first)
<1>1. (out = << >> /\ delta = << >>) \/ out = <<x>>
  BY DEF RenderOpenAIChunk
<1>2. delta \in Seq(Words)
  BY DEF EventSound
<1> HIDE DEF delta, finish, calls, out
<1>3. Sane(<<x>>) /\ ReadText(<<x>>) = delta /\ x.type = "chunk"
  BY <1>2, ChunkShows
<1> HIDE DEF x
<1>4. CASE out = << >> /\ delta = << >>
  BY <1>4, NoneRead DEF out, delta
<1>5. CASE out = <<x>>
  <2>1. \A i \in DOMAIN <<x>> : <<x>>[i].type = "chunk"
    BY <1>3
  <2> QED
    BY <1>3, <1>5, <2>1 DEF out, delta
<1> QED
  BY <1>1, <1>4, <1>5

(* A frame as it has come, for one that was sent.                            *)
FrameLike(f, o) ==
  /\ FrameSound(f) /\ f.type = o.type /\ f.finish = o.finish /\ f.calls = o.calls
  /\ Resembles(f.text, o.text) /\ (o.text = << >> => f.text = << >>)

Unhurt(h) == Native \/ Payload(h).intact

LEMMA DamagedText ==
  ASSUME Native, NEW text \in Seq(Words)
  PROVE  Resembles([i \in DOMAIN text |-> IF text[i] \in Wide THEN "?" ELSE text[i]], text)
<1> DEFINE W == Words
           q == "?"
           shown == [i \in DOMAIN text |-> IF text[i] \in Wide THEN q ELSE text[i]]
<1>1. text \in Seq(W) /\ q \in W
  BY DEF Words
<1> HIDE DEF W, q
<1>2. DOMAIN text = 1 .. Len(text) /\ Len(text) \in Nat /\ \A i \in 1 .. Len(text) : text[i] \in W
  BY ONLY <1>1, LenProperties, ElementOfSeq
<1>3. shown \in [1 .. Len(text) -> W]
  BY <1>1, <1>2
<1>4. shown \in Seq(W) /\ Len(shown) = Len(text)
  BY <1>2, <1>3
<1>5. \A i \in 1 .. Len(text) : shown[i] = text[i] \/ (shown[i] = q /\ text[i] \in Wide)
  BY <1>2
<1> HIDE DEF shown
<1>6. \A i \in 1 .. Len(text) : Same(shown[i], text[i])
  BY <1>5 DEF Same, q
<1>7. Resembles(shown, text)
  BY <1>1, <1>4, <1>6 DEF Resembles, W
<1> QED
  BY <1>7 DEF shown, q

LEMMA FrameSays ==
  ASSUME FramesSound(answer.frames), NEW h, IsPayload(h), Unhurt(h), NEW k, h[1][2] = k, k \in 1 .. Len(answer.frames)
  PROVE  FrameLike(FrameOf(Payload(h)), answer.frames[k])
<1> DEFINE payload == Payload(h)
           frame == answer.frames[k]
           x == FrameOf(payload)
           shown == [i \in DOMAIN frame.text |-> IF frame.text[i] \in Wide THEN "?" ELSE frame.text[i]]
<1>1. payload.frame = k
  BY DEF Payload
<1>2. FrameSound(x) /\ x.type = frame.type /\ x.finish = frame.finish /\ x.calls = frame.calls
  <2> HIDE DEF payload
  <2> QED
    BY <1>1, FrameOfIs
<1>3. x = IF payload.intact THEN frame ELSE [frame EXCEPT !.text = shown]
  BY <1>1 DEF FrameOf
<1>4. frame \in Frames
  BY FrameIs
<1>5. frame.text \in Seq(Words)
  BY TextsAre
<1>6. Resembles(x.text, frame.text) /\ (frame.text = << >> => x.text = << >>)
  <2>1. CASE payload.intact
    <3>1. x.text = frame.text
      BY <1>3, <2>1
    <3> QED
      BY <1>5, <3>1, ResembleSelf
  <2>2. CASE ~payload.intact
    <3>1. Native
      BY <2>2 DEF Unhurt
    <3> DEFINE text == frame.text
    <3>2. text \in Seq(Words)
      BY <1>5
    <3>3. x.text = shown
      <4>1. x = [frame EXCEPT !.text = shown]
        BY <1>3, <2>2
      <4> HIDE DEF x, shown
      <4> QED
        BY <1>4, <4>1 DEF Frames
    <3>4. Resembles(shown, text)
      <4> HIDE DEF text
      <4> QED
        BY <3>1, <3>2, DamagedText DEF text
    <3>5. text = << >> => shown = << >>
      OBVIOUS
    <3> QED
      BY <3>3, <3>4, <3>5
  <2> QED
    BY <2>1, <2>2
<1> QED
  BY <1>2, <1>6 DEF FrameLike

(* What a frame that came tells is what the one that was sent shows.         *)
LEMMA LikeShown ==
  ASSUME NEW f, NEW o, FrameLike(f, o), o.text \in Seq(Words)
  PROVE  Resembles(Shown(f), Shown(o)) /\ (Hidden(f) <=> Hidden(o)) /\ (EndsStream(f) <=> EndsStream(o))
<1>1. Hidden(f) <=> Hidden(o)
  BY DEF Hidden, FrameLike
<1>2. EndsStream(f) <=> EndsStream(o)
  BY DEF EndsStream, FrameLike
<1>3. Resembles(Shown(f), Shown(o))
  BY <1>1, ResembleNone DEF Shown, FrameLike
<1> QED
  BY <1>1, <1>2, <1>3

LEMMA LikeSpeaks ==
  ASSUME NEW f, NEW o, FrameLike(f, o), NEW kind, SpeaksAs(kind, o)
  PROVE  SpeaksAs(kind, f)
BY DEF SpeaksAs, FrameLike

(* The stateless native surfaces.                                            *)
LEMMA NativeShows ==
  ASSUME deal.surface # "responses", NEW f, NEW evs, Told(deal.kind, f, evs), NEW q
  PROVE  LET out == IF evs = << >> THEN << >> ELSE Render(deal.surface, q, evs[1])
         IN  Sane(out) /\ ReadText(out) = Shown(f)
<1> DEFINE surface == deal.surface
           kind == deal.kind
           out == IF evs = << >> THEN << >> ELSE Render(surface, q, evs[1])
<1>1. CASE evs = << >> /\ f.text = << >>
  <2>1. out = << >> /\ Shown(f) = << >>
    BY <1>1 DEF Shown
  <2> HIDE DEF out
  <2> QED
    BY <2>1, NoneRead DEF out
<1>2. CASE \E ev : evs = <<ev>> /\ EventSound(ev) /\ Tells(kind, f, ev)
  <2>1. PICK ev : evs = <<ev>> /\ EventSound(ev) /\ Tells(kind, f, ev)
    BY <1>2
  <2>2. out = Render(surface, q, ev)
    BY <2>1
  <2> HIDE DEF out, surface, kind
  <2>3. surface # "responses"
    BY DEF surface
  <2>4. Sane(out) /\ ReadText(out) = IF surface = "anthropic" /\ ev.done THEN << >> ELSE ev.delta
    BY <2>1, <2>2, <2>3, RenderShows
  <2>5. Shown(f) = IF surface = "anthropic" /\ kind # "anthropic" /\ f.finish # "" THEN << >> ELSE f.text
    BY DEF Shown, Hidden, surface, kind
  <2>6. ReadText(out) = Shown(f)
    <3>1. /\ ev.delta = f.text /\ (kind # "anthropic" => (ev.done <=> f.finish # ""))
          /\ kind = "anthropic" /\ ev.done => f.text = << >>
      BY <2>1 DEF Tells
    <3> HIDE DEF Shown
    <3>2. CASE ev.done
      <4>1. ReadText(out) = IF surface = "anthropic" THEN << >> ELSE f.text
        BY <2>4, <3>1, <3>2
      <4>2. Shown(f) = IF surface = "anthropic" THEN << >> ELSE f.text
        BY <2>5, <3>1, <3>2
      <4> QED
        BY <4>1, <4>2
    <3>3. CASE ~ev.done
      <4>1. ReadText(out) = f.text
        BY <2>4, <3>1, <3>3
      <4>2. Shown(f) = f.text
        BY <2>5, <3>1, <3>3
      <4> QED
        BY <4>1, <4>2
    <3> QED
      BY <3>2, <3>3
  <2> QED
    BY <2>4, <2>6 DEF out, surface
<1> QED
  BY <1>1, <1>2 DEF Told

-----------------------------------------------------------------------------
(* The text of a stream, payload by payload: what has been read of the first *)
(* k frames is what they show, and after an end of the stream nothing comes. *)
TextGood(x, k) ==
  /\ IsReader(x)
  /\ Sane(x.read) /\ Resembles(ReadText(x.read), SaidText(answer.frames, k))
  /\ x.ended => Over(answer.frames, k)
  /\ deal.surface = "responses" => Good(x)

Speaking ==
  /\ FramesSound(answer.frames) /\ Len(answer.frames) \in Nat
  /\ SpeechSound(answer.frames, deal.kind)

(* A payload of the frame after the first k, as a reader of it needs it.     *)
IsNext(h, k) ==
  /\ k \in Nat /\ k + 1 <= Len(answer.frames)
  /\ IsPayload(h) /\ h[1][2] = k + 1 /\ Unhurt(h)

LEMMA NextSays ==
  ASSUME Speaking, NEW h, NEW k, IsNext(h, k)
  PROVE  LET f == FrameOf(Payload(h))
         IN  /\ FrameLike(f, answer.frames[k + 1]) /\ SpeaksAs(deal.kind, f)
             /\ Resembles(Shown(f), Shown(answer.frames[k + 1])) /\ (f.text = << >> => Shown(f) = << >>)
             /\ EndsStream(f) => Over(answer.frames, k + 1)
             /\ Told(deal.kind, f, Decode(deal.kind, f))
<1> DEFINE f == FrameOf(Payload(h))
           j == k + 1
           o == answer.frames[j]
           kind == deal.kind
<1>1. j \in 1 .. Len(answer.frames) /\ j \in 1 .. j
  BY DEF Speaking, IsNext
<1>2. FrameLike(f, o)
  <2>1. FramesSound(answer.frames) /\ IsPayload(h) /\ Unhurt(h) /\ h[1][2] = j
    BY DEF Speaking, IsNext
  <2> HIDE DEF j
  <2> QED
    BY <1>1, <2>1, FrameSays
<1>3. o.text \in Seq(Words)
  BY <1>1, TextsAre DEF Speaking
<1>4. SpeaksAs(kind, o)
  BY <1>1 DEF Speaking, SpeechSound
<1> HIDE DEF f, o, j, kind
<1>5. SpeaksAs(kind, f)
  BY <1>2, <1>4, LikeSpeaks
<1>6. Resembles(Shown(f), Shown(o)) /\ (EndsStream(f) <=> EndsStream(o))
  BY <1>2, <1>3, LikeShown
<1>7. EndsStream(o) => Over(answer.frames, j)
  BY <1>1 DEF o, Over
<1>8. f.text = << >> => Shown(f) = << >>
  BY DEF Shown
<1>9. Told(kind, f, Decode(kind, f))
  BY <1>2, <1>5, DecodeTells DEF FrameLike
<1> QED
  BY <1>2, <1>5, <1>6, <1>7, <1>8, <1>9 DEF f, o, j, kind

LEMMA OverStays == \A frames : \A k \in Nat : Over(frames, k) => Over(frames, k + 1)
<1> TAKE frames
<1> TAKE k \in Nat
<1>1. \A i \in 1 .. k : i \in 1 .. k + 1
  OBVIOUS
<1> QED
  BY <1>1 DEF Over

(* One more frame, and what is read of it.                                   *)
LEMMA TextGrows ==
  ASSUME Speaking, NEW k \in Nat, k + 1 <= Len(answer.frames),
         NEW list, Sane(list), Resembles(ReadText(list), SaidText(answer.frames, k)),
         NEW out, Sane(out), Resembles(ReadText(out), Shown(answer.frames[k + 1]))
  PROVE  Sane(list \o out) /\ Resembles(ReadText(list \o out), SaidText(answer.frames, k + 1))
<1>1. Sane(list \o out) /\ ReadText(list \o out) = ReadText(list) \o ReadText(out)
  BY TextGlued
<1>2. SaidText(answer.frames, k + 1) = SaidText(answer.frames, k) \o Shown(answer.frames[k + 1])
  BY SaidTextNext DEF Speaking
<1>3. Resembles(ReadText(list) \o ReadText(out), SaidText(answer.frames, k) \o Shown(answer.frames[k + 1]))
  BY ResembleGlued
<1> QED
  BY <1>1, <1>2, <1>3

LEMMA SaneGlued == \A list : Sane(list) => list \o << >> = list
<1> TAKE list
<1> HAVE Sane(list)
<1>1. Len(list) \in Nat /\ list = [i \in 1 .. Len(list) |-> list[i]]
  BY DEF Sane
<1> DEFINE A == {list[i] : i \in 1 .. Len(list)}
<1>2. \A i \in 1 .. Len(list) : list[i] \in A
  OBVIOUS
<1> HIDE DEF A
<1>3. list \in Seq(A)
  BY <1>1, <1>2
<1> QED
  BY ONLY <1>3, ConcatEmptySeq

LEMMA NativeStep ==
  ASSUME Speaking, deal.surface \notin {"responses", "compat"},
         NEW x, NEW k, TextGood(x, k), NEW h, IsNext(h, k)
  PROVE  TextGood(ReadPayload(x, h), k + 1)
<1> DEFINE f == FrameOf(Payload(h))
           evs == Decode(deal.kind, f)
           out == IF evs = << >> THEN << >> ELSE Render(deal.surface, x.r, evs[1])
           y == ReadPayload(x, h)
           j == k + 1
           o == answer.frames[j]
           surface == deal.surface
           kind == deal.kind
<1>1. k \in Nat /\ j <= Len(answer.frames) /\ IsPayload(h)
  BY DEF IsNext
<1>2. /\ Resembles(Shown(f), Shown(o)) /\ (EndsStream(f) => Over(answer.frames, j))
      /\ Told(kind, f, evs)
  BY NextSays
<1>3. y.read = x.read \o out /\ y.ended = (x.ended \/ (out # << >> /\ (evs[1].done \/ evs[1].finish # "")))
  BY <1>1 DEF ReadPayload, ReadLine, Native
<1>8. IsReader(y)
  BY <1>1 DEF ReadPayload, ReadLine, Native, IsReader
<1> HIDE DEF f, evs, y, o, surface, kind
<1>4. Sane(out) /\ ReadText(out) = Shown(f)
  <2>1. deal.surface # "responses" /\ Told(deal.kind, f, evs)
    BY <1>2 DEF kind
  <2> QED
    BY <2>1, NativeShows
<1>5. y.ended => Over(answer.frames, j)
  <2>1. x.ended => Over(answer.frames, j)
    BY <1>1, OverStays DEF TextGood
  <2>2. ASSUME out # << >>, evs[1].done \/ evs[1].finish # ""
        PROVE  Over(answer.frames, j)
    <3>1. evs # << >>
      BY <2>2
    <3>2. PICK ev : evs = <<ev>> /\ Tells(kind, f, ev)
      BY <1>2, <3>1 DEF Told
    <3>3. Ends(ev)
      BY <2>2, <3>2 DEF Ends
    <3> QED
      BY <1>2, <3>2, <3>3 DEF Tells
  <2> HIDE DEF out, j
  <2> QED
    BY <1>3, <2>1, <2>2
<1> HIDE DEF out
<1>6. Sane(x.read \o out) /\ Resembles(ReadText(x.read \o out), SaidText(answer.frames, k + 1))
  <2>1. Sane(x.read) /\ Resembles(ReadText(x.read), SaidText(answer.frames, k))
    BY DEF TextGood
  <2>2. Resembles(ReadText(out), Shown(answer.frames[k + 1])) /\ k + 1 <= Len(answer.frames)
    BY <1>1, <1>2, <1>4 DEF o
  <2> DEFINE list == x.read
  <2> HIDE DEF list
  <2>3. Sane(list) /\ Resembles(ReadText(list), SaidText(answer.frames, k))
    BY <2>1 DEF list
  <2>4. Sane(list \o out) /\ Resembles(ReadText(list \o out), SaidText(answer.frames, k + 1))
    BY <1>1, <1>4, <2>2, <2>3, TextGrows
  <2> QED
    BY <2>4 DEF list
<1>7. TextGood(y, j)
  BY <1>3, <1>5, <1>6, <1>8 DEF TextGood
<1> QED
  BY <1>7 DEF y

(* After an end of the stream its frames show nothing.                       *)
LEMMA NothingAfter ==
  ASSUME Speaking, NEW k \in Nat, k + 1 <= Len(answer.frames), Over(answer.frames, k)
  PROVE  /\ answer.frames[k + 1].text = << >> /\ Shown(answer.frames[k + 1]) = << >>
         /\ SaidText(answer.frames, k + 1) = SaidText(answer.frames, k)
<1> DEFINE frames == answer.frames
           j == k + 1
<1>1. PICK i \in 1 .. k : EndsStream(frames[i])
  BY DEF Over
<1>2. i \in 1 .. Len(frames) /\ j \in 1 .. Len(frames) /\ i < j /\ k <= Len(frames)
  BY DEF Speaking
<1>3. frames[j].text = << >>
  BY <1>1, <1>2 DEF Speaking, SpeechSound
<1>4. Shown(frames[j]) = << >>
  BY <1>3 DEF Shown
<1>5. SaidText(frames, j) = SaidText(frames, k) \o Shown(frames[j])
  BY SaidTextNext DEF Speaking
<1>6. SaidText(frames, k) \in Seq(Words)
  BY <1>2, SaidTextGrows DEF Speaking
<1> DEFINE t == SaidText(frames, k)
           W == Words
<1>7. t \in Seq(W)
  BY <1>6
<1> HIDE DEF t, W, frames, j
<1>8. t \o << >> = t
  BY ONLY <1>7, ConcatEmptySeq
<1> QED
  BY <1>3, <1>4, <1>5, <1>8 DEF t, frames, j

(* What compat makes of a frame.                                             *)
CompatOut(f, evs, first) ==
  CASE f.type = "[DONE]" -> <<Item("[DONE]")>>
    [] deal.kind = "openai" /\ f.type # "[DONE]" ->
         <<[Item("chunk") EXCEPT !.text = f.text, !.finish = f.finish, !.calls = f.calls]>>
    [] OTHER -> IF evs = << >> THEN << >>
                ELSE RenderOpenAIChunk(evs[1], first) \o IF evs[1].done THEN <<Item("[DONE]")>> ELSE << >>

LEMMA CompatShows ==
  ASSUME deal.surface = "compat", NEW f, FrameSound(f), SpeaksAs(deal.kind, f),
         NEW evs, Told(deal.kind, f, evs), NEW first
  PROVE  LET out == CompatOut(f, evs, first)
         IN  /\ Sane(out) /\ ReadText(out) = Shown(f)
             /\ (\E i \in DOMAIN out : out[i].type = "[DONE]") => EndsStream(f)
<1> DEFINE out == CompatOut(f, evs, first)
           marker == Item("[DONE]")
           kind == deal.kind
<1>1. Shown(f) = f.text
  BY DEF Shown, Hidden
<1>2. Sane(<<marker>>) /\ ReadText(<<marker>>) = << >> /\ marker.type = "[DONE]"
  BY MarkerShows
<1> HIDE DEF marker, kind
<1>3. CASE f.type = "[DONE]"
  <2>1. out = <<marker>>
    BY <1>3 DEF CompatOut, marker
  <2>2. f.text = << >> /\ EndsStream(f)
    BY <1>3 DEF SpeaksAs, EndsStream
  <2> HIDE DEF out
  <2> QED
    BY <1>1, <1>2, <2>1, <2>2 DEF out
<1>4. CASE kind = "openai" /\ f.type # "[DONE]"
  <2> DEFINE text == f.text
             finish == f.finish
             calls == f.calls
             x == [Item("chunk") EXCEPT !.text = text, !.finish = finish, !.calls = calls]
  <2>1. out = <<x>>
    BY <1>4 DEF CompatOut, kind
  <2>2. text \in Seq(Words)
    BY DEF FrameSound
  <2> HIDE DEF out, text, finish, calls
  <2>3. Sane(<<x>>) /\ ReadText(<<x>>) = text /\ x.type = "chunk"
    BY <2>2, ChunkShows
  <2> HIDE DEF x
  <2>4. \A i \in DOMAIN <<x>> : <<x>>[i].type # "[DONE]"
    BY <2>3
  <2> QED
    BY <1>1, <2>1, <2>3, <2>4 DEF out, text
<1>5. CASE kind # "openai" /\ f.type # "[DONE]"
  <2>1. out = IF evs = << >> THEN << >>
              ELSE RenderOpenAIChunk(evs[1], first) \o IF evs[1].done THEN <<marker>> ELSE << >>
    BY <1>5 DEF CompatOut, kind, marker
  <2> HIDE DEF out
  <2>2. CASE evs = << >> /\ f.text = << >>
    <3>1. out = << >> /\ DOMAIN << >> = {}
      BY <2>1, <2>2
    <3> QED
      BY <1>1, <2>2, <3>1, NoneRead DEF out
  <2>3. CASE \E ev : evs = <<ev>> /\ EventSound(ev) /\ Tells(kind, f, ev)
    <3>1. PICK ev : evs = <<ev>> /\ EventSound(ev) /\ Tells(kind, f, ev)
      BY <2>3
    <3> DEFINE a == RenderOpenAIChunk(ev, first)
               b == IF ev.done THEN <<marker>> ELSE << >>
    <3>2. out = a \o b
      BY <2>1, <3>1
    <3>3. Sane(a) /\ ReadText(a) = ev.delta /\ \A i \in DOMAIN a : a[i].type = "chunk"
      BY <3>1, OpenAIChunkShows
    <3>4. Sane(b) /\ ReadText(b) = << >>
      <4> HIDE DEF a
      <4>1. CASE ev.done
        BY <1>2, <4>1
      <4>2. CASE ~ev.done
        BY <4>2, NoneRead
      <4> QED
        BY <4>1, <4>2
    <3>5. ~ev.done => b = << >>
      OBVIOUS
    <3> HIDE DEF a, b
    <3>6. Sane(a \o b) /\ ReadText(a \o b) = ReadText(a) \o ReadText(b) /\ ReadText(a) \in Seq(Words)
      BY <3>3, <3>4, TextGlued
    <3>7. ReadText(out) = f.text
      <4> DEFINE t == ReadText(a)
                 W == Words
      <4>1. t \in Seq(W)
        BY <3>6
      <4>2. ReadText(out) = t \o << >> /\ t = f.text
        BY <3>1, <3>2, <3>3, <3>4, <3>6 DEF Tells
      <4> HIDE DEF t, W
      <4>3. t \o << >> = t
        BY ONLY <4>1, ConcatEmptySeq
      <4> QED
        BY <4>2, <4>3
    <3>8. (\E i \in DOMAIN out : out[i].type = "[DONE]") => EndsStream(f)
      <4>1. CASE ev.done
        BY <3>1, <4>1 DEF Tells, Ends
      <4>2. CASE ~ev.done
        <5>1. out = a
          BY <3>2, <3>3, <3>5, <4>2, SaneGlued
        <5> QED
          BY <3>3, <5>1
      <4> QED
        BY <4>1, <4>2
    <3> QED
      BY <1>1, <3>2, <3>6, <3>7, <3>8 DEF out
  <2> QED
    BY <2>2, <2>3 DEF Told, kind
<1> QED
  BY <1>3, <1>4, <1>5

LEMMA CompatStep ==
  ASSUME Speaking, deal.surface = "compat",
         NEW x, NEW k, TextGood(x, k), NEW h, IsNext(h, k)
  PROVE  TextGood(ReadPayload(x, h), k + 1)
<1> DEFINE f == FrameOf(Payload(h))
           evs == Decode(deal.kind, f)
           first == x.read = << >>
           out == CompatOut(f, evs, first)
           y == ReadPayload(x, h)
           j == k + 1
<1>1. k \in Nat /\ j <= Len(answer.frames) /\ IsPayload(h)
  BY DEF IsNext
<1>2. /\ Resembles(Shown(f), Shown(answer.frames[j])) /\ (EndsStream(f) => Over(answer.frames, j))
      /\ Told(deal.kind, f, evs) /\ FrameSound(f) /\ SpeaksAs(deal.kind, f)
  BY NextSays DEF FrameLike
<1>3. y = IF x.ended THEN x
          ELSE [x EXCEPT !.got = Append(@, h[1][2]), !.read = @ \o out,
                         !.ended = \E i \in DOMAIN out : out[i].type = "[DONE]"]
  BY <1>1 DEF ReadPayload, ReadFrame, Native, CompatOut
<1> HIDE DEF f, evs, first, y
<1>4. CASE x.ended
  <2>1. y = x /\ Over(answer.frames, k)
    BY <1>3, <1>4 DEF TextGood
  <2>2. SaidText(answer.frames, j) = SaidText(answer.frames, k)
    BY <1>1, <2>1, NothingAfter
  <2>3. Over(answer.frames, j)
    BY <1>1, <2>1, OverStays
  <2>4. TextGood(y, j)
    BY <2>1, <2>2, <2>3 DEF TextGood
  <2> QED
    BY <2>4 DEF y
<1>5. CASE ~x.ended
  <2>1. /\ Sane(out) /\ ReadText(out) = Shown(f)
        /\ (\E i \in DOMAIN out : out[i].type = "[DONE]") => EndsStream(f)
    BY <1>2, CompatShows
  <2> DEFINE e == \E i \in DOMAIN out : out[i].type = "[DONE]"
             g == Append(x.got, h[1][2])
             list == x.read
  <2>2. y = [x EXCEPT !.got = g, !.read = list \o out, !.ended = e]
    BY <1>3, <1>5
  <2> HIDE DEF e, g, out, list
  <2>3. y = [got |-> g, r |-> x.r, read |-> list \o out, ended |-> e]
    BY <2>2 DEF TextGood, IsReader
  <2>4. Sane(list) /\ Resembles(ReadText(list), SaidText(answer.frames, k))
    BY DEF TextGood, list
  <2>5. Resembles(ReadText(out), Shown(answer.frames[k + 1]))
    BY <1>2, <2>1
  <2>6. Sane(list \o out) /\ Resembles(ReadText(list \o out), SaidText(answer.frames, k + 1))
    BY <1>1, <2>1, <2>4, <2>5, TextGrows
  <2>7. e => Over(answer.frames, j)
    BY <1>2, <2>1 DEF e
  <2>8. y.read = list \o out /\ y.ended = e /\ IsReader(y)
    BY <2>3 DEF IsReader
  <2>9. TextGood(y, j)
    BY <2>6, <2>7, <2>8 DEF TextGood
  <2> QED
    BY <2>9 DEF y
<1> QED
  BY <1>4, <1>5

LEMMA ItemsRead ==
  ASSUME deal.stream, NEW list, list \in Seq(Items)
  PROVE  Sane(list) /\ ReadText(list) = Spread(TextItem, list) /\ Spread(TextItem, list) \in Seq(Words)
<1> DEFINE A == Items
           T == Words
           F == TextItem
<1>1. F \in [A -> Seq(T)] /\ list \in Seq(A)
  BY PartsOfItems
<1>2. \A x \in A : F[x] = TextPart(x)
  BY DEF TextItem, TextPart
<1> HIDE DEF A, T, F
<1>3. Len(list) \in Nat /\ DOMAIN list = 1 .. Len(list) /\ list = [i \in 1 .. Len(list) |-> list[i]]
  BY ONLY <1>1
<1>4. \A i \in 1 .. Len(list) : list[i] \in A
  BY ONLY <1>1
<1>5. \A i \in 1 .. Len(list) : TextPart(list[i]) \in Seq(T)
  BY <1>1, <1>2, <1>4
<1>6. [i \in DOMAIN list |-> TextPart(list[i])] = [i \in DOMAIN list |-> F[list[i]]]
  BY <1>2, <1>3, <1>4
<1>7. Spread(F, list) \in Seq(T)
  BY ONLY <1>1, SpreadIs
<1> QED
  BY <1>3, <1>5, <1>6, <1>7 DEF Sane, ReadText, Spread, T, F

(* What a turn of the Responses surface has shown is its renderer's text.    *)
LEMMA TurnText ==
  ASSUME deal.stream, NEW x, Good(x)
  PROVE  Sane(x.read) /\ ReadText(x.read) = x.r.text /\ x.r.text \in Seq(Words)
<1>1. x.read \in Seq(Items) /\ Spread(TextItem, x.read) = x.r.text
  <2>1. CASE x.ended
    <3>1. ClosedRead(x.read, x.r.text, x.r.calls)
      BY <2>1 DEF Good, TurnGood
    <3>2. Closed(x.read, x.r.text, x.r.calls)
      BY <3>1, ClosedHolds
    <3> QED
      BY <3>2 DEF Closed
  <2>2. CASE ~x.ended
    BY <2>2 DEF Good, TurnGood, OpenRead
  <2> QED
    BY <2>1, <2>2
<1> QED
  BY <1>1, ItemsRead

LEMMA ResponsesStep ==
  ASSUME Speaking, deal.surface = "responses", deal.stream,
         NEW x, NEW k, TextGood(x, k), NEW h, IsNext(h, k)
  PROVE  TextGood(ReadPayload(x, h), k + 1)
<1> DEFINE f == FrameOf(Payload(h))
           evs == Decode(deal.kind, f)
           y == ReadPayload(x, h)
           j == k + 1
           said == SaidText(answer.frames, k)
           said2 == SaidText(answer.frames, j)
           new == Shown(answer.frames[j])
           text == x.r.text
<1>1. k \in Nat /\ j <= Len(answer.frames) /\ IsPayload(h) /\ h[1][2] = j
  BY DEF IsNext
<1>2. /\ Resembles(Shown(f), new) /\ (EndsStream(f) => Over(answer.frames, j)) /\ Told(deal.kind, f, evs)
  BY NextSays
<1>3. Good(y)
  <2>1. InFrames(h)
    BY <1>1 DEF InFrames, Speaking
  <2>2. FramesSound(answer.frames) /\ TurnGood(answer.frames, deal.kind, x)
    BY DEF Speaking, TextGood, Good
  <2>3. TurnGood(answer.frames, deal.kind, ReadPayload(x, h))
    BY <2>1, <2>2, LineIs
  <2> QED
    BY <2>3 DEF Good
<1>4. IsReader(y)
  BY <1>1 DEF ReadPayload, ReadLine, Native, IsReader
<1>5. /\ evs = << >> => y.r = x.r /\ (x.ended \in BOOLEAN => y.ended = x.ended)
      /\ \A ev : evs = <<ev>> =>
            /\ y.r = Accumulate(x.r, ev)
            /\ y.ended <=> x.ended \/ (RenderResponses(x.r, ev) # << >> /\ Ends(ev))
  <2>1. /\ ~IsPayload(h) \/ evs = << >> =>
              y.r = x.r /\ y.read = x.read \o << >> /\ (x.ended \in BOOLEAN => y.ended = x.ended)
        /\ ~IsPayload(h) => y.got = x.got
        /\ IsPayload(h) => y.got = Append(x.got, h[1][2])
        /\ \A ev : IsPayload(h) /\ evs = <<ev>> =>
              /\ y.r = Accumulate(x.r, ev) /\ y.read = x.read \o RenderResponses(x.r, ev)
              /\ y.ended \in BOOLEAN
              /\ y.ended <=> x.ended \/ (RenderResponses(x.r, ev) # << >> /\ Ends(ev))
    BY AfterIs
  <2> HIDE DEF y, evs
  <2> QED
    BY <1>1, <2>1
<1>6. Shown(f) = f.text
  BY DEF Shown, Hidden
<1>7. said2 = said \o new
  BY <1>1, SaidTextNext DEF Speaking
<1>8. /\ Resembles(text, said) /\ text \in Seq(Words)
      /\ x.ended \in BOOLEAN /\ (x.ended <=> x.r.finished) /\ (x.ended => Over(answer.frames, k))
  BY TurnText DEF TextGood, Good, TurnGood
<1>9. x.ended => said2 = said /\ Over(answer.frames, j)
  BY <1>1, <1>8, NothingAfter, OverStays
<1> HIDE DEF f, evs, y, j, said, said2, new, text
<1>10. Resembles(y.r.text, said2) /\ (y.ended => Over(answer.frames, j))
  <2>1. CASE evs = << >> /\ f.text = << >>
    <3>1. y.r.text = text /\ y.ended = x.ended
      BY <1>5, <1>8, <2>1 DEF text
    <3>2. Resembles(text \o << >>, said \o new)
      BY <1>2, <1>6, <1>8, <2>1, ResembleGlued
    <3> DEFINE t == text
               W == Words
    <3>3. t \in Seq(W)
      BY <1>8
    <3> HIDE DEF t, W
    <3>4. t \o << >> = t
      BY ONLY <3>3, ConcatEmptySeq
    <3> QED
      BY <1>7, <1>9, <3>1, <3>2, <3>4 DEF t
  <2>2. CASE \E ev : evs = <<ev>> /\ EventSound(ev) /\ Tells(deal.kind, f, ev)
    <3>1. PICK ev : evs = <<ev>> /\ EventSound(ev) /\ Tells(deal.kind, f, ev)
      BY <2>2
    <3>2. y.r = Accumulate(x.r, ev) /\ (y.ended <=> x.ended \/ (RenderResponses(x.r, ev) # << >> /\ Ends(ev)))
      BY <1>5, <3>1
    <3>3. y.ended => Over(answer.frames, j)
      BY <1>2, <1>9, <3>1, <3>2 DEF Tells
    <3>4. CASE x.ended
      <4>1. y.r = x.r
        BY <1>8, <3>2, <3>4 DEF Accumulate
      <4> QED
        BY <1>8, <1>9, <3>3, <3>4, <4>1 DEF text
    <3>5. CASE ~x.ended
      <4>1. y.r.text = text \o ev.delta
        <5>1. ~x.r.finished
          BY <1>8, <3>5
        <5>2. y.r = Accumulate(x.r, ev)
          BY <3>2
        <5> DEFINE q == x.r
                   acc == Accumulate(q, ev)
        <5>3. acc.text = q.text \o ev.delta
          <6>1. ~q.finished
            BY <5>1
          <6> HIDE DEF q
          <6> QED
            BY <6>1 DEF Accumulate
        <5> QED
          BY <5>2, <5>3 DEF text
      <4>2. ev.delta = Shown(f)
        BY <1>6, <3>1 DEF Tells
      <4>3. Resembles(text \o Shown(f), said \o new)
        BY <1>2, <1>8, ResembleGlued
      <4> QED
        BY <1>7, <3>3, <4>1, <4>2, <4>3
    <3> QED
      BY <3>4, <3>5
  <2> QED
    BY <1>2, <2>1, <2>2 DEF Told
<1>11. Sane(y.read) /\ ReadText(y.read) = y.r.text
  BY <1>3, TurnText
<1>12. TextGood(y, j)
  BY <1>3, <1>4, <1>10, <1>11 DEF TextGood, said2
<1> QED
  BY <1>12 DEF y, j

(* What the property says nothing of: a line that is no payload, passed on.  *)
Raw(list) == \E i \in DOMAIN list : list[i].type = "raw"

LEMMA OtherStep ==
  ASSUME Speaking, NEW x, NEW k, TextGood(x, k), NEW h, ~IsPayload(h)
  PROVE  LET y == ReadPayload(x, h)
         IN  TextGood(y, k) \/ (~Native /\ Raw(y.read) /\ y.read \o << >> = y.read)
<1> DEFINE y == ReadPayload(x, h)
<1>0. x.read \o << >> = x.read
  BY SaneGlued DEF TextGood
<1>1. CASE Native
  <2>1. y = [got |-> x.got, r |-> x.r, read |-> x.read \o << >>,
             ended |-> x.ended \/ (<< >> # << >> /\ (<< >>[1].done \/ << >>[1].finish # ""))]
    BY <1>1 DEF ReadPayload, ReadLine
  <2> DEFINE e == x.ended \/ (<< >> # << >> /\ (<< >>[1].done \/ << >>[1].finish # ""))
  <2>2. e => x.ended
    OBVIOUS
  <2> HIDE DEF y, e
  <2>3. y.read = x.read /\ y.ended = e /\ IsReader(y)
    BY <1>0, <2>1 DEF IsReader, e
  <2>4. deal.surface = "responses" => Good(y)
    <3> SUFFICES ASSUME deal.surface = "responses" PROVE Good(y)
      OBVIOUS
    <3>1. InFrames(h) /\ TurnGood(answer.frames, deal.kind, x) /\ FramesSound(answer.frames)
      BY DEF InFrames, TextGood, Good, Speaking
    <3> QED
      BY <3>1, LineIs DEF Good, y
  <2>5. TextGood(y, k)
    BY <2>2, <2>3, <2>4 DEF TextGood
  <2> QED
    BY <2>5 DEF y
<1>2. CASE ~Native
  <2>1. y = IF x.ended THEN x
            ELSE [x EXCEPT !.read = IF deal.kind = "openai" THEN Append(@, Item("raw")) ELSE @]
    BY <1>2 DEF ReadPayload, ReadFrame
  <2> HIDE DEF y
  <2>2. CASE x.ended
    BY <2>1, <2>2 DEF y
  <2>3. CASE ~x.ended /\ deal.kind # "openai"
    <3>1. y = [x EXCEPT !.read = @]
      BY <2>1, <2>3
    <3>2. y = x
      BY <3>1 DEF TextGood, IsReader
    <3> QED
      BY <3>2 DEF y
  <2>4. CASE ~x.ended /\ deal.kind = "openai"
    <3> DEFINE list == x.read
               raw == Item("raw")
    <3>1. y = [x EXCEPT !.read = Append(list, raw)]
      BY <2>1, <2>4
    <3> HIDE DEF raw
    <3>2. y.read = Append(list, raw)
      BY <3>1 DEF TextGood, IsReader
    <3>3. Len(list) \in Nat /\ list = [i \in 1 .. Len(list) |-> list[i]]
      BY DEF TextGood, Sane
    <3> DEFINE A == {list[i] : i \in 1 .. Len(list)} \cup {raw}
    <3>4. (\A i \in 1 .. Len(list) : list[i] \in A) /\ raw \in A
      OBVIOUS
    <3> HIDE DEF A, list
    <3>5. list \in Seq(A)
      BY <3>3, <3>4
    <3>6. /\ Len(Append(list, raw)) = Len(list) + 1 /\ Append(list, raw)[Len(list) + 1] = raw
          /\ Append(list, raw) \in Seq(A)
      BY ONLY <3>4, <3>5, AppendProperties
    <3> DEFINE w == Append(list, raw)
               m == Len(list) + 1
    <3>7. w \in Seq(A) /\ Len(w) = m /\ w[m] = raw /\ m \in 1 .. m
      BY <3>3, <3>6
    <3> HIDE DEF w, m
    <3>8. m \in DOMAIN w
      <4>1. DOMAIN w = 1 .. Len(w)
        BY ONLY <3>7, LenProperties
      <4> QED
        BY <3>7, <4>1
    <3>9. raw.type = "raw"
      BY ItemShape, ShapeIs DEF raw
    <3>10. Raw(w)
      BY <3>7, <3>8, <3>9 DEF Raw
    <3>11. w \o << >> = w
      BY ONLY <3>7, ConcatEmptySeq
    <3> QED
      BY <1>2, <3>2, <3>10, <3>11 DEF w, y
  <2> QED
    BY <2>2, <2>3, <2>4
<1> QED
  BY <1>1, <1>2

LEMMA AnyStep ==
  ASSUME Speaking, deal.surface = "responses" => deal.stream,
         NEW x, NEW k, TextGood(x, k), NEW h, IsNext(h, k)
  PROVE  TextGood(ReadPayload(x, h), k + 1)
<1>1. CASE deal.surface = "compat"
  BY <1>1, CompatStep
<1>2. CASE deal.surface = "responses"
  BY <1>2, ResponsesStep
<1>3. CASE deal.surface \notin {"responses", "compat"}
  BY <1>3, NativeStep
<1> QED
  BY <1>1, <1>2, <1>3

(* Payloads, each the next of the answer and undamaged where that matters.   *)
Follow(payloads, k, k2) ==
  /\ k \in Nat /\ k2 \in Nat /\ k <= k2 /\ k2 <= Len(answer.frames)
  /\ Len(payloads) = k2 - k
  /\ \A i \in 1 .. k2 - k : IsPayload(payloads[i]) /\ payloads[i][1][2] = k + i /\ Unhurt(payloads[i])

LEMMA ReadingText ==
  ASSUME Speaking, deal.surface = "responses" => deal.stream,
         NEW k, NEW k2, NEW payloads, Follow(payloads, k, k2), TextGood(Now, k)
  PROVE  TextGood(Reading(payloads), k2)
<1> DEFINE n == Len(payloads)
           start == [got |-> got, r |-> r, read |-> read, ended |-> ended]
           Body(f) == [i \in 0 .. Len(payloads) |-> IF i = 0 THEN start ELSE ReadPayload(f[i - 1], payloads[i])]
           after == CHOOSE f : f = Body(f)
<1>1. n \in Nat /\ k \in Nat /\ n = k2 - k /\ k + n = k2 /\ k2 <= Len(answer.frames) /\ Len(answer.frames) \in Nat
  BY DEF Follow, Speaking
<1>2. after = Body(after)
  <2>1. \E f : f = Body(f)
    <3> HIDE DEF start
    <3>1. \E f : Reads(f, start, payloads, n)
      BY <1>1, ReadingExists
    <3> QED
      BY <3>1 DEF Reads
  <2> HIDE DEF Body
  <2> QED
    BY <2>1
<1>3. Reading(payloads) = after[n]
  BY DEF Reading
<1>0. TextGood(start, k)
  BY DEF Now
<1> HIDE DEF after, start
<1>4. after[0] = start /\ \A i \in 1 .. n : after[i] = ReadPayload(after[i - 1], payloads[i])
  <2> HIDE DEF n
  <2>1. 0 \in 0 .. n /\ \A i \in 1 .. n : i \in 0 .. n /\ i # 0
    BY <1>1
  <2>2. \A i \in 0 .. n : after[i] = IF i = 0 THEN start ELSE ReadPayload(after[i - 1], payloads[i])
    BY <1>2 DEF n
  <2> QED
    BY <2>1, <2>2
<1>5. \A i \in 1 .. n : IsPayload(payloads[i]) /\ payloads[i][1][2] = k + i /\ Unhurt(payloads[i])
  BY <1>1 DEF Follow
<1> HIDE DEF n
<1> DEFINE D == {i \in Nat : i <= n => TextGood(after[i], k + i)}
<1>6. 0 \in D
  <2>1. k + 0 = k
    BY <1>1
  <2> QED
    BY <1>0, <1>4, <2>1
<1>7. ASSUME NEW i \in Nat, i \in D
      PROVE  i + 1 \in D
  <2> SUFFICES ASSUME i + 1 <= n PROVE TextGood(after[i + 1], k + (i + 1))
    OBVIOUS
  <2> DEFINE j == i + 1
             c == k + i
  <2>1. j \in 1 .. n /\ j - 1 = i /\ TextGood(after[i], c) /\ k + j = c + 1 /\ c \in Nat /\ c + 1 <= Len(answer.frames)
    BY <1>1, <1>7
  <2> HIDE DEF j, c
  <2>2. after[j] = ReadPayload(after[i], payloads[j])
    BY <1>4, <2>1
  <2>3. IsNext(payloads[j], c)
    BY <1>5, <2>1 DEF IsNext
  <2> DEFINE x == after[i]
             h == payloads[j]
  <2>4. TextGood(x, c) /\ IsNext(h, c)
    BY <2>1, <2>3
  <2> HIDE DEF x, h
  <2>5. TextGood(ReadPayload(x, h), c + 1)
    BY <2>4, AnyStep
  <2> QED
    BY <2>1, <2>2, <2>5 DEF j, x, h
<1> HIDE DEF D
<1>8. n \in D
  BY <1>1, <1>6, <1>7, Induction
<1>9. n <= n
  BY <1>1
<1>10. TextGood(after[n], k + n)
  BY <1>8, <1>9 DEF D
<1> QED
  BY <1>1, <1>3, <1>10

LEMMA RawFollows ==
  ASSUME NEW payloads, NEW k \in Nat, NEW k2 \in 0 .. Len(answer.frames), Len(answer.frames) \in Nat, k <= k2,
         Numbered(payloads, k, k2), \A i \in 1 .. k2 - k : Unhurt(payloads[i])
  PROVE  Follow(payloads, k, k2)
<1>1. k2 \in Nat /\ k2 <= Len(answer.frames) /\ Len(payloads) = k2 - k
  BY DEF Numbered
<1>2. \A i \in 1 .. k2 - k : IsRaw(payloads[i], k + i)
  BY DEF Numbered
<1>3. \A i \in 1 .. k2 - k : IsPayload(payloads[i]) /\ payloads[i][1][2] = k + i
  BY <1>2, PayloadIs
<1> QED
  BY <1>1, <1>3 DEF Follow

-----------------------------------------------------------------------------
(* Compat decodes no chunk by itself: no cut damages what it reads.          *)
Intact == {x \in Symbols : IsHalf(x) => x[4] = TRUE}
Clean == {x \in Symbols : IsHalf(x) /\ x[4] = TRUE}

LEMMA IntactIs == Intact \subseteq Symbols /\ Seq(Intact) \subseteq Seq(Symbols)
<1> DEFINE A == Intact
           B == Symbols
<1>1. A \subseteq B
  BY DEF Intact
<1> HIDE DEF A, B
<1>2. Seq(A) \subseteq Seq(B)
  BY <1>1
<1> QED
  BY <1>1, <1>2 DEF A, B

LEMMA ParseKeeps ==
  ASSUME NEW raw \in Seq(Intact)
  PROVE  ParseFrame(raw) \in Seq(Seq(Clean))
<1> DEFINE A == Intact
           h == Halves(raw)
           H == HalvesOf(raw)
           C == Clean
<1>1. raw \in Seq(A)
  OBVIOUS
<1> HIDE DEF A
<1>2. Len(raw) \in Nat /\ \A i \in 1 .. Len(raw) : raw[i] \in A
  BY ONLY <1>1, LenProperties, ElementOfSeq
<1>3. h \in Seq(H)
  BY <1>2, HalvesHold
<1>4. H \subseteq C
  BY <1>2 DEF HalvesOf, Clean, A, Intact
<1>5. ParseFrame(raw) = << >> \/ ParseFrame(raw) = <<h>>
  BY DEF ParseFrame
<1> HIDE DEF h, H, C
<1>6. h \in Seq(C)
  BY ONLY <1>3, <1>4
<1>7. <<h>> \in Seq(Seq(C)) /\ << >> \in Seq(Seq(C))
  BY <1>6, EmptyIn
<1> QED
  BY <1>5, <1>7 DEF C

IsTaken(state) == state.buf \in Seq(Intact) /\ state.frames \in Seq(Seq(Clean))

LEMMA TurnKeeps ==
  ASSUME NEW native \in BOOLEAN, NEW state, IsTaken(state)
  PROVE  IsTaken(Turn(native, state))
<1> DEFINE b == state.buf
           frames == state.frames
           A == Intact
           C == Clean
<1>1. b \in Seq(A) /\ frames \in Seq(Seq(C)) /\ b \in Seq(Symbols)
  BY IntactIs DEF IsTaken
<1> HIDE DEF A, C
<1>2. Len(b) \in Nat /\ \A i \in 1 .. Len(b) : b[i] \in A
  BY ONLY <1>1, LenProperties, ElementOfSeq
<1>3. \/ Turn(native, state) = state
      \/ \E u \in 1 .. Len(b) : \E v \in {u, u - 1} :
           /\ v >= 0
           /\ Turn(native, state) = [frames |-> frames \o ParseFrame(SubSeq(b, 1, v)), buf |-> SubSeq(b, u + 1, Len(b))]
  <2>1. \/ Turn(native, state) = state /\ \A o \in 1 .. Len(b) : ~IsEnd(native, b, o)
        \/ \E u \in 1 .. Len(b) : \E v \in {u, u - 1} :
             /\ v >= 0 /\ IsEnd(native, b, u) /\ \A o \in 1 .. u - 1 : ~IsEnd(native, b, o)
             /\ Turn(native, state) = [frames |-> state.frames \o ParseFrame(SubSeq(b, 1, v)),
                                       buf    |-> SubSeq(b, u + 1, Len(b))]
    BY <1>1, TurnTakes
  <2> QED
    BY <2>1
<1> HIDE DEF b, frames
<1>4. CASE Turn(native, state) = state
  BY <1>4
<1>5. ASSUME NEW u \in 1 .. Len(b), NEW v \in {u, u - 1}, v >= 0,
             Turn(native, state) = [frames |-> frames \o ParseFrame(SubSeq(b, 1, v)), buf |-> SubSeq(b, u + 1, Len(b))]
      PROVE  IsTaken(Turn(native, state))
  <2>1. u \in Nat /\ u >= 1 /\ u <= Len(b) /\ v \in Nat /\ v <= Len(b)
    BY <1>2, <1>5
  <2>2. SubSeq(b, 1, v) \in Seq(A)
    <3>1. \A i \in 1 .. v : b[i] \in A
      BY <1>2, <2>1
    <3> QED
      BY <2>1, <3>1, SubSeqProperties
  <2>3. SubSeq(b, u + 1, Len(b)) \in Seq(A)
    <3>1. \A i \in u + 1 .. Len(b) : b[i] \in A
      BY <1>2, <2>1
    <3> DEFINE l == u + 1
               m == Len(b)
    <3>2. l \in Int /\ m \in Int
      BY <1>2, <2>1
    <3>3. \A i \in l .. m : b[i] \in A
      BY <3>1
    <3> HIDE DEF l, m
    <3>4. SubSeq(b, l, m) \in Seq(A)
      BY <3>2, <3>3, SubSeqProperties
    <3> QED
      BY <3>4 DEF l, m
  <2> DEFINE p == ParseFrame(SubSeq(b, 1, v))
             rest == SubSeq(b, u + 1, Len(b))
  <2>4. p \in Seq(Seq(C))
    BY <2>2, ParseKeeps DEF A, C
  <2> HIDE DEF p
  <2>5. frames \o p \in Seq(Seq(C))
    BY ONLY <1>1, <2>4
  <2>6. Turn(native, state).frames = frames \o p /\ Turn(native, state).buf = rest
    <3> DEFINE w == Turn(native, state)
               list == frames \o p
    <3>1. w = [frames |-> list, buf |-> rest]
      BY <1>5 DEF p
    <3> HIDE DEF w, list, rest
    <3>2. w.frames = list /\ w.buf = rest
      BY ONLY <3>1
    <3> QED
      BY <3>2 DEF w, list
  <2> QED
    BY <2>3, <2>5, <2>6 DEF IsTaken, A, C
<1> QED
  BY <1>3, <1>4, <1>5

LEMMA FeedKeeps ==
  ASSUME NEW b \in Seq(Intact)
  PROVE  IsTaken(Feed(b))
<1> DEFINE turns == Cardinality({i \in DOMAIN b : b[i] = LF})
           start == [frames |-> << >>, buf |-> b]
           Body(f) == [j \in 0 .. turns |-> IF j = 0 THEN start ELSE TakeFrame(f[j - 1])]
           taken == CHOOSE f : f = Body(f)
<1>1. turns \in Nat
  <2> DEFINE A == Intact
  <2>1. b \in Seq(A)
    OBVIOUS
  <2> HIDE DEF A
  <2>2. DOMAIN b = 1 .. Len(b) /\ Len(b) \in Nat
    BY ONLY <2>1, LenProperties
  <2>3. IsFiniteSet(1 .. Len(b))
    BY <2>2, FS_Interval
  <2>4. IsFiniteSet({i \in DOMAIN b : b[i] = LF})
    BY <2>2, <2>3, FS_Subset
  <2> QED
    BY <2>4, FS_CardinalityType
<1>2. Feed(b) = taken[turns]
  BY DEF Feed, Drain
<1>3. IsTaken(start)
  <2>1. << >> \in Seq(Seq(Clean))
    BY EmptyIn
  <2> QED
    BY <2>1 DEF IsTaken
<1> HIDE DEF turns
<1>4. taken = Body(taken)
  <2>1. \E f : f = Body(f)
    <3> HIDE DEF start
    <3>1. \E f : IsLoop(f, FALSE, start, turns)
      BY <1>1, Looping
    <3> QED
      BY <3>1 DEF IsLoop, Turn
  <2> HIDE DEF Body
  <2> QED
    BY <2>1
<1> HIDE DEF taken, start
<1>5. taken[0] = start /\ \A j \in 1 .. turns : taken[j] = Turn(FALSE, taken[j - 1])
  <2>1. 0 \in 0 .. turns /\ \A j \in 1 .. turns : j \in 0 .. turns /\ j # 0
    BY <1>1
  <2>2. \A j \in 0 .. turns : taken[j] = IF j = 0 THEN start ELSE TakeFrame(taken[j - 1])
    BY <1>4
  <2> QED
    BY <2>1, <2>2 DEF Turn
<1> DEFINE D == {j \in Nat : j <= turns => IsTaken(taken[j])}
<1>6. 0 \in D
  BY <1>3, <1>5
<1>7. ASSUME NEW j \in Nat, j \in D
      PROVE  j + 1 \in D
  <2> SUFFICES ASSUME j + 1 <= turns PROVE IsTaken(taken[j + 1])
    OBVIOUS
  <2> DEFINE i == j + 1
  <2>1. i \in 1 .. turns /\ i - 1 = j /\ IsTaken(taken[j])
    BY <1>1, <1>7
  <2> HIDE DEF i
  <2>2. taken[i] = Turn(FALSE, taken[j])
    BY <1>5, <2>1
  <2> DEFINE x == taken[j]
  <2>3. IsTaken(x)
    BY <2>1
  <2> HIDE DEF x
  <2>4. IsTaken(Turn(FALSE, x))
    BY <2>3, TurnKeeps
  <2> QED
    BY <2>2, <2>4 DEF x, i
<1> HIDE DEF D
<1>8. turns \in D
  BY <1>1, <1>6, <1>7, Induction
<1>9. turns <= turns
  BY <1>1
<1> QED
  BY <1>2, <1>8, <1>9 DEF D

LEMMA SendingIntact ==
  ASSUME NEW k, Holding(k)
  PROVE  Sending \in Seq(Intact)
<1> DEFINE s == Sending
           n == Len(answer.frames)
           A == Intact
<1>1. PICK p, q : Marks(s, n, p, q, Native)
  BY DEF Holding, Sent, Sending
<1> HIDE DEF s, n
<1>2. s \in Seq(Symbols)
  BY <1>1 DEF Marks
<1>3. Len(s) \in Nat /\ \A o \in 1 .. Len(s) : s[o] \in Symbols
  BY <1>2
<1>4. s = [o \in 1 .. Len(s) |-> s[o]]
  BY <1>2
<1>5. ASSUME NEW o \in 1 .. Len(s)
      PROVE  s[o] \in A
  <2>1. CASE IsHalf(s[o])
    <3>1. PICK j \in 1 .. n : o = p[j] + 1 \/ o = p[j] + 2
      BY <1>1, <2>1 DEF Marks
    <3>2. s[p[j] + 1] = Half(j, 1) /\ s[p[j] + 2] = Half(j, 2)
      BY <1>1 DEF Marks
    <3>3. s[o] = Half(j, 1) \/ s[o] = Half(j, 2)
      BY <3>1, <3>2
    <3>4. Half(j, 1)[4] = TRUE /\ Half(j, 2)[4] = TRUE
      BY DEF Half
    <3>5. s[o][4] = TRUE
      <4>1. CASE s[o] = Half(j, 1)
        BY <3>4, <4>1
      <4>2. CASE s[o] = Half(j, 2)
        BY <3>4, <4>2
      <4> QED
        BY <3>3, <4>1, <4>2
    <3> QED
      BY <1>3, <3>5 DEF A, Intact
  <2>2. CASE ~IsHalf(s[o])
    BY <1>3, <2>2 DEF A, Intact
  <2> QED
    BY <2>1, <2>2
<1> HIDE DEF A
<1>6. s \in Seq(A)
  BY <1>3, <1>4, <1>5
<1> QED
  BY <1>6 DEF s, A

LEMMA CompatComes ==
  ASSUME ~Native, NEW k, Holding(k), buf \in Seq(Intact), answer.at \in Nat, NEW end \in answer.at + 1 .. Len(Sending)
  PROVE  IsTaken(Comes(end))
<1> DEFINE s == Sending
           upto == answer.at
           A == Intact
           chunk == SubSeq(s, upto + 1, end)
           b == buf
<1>1. s \in Seq(A) /\ b \in Seq(A)
  BY SendingIntact
<1>2. Comes(end) = Feed(b \o chunk)
  BY DEF Comes, Takings
<1>3. upto \in Nat /\ end \in upto + 1 .. Len(s)
  OBVIOUS
<1> HIDE DEF s, upto, A, b
<1>4. Len(s) \in Nat /\ \A i \in 1 .. Len(s) : s[i] \in A
  BY ONLY <1>1, LenProperties, ElementOfSeq
<1>5. chunk \in Seq(A)
  <2>1. upto + 1 \in Int /\ end \in Int /\ \A i \in upto + 1 .. end : s[i] \in A
    BY <1>3, <1>4
  <2> QED
    BY <2>1, SubSeqProperties
<1> HIDE DEF chunk
<1>6. b \o chunk \in Seq(A)
  BY ONLY <1>1, <1>5
<1> DEFINE t == b \o chunk
<1>7. t \in Seq(Intact)
  BY <1>6 DEF A
<1> HIDE DEF t
<1>8. IsTaken(Feed(t))
  BY <1>7, FeedKeeps
<1> QED
  BY <1>2, <1>8 DEF t, chunk, s, upto, b

LEMMA CleanUnhurt ==
  ASSUME NEW h, h \in Seq(Clean), IsPayload(h)
  PROVE  Unhurt(h)
<1> DEFINE C == Clean
<1>1. h \in Seq(C) /\ Len(h) = 2
  BY DEF IsPayload
<1> HIDE DEF C
<1>2. h[1] \in C /\ h[2] \in C
  <2>1. 1 \in 1 .. Len(h) /\ 2 \in 1 .. Len(h)
    BY <1>1
  <2> QED
    BY ONLY <1>1, <2>1, ElementOfSeq
<1>3. h[1][4] = TRUE /\ h[2][4] = TRUE
  BY <1>2 DEF C, Clean
<1> QED
  BY <1>3 DEF Unhurt, Payload

(* What has come since the k-th payload has halves of the next one alone.    *)
LEMMA RestNext ==
  ASSUME NEW k, Holding(k)
  PROVE  /\ k \in Nat /\ k <= Len(answer.frames)
         /\ IsPayload(Halves(buf)) => Halves(buf)[1][2] = k + 1 /\ k + 1 <= Len(answer.frames)
         /\ answer.at = Len(Sending) => k = Len(answer.frames)
         /\ answer.at \in Nat /\ answer.at <= Len(Sending)
<1> DEFINE n == Len(answer.frames)
           s == Sending
           b == buf
           h == Halves(b)
           upto == answer.at
           native == Native
<1>0. native \in BOOLEAN
  BY NativeIs
<1>1. PICK p, q, m : /\ Sent(answer.frames, answer.layout, p, q)
                     /\ Reached(s, n, p, q, native, m, k, upto, b) /\ NoEnd(s, native, m, upto)
  BY DEF Holding
<1>2. Marks(s, n, p, q, native)
  BY <1>1 DEF Sent, Sending
<1> HIDE DEF s, n, b, upto, native
<1>3. /\ m \in Nat /\ upto \in Nat /\ m <= upto /\ upto <= Len(s) /\ Len(s) \in Nat
      /\ b \in Seq(Symbols) /\ Len(b) = upto - m /\ Len(b) \in Nat
      /\ \A i \in 1 .. Len(b) : Like(b[i], s[m + i])
  <2>1. s \in Seq(Symbols)
    BY <1>2 DEF Marks
  <2>2. Len(s) \in Nat
    BY ONLY <2>1, LenProperties
  <2> QED
    BY <1>1, <2>2 DEF Reached, Window
<1>4. /\ n \in Nat /\ k \in 0 .. n /\ k \in Nat
      /\ \A j \in 1 .. n + 1 : p[j] \in Nat /\ q[j] \in Nat /\ p[j] < q[j]
      /\ k + 1 \in 1 .. n + 1
      /\ \A j \in 1 .. n : j <= k => q[j] <= m
      /\ m < q[k + 1]
  BY <1>0, <1>1, <1>2, Placed
<1>5. ASSUME k + 1 <= n, q[k + 1] <= upto
      PROVE  FALSE
  <2> DEFINE o == q[k + 1] - m
  <2>1. q[k + 1] \in Nat /\ k + 1 \in 1 .. n
    BY <1>4, <1>5
  <2>2. o \in 1 .. upto - m /\ m + o = q[k + 1]
    BY <1>3, <1>4, <1>5, <2>1
  <2>3. IsEnd(native, s, q[k + 1])
    BY <1>2, <2>1 DEF Marks
  <2> HIDE DEF o
  <2>4. ~IsEnd(native, s, m + o)
    BY <1>1, <2>2 DEF NoEnd
  <2> QED
    BY <2>2, <2>3, <2>4
<1>6. ASSUME NEW i \in 1 .. Len(b), IsHalf(b[i])
      PROVE  b[i][2] = k + 1 /\ k + 1 <= n
  <2> DEFINE o == m + i
  <2>1. o \in 1 .. Len(s) /\ o > m /\ o <= upto
    BY <1>3
  <2> HIDE DEF o
  <2>2. Like(b[i], s[o])
    BY <1>3 DEF o
  <2>3. IsHalf(s[o]) /\ b[i][2] = s[o][2]
    BY <1>6, <2>2, LikeIs
  <2>4. PICK j \in 1 .. n : o = p[j] + 1 \/ o = p[j] + 2
    BY <1>2, <2>1, <2>3 DEF Marks
  <2>5. s[p[j] + 1] = Half(j, 1) /\ s[p[j] + 2] = Half(j, 2) /\ p[j] + 2 < q[j]
    BY <1>2 DEF Marks
  <2>6. s[o][2] = j
    BY <2>4, <2>5, SymbolsDiffer
  <2>7. j \in 1 .. n + 1 /\ p[j] \in Nat /\ q[j] \in Nat
    BY <1>4
  <2>8. ~(j <= k)
    <3> SUFFICES ASSUME j <= k PROVE FALSE
      OBVIOUS
    <3>1. q[j] <= m
      BY <1>4, <2>4
    <3>2. o \in Nat /\ m \in Nat /\ o <= p[j] + 2
      BY <1>3, <2>1, <2>4, <2>7
    <3> QED
      BY <2>1, <2>5, <2>7, <3>1, <3>2
  <2>9. ~(k + 1 < j)
    <3> SUFFICES ASSUME k + 1 < j PROVE FALSE
      OBVIOUS
    <3>1. k + 1 \in 0 .. n + 1 /\ k + 1 <= n /\ q[k + 1] \in Nat
      BY <1>4
    <3>2. q[k + 1] < p[j]
      BY <1>2, <2>7, <3>1 DEF Marks
    <3>3. q[k + 1] <= upto
      <4>1. o \in Nat /\ upto \in Nat /\ p[j] < o
        BY <1>3, <2>1, <2>4, <2>7
      <4> QED
        BY <2>1, <2>7, <3>1, <3>2, <4>1
    <3> QED
      BY <1>5, <3>1, <3>3
  <2>10. j = k + 1
    BY <1>4, <2>8, <2>9
  <2> QED
    BY <2>3, <2>6, <2>10
<1>7. h \in Seq(HalvesOf(b))
  BY <1>3, HalvesHold
<1>8. IsPayload(h) => h[1][2] = k + 1 /\ k + 1 <= n
  <2> SUFFICES ASSUME IsPayload(h) PROVE h[1][2] = k + 1 /\ k + 1 <= n
    OBVIOUS
  <2> DEFINE H == HalvesOf(b)
  <2>1. h \in Seq(H) /\ Len(h) = 2
    BY <1>7 DEF IsPayload
  <2> HIDE DEF h, H
  <2>2. h[1] \in H
    BY <2>1
  <2> QED
    BY <1>6, <2>2 DEF H, HalvesOf
<1>9. upto = Len(s) => k = n
  <2> SUFFICES ASSUME upto = Len(s), k # n PROVE FALSE
    OBVIOUS
  <2>1. k + 1 \in 1 .. n /\ k + 1 <= n
    BY <1>4
  <2>2. q[k + 1] <= Len(s)
    BY <1>2, <2>1 DEF Marks
  <2> QED
    BY <1>5, <2>1, <2>2
<1> QED
  BY <1>3, <1>4, <1>8, <1>9 DEF n, s, b, upto

LEMMA TextStays ==
  ASSUME deal' = deal
  PROVE  /\ \A list : (Sane(list)' <=> Sane(list)) /\ ReadText(list)' = ReadText(list)
         /\ \A frames, k : SaidText(frames, k)' = SaidText(frames, k)
         /\ \A t, u : Resembles(t, u)' <=> Resembles(t, u)
<1>1. \A x : TextPart(x)' = TextPart(x)
  BY DEF TextPart
<1>2. \A x : Shown(x)' = Shown(x)
  BY DEF Shown, Hidden
<1>3. \A list : Sane(list)' <=> Sane(list)
  BY <1>1 DEF Sane
<1>4. \A list : ReadText(list)' = ReadText(list)
  BY <1>1 DEF ReadText
<1>5. \A frames, k : SaidText(frames, k)' = SaidText(frames, k)
  BY <1>2 DEF SaidText
<1>6. \A t, u : Resembles(t, u)' <=> Resembles(t, u)
  BY DEF Resembles, Same, Native
<1> QED
  BY <1>3, <1>4, <1>5, <1>6

(* Steps that leave the deal and the frames alone keep what is good.         *)
LEMMA TextGoodStays ==
  ASSUME deal' = deal, answer'.frames = answer.frames, NEW k,
         TextGood([got |-> got', r |-> r', read |-> read', ended |-> ended'], k)
  PROVE  TextGood(Now, k)'
<1> DEFINE y == [got |-> got', r |-> r', read |-> read', ended |-> ended']
<1>1. /\ Sane(read') /\ Resembles(ReadText(read'), SaidText(answer.frames, k))
      /\ ended' => Over(answer.frames, k)
      /\ deal.surface = "responses" => TurnGood(answer.frames, deal.kind, y)
  BY DEF TextGood, Good
<1>2. Sane(read)' /\ ReadText(read)' = ReadText(read')
  BY <1>1, TextStays
<1>3. SaidText(answer.frames, k)' = SaidText(answer.frames, k)
  BY TextStays
<1>4. Resembles(ReadText(read), SaidText(answer.frames, k))'
  BY <1>1, <1>2, <1>3, TextStays
<1>5. ended' => Over(answer.frames, k)'
  BY <1>1 DEF Over
<1>6. deal'.surface = "responses" => Good(Now)'
  BY <1>1 DEF Good, Now
<1>7. IsReader(Now)'
  BY DEF IsReader, Now
<1>8. Now'.read = read' /\ Now'.ended = ended'
  BY DEF Now
<1> QED
  BY <1>2, <1>4, <1>5, <1>6, <1>7, <1>8 DEF TextGood

-----------------------------------------------------------------------------
(* The invariant.                                                            *)

(* What a client has read is what the first k frames show.                   *)
Carried(k) ==
  /\ k \in Nat /\ k <= Len(answer.frames) /\ DOMAIN answer.frames = 1 .. Len(answer.frames)
  /\ Sane(read) /\ Resembles(ReadText(read), SaidText(answer.frames, k))

TextHeld == \E k : Holding(k) /\ TextGood(Now, k)

BodyRead == Sane(read) /\ Resembles(ReadText(read), TextOf(answer.frames[1], "text"))

NothingLeft(k) ==
  answer.at = Len(Sending) => SaidText(answer.frames, k) = SaidText(answer.frames, Len(answer.frames))

CarrySound ==
  /\ phase \in Unread => got = << >> /\ r = Renderer /\ read = << >> /\ ended = FALSE /\ buf = << >>
  /\ phase \in {"reading", "broken"} => ~Buffered
  /\ phase = "reading" /\ deal.kind # "responses" => Speaking /\ (Native \/ buf \in Seq(Intact)) /\ TextHeld
  /\ phase = "broken" /\ deal.kind # "responses" => Speaking /\ \E k : Carried(k)
  /\ phase = "done" /\ Buffered => Raw(read) \/ BodyRead
  /\ phase = "done" /\ ~Buffered /\ deal.kind # "responses" =>
       Raw(read) \/ (Speaking /\ \E k : Carried(k) /\ NothingLeft(k))

LEMMA CarryStarts == Init => CarrySound
BY DEF Init, CarrySound, Unread

LEMMA HeldIsCarried ==
  ASSUME NEW k, Holding(k), TextGood(Now, k)
  PROVE  Carried(k)
<1>1. k \in Nat /\ k <= Len(answer.frames)
  BY RestNext
<1>2. DOMAIN answer.frames = 1 .. Len(answer.frames)
  BY DEF Holding
<1> QED
  BY <1>1, <1>2 DEF TextGood, Now, Carried

(* A text that resembles the front of what was said is carried.              *)
LEMMA FrontIsCarried ==
  ASSUME NEW t, NEW u, Resembles(t, u), NEW v, IsFront(u, v)
  PROVE  /\ Len(t) <= Len(v) /\ \A i \in DOMAIN t : Same(t[i], v[i])
         /\ u = v => Len(t) = Len(v)
<1> DEFINE A == Words
<1>1. t \in Seq(A) /\ u \in Seq(A) /\ Len(t) = Len(u) /\ \A i \in 1 .. Len(u) : Same(t[i], u[i])
  BY DEF Resembles
<1>2. Len(u) <= Len(v) /\ \A i \in 1 .. Len(u) : u[i] = v[i]
  BY DEF IsFront
<1> HIDE DEF A
<1>3. DOMAIN t = 1 .. Len(t)
  BY ONLY <1>1, LenProperties
<1> QED
  BY <1>1, <1>2, <1>3

LEMMA SelfIsFront == \A u \in Seq(Words) : IsFront(u, u)
<1> TAKE u \in Seq(Words)
<1> DEFINE A == Words
<1>1. u \in Seq(A)
  OBVIOUS
<1> HIDE DEF A
<1>2. Len(u) \in Nat
  BY ONLY <1>1, LenProperties
<1> QED
  BY <1>1, <1>2 DEF A, IsFront

(* A client's text, and the speech it is a part of.                          *)
LEMMA CarriedTells ==
  ASSUME ~Buffered, Speaking, NEW k, Carried(k)
  PROVE  /\ Len(TextRead) <= Len(TextSaid) /\ \A i \in DOMAIN TextRead : Same(TextRead[i], TextSaid[i])
         /\ NothingLeft(k) /\ answer.at = Len(Sending) => Len(TextRead) = Len(TextSaid)
<1> DEFINE n == Len(answer.frames)
           t == TextRead
           u == SaidText(answer.frames, k)
           v == TextSaid
<1>1. v = SaidText(answer.frames, n)
  BY DEF TextSaid, SaidText, Shown, Carried
<1>2. Resembles(t, u)
  BY ReadTextIs DEF Carried
<1>3. IsFront(u, v)
  <2>1. FramesSound(answer.frames) /\ SpeechSound(answer.frames, deal.kind) /\ n \in Nat
    BY DEF Speaking
  <2>2. k \in Nat /\ k <= n
    BY DEF Carried
  <2> QED
    BY <1>1, <2>1, <2>2, SaidTextGrows
<1>4. NothingLeft(k) /\ answer.at = Len(Sending) => u = v
  BY <1>1 DEF NothingLeft
<1> HIDE DEF t, u, v
<1>5. /\ Len(t) <= Len(v) /\ \A i \in DOMAIN t : Same(t[i], v[i])
      /\ u = v => Len(t) = Len(v)
  BY <1>2, <1>3, FrontIsCarried
<1> QED
  BY <1>4, <1>5 DEF t, v

LEMMA CarryIsSound == CarrySound => TextIsCarried
<1> SUFFICES ASSUME CarrySound, phase \in {"reading", "done", "broken"}, Buffered \/ deal.kind # "responses", ~Raw(read)
             PROVE  /\ Len(TextRead) <= Len(TextSaid)
                    /\ \A i \in DOMAIN TextRead : Same(TextRead[i], TextSaid[i])
                    /\ phase = "done" /\ (Buffered \/ answer.at = Len(Sending)) => Len(TextRead) = Len(TextSaid)
  BY DEF TextIsCarried, Raw
<1>1. CASE Buffered
  <2>1. BodyRead
    BY <1>1 DEF CarrySound
  <2> DEFINE t == TextRead
             v == TextSaid
  <2>2. Resembles(t, v)
    BY <1>1, <2>1, ReadTextIs DEF TextSaid, BodyRead
  <2> HIDE DEF t, v
  <2>3. v \in Seq(Words)
    BY <2>2 DEF Resembles
  <2>4. IsFront(v, v)
    BY <2>3, SelfIsFront
  <2>5. Len(t) <= Len(v) /\ (\A i \in DOMAIN t : Same(t[i], v[i])) /\ Len(t) = Len(v)
    BY <2>2, <2>4, FrontIsCarried
  <2> QED
    BY <2>5 DEF t, v
<1>2. CASE ~Buffered
  <2>1. CASE phase = "done"
    <3>1. PICK k : Carried(k) /\ NothingLeft(k)
      BY <1>2, <2>1 DEF CarrySound
    <3>2. Speaking
      BY <1>2, <2>1 DEF CarrySound
    <3> QED
      BY <1>2, <3>1, <3>2, CarriedTells
  <2>2. CASE phase \in {"reading", "broken"}
    <3>1. \E k : Carried(k)
      BY <1>2, <2>2, HeldIsCarried DEF CarrySound, TextHeld
    <3>2. Speaking
      BY <1>2, <2>2 DEF CarrySound
    <3> QED
      BY <1>2, <2>2, <3>1, <3>2, CarriedTells
  <2> QED
    BY <2>1, <2>2
<1> QED
  BY <1>1, <1>2

LEMMA AnswerStreamCarries ==
  ASSUME ReadSound, CarrySound, AnswerStream
  PROVE  CarrySound'
<1>1. /\ phase = "sent" /\ phase' = "reading" /\ UNCHANGED <<deal, buf, got, r, read, ended>>
      /\ deal.kind \in Kinds /\ ~Buffered
  BY DEF AnswerStream, ReadSound
<1>2. Buffered' <=> Buffered
  BY <1>1 DEF Buffered, Native
<1> SUFFICES ASSUME deal.kind # "responses"
             PROVE  Speaking' /\ buf' \in Seq(Intact) /\ TextHeld'
  BY <1>1, <1>2 DEF CarrySound, Unread
<1>3. PICK frames \in Streams(deal.kind), layout \in Layouts :
        answer' = [frames |-> frames, layout |-> layout, at |-> 0]
  BY DEF AnswerStream
<1>4. FramesSound(frames) /\ SpeechSound(frames, deal.kind) /\ Len(frames) \in Nat
  BY <1>1, SpeechIs
<1>5. answer'.frames = frames
  BY <1>3
<1>6. Speaking'
  BY <1>1, <1>4, <1>5 DEF Speaking
<1>7. got' = << >> /\ r' = Renderer /\ read' = << >> /\ ended' = FALSE /\ buf' = << >>
  BY <1>1 DEF CarrySound, Unread
<1>8. PICK k : Holding(k)' /\ got' = UpTo(k)
  <2>1. ReadSound'
    BY AnswerStreamSound
  <2>2. ReaderSound'
    BY <1>1, <1>7, <2>1 DEF ReadSound
  <2> QED
    BY <2>2 DEF ReaderSound
<1>9. k = 0
  <2>1. k \in 0 .. Len(answer'.frames)
    BY <1>8 DEF Holding, Reached
  <2>2. k \in Nat
    BY <1>4, <1>5, <2>1
  <2>3. Len(UpTo(k)) = k
    BY <2>2 DEF UpTo
  <2>4. Len(<< >>) = 0
    OBVIOUS
  <2> QED
    BY <1>7, <1>8, <2>3, <2>4
<1>10. TextGood(Now, 0)'
  <2>1. Sane(read)' /\ ReadText(read)' = << >>
    BY <1>1, <1>7, NoneRead, TextStays
  <2>2. SaidText(answer.frames, 0)' = << >>
    BY <1>1, SaidTextNone, TextStays
  <2>3. Resembles(ReadText(read), SaidText(answer.frames, 0))'
    BY <1>1, <2>1, <2>2, ResembleNone, TextStays
  <2> DEFINE y == [got |-> got', r |-> r', read |-> read', ended |-> ended']
  <2>4. TurnGood(frames, deal.kind, y)
    <3>1. y.got = << >> /\ y.r = Renderer /\ y.read = << >> /\ y.ended = FALSE
      BY <1>7
    <3> HIDE DEF y
    <3> QED
      BY <1>4, <3>1, StartGood
  <2>5. Good(Now)'
    BY <1>1, <1>5, <2>4 DEF Good, Now
  <2>6. IsReader(Now)'
    BY DEF IsReader, Now
  <2>7. Now'.read = read' /\ Now'.ended = FALSE
    BY <1>7 DEF Now
  <2> QED
    BY <2>1, <2>3, <2>5, <2>6, <2>7 DEF TextGood
<1>11. TextHeld'
  BY <1>8, <1>9, <1>10 DEF TextHeld
<1> QED
  BY <1>6, <1>7, <1>11, EmptyIn

LEMMA TakesText ==
  ASSUME deal' = deal, answer'.frames = answer.frames, NEW payloads, Takes(payloads),
         NEW k, TextGood(Reading(payloads), k)
  PROVE  TextGood(Now, k)'
<1> DEFINE x == Reading(payloads)
           y == [got |-> got', r |-> r', read |-> read', ended |-> ended']
<1>1. got' = x.got /\ r' = x.r /\ read' = x.read /\ ended' = x.ended
  BY DEF Takes
<1>2. x = [got |-> x.got, r |-> x.r, read |-> x.read, ended |-> x.ended]
  BY DEF TextGood, IsReader
<1>3. TextGood(y, k)
  BY <1>1, <1>2
<1> QED
  BY <1>3, TextGoodStays

LEMMA ChunkCarries ==
  ASSUME CarrySound, Chunk
  PROVE  CarrySound'
<1>1. phase = "reading" /\ UNCHANGED <<deal, phase, asking>>
  BY DEF Chunk
<1>2. (Buffered' <=> Buffered) /\ (Native' <=> Native) /\ ~Buffered
  BY <1>1 DEF Buffered, Native, CarrySound
<1> SUFFICES ASSUME deal.kind # "responses"
             PROVE  Speaking' /\ (Native \/ buf' \in Seq(Intact)) /\ TextHeld'
  BY <1>1, <1>2 DEF CarrySound, Unread
<1>3. Speaking /\ (Native \/ buf \in Seq(Intact)) /\ TextHeld
  BY <1>1 DEF CarrySound
<1>4. PICK k : Holding(k) /\ TextGood(Now, k)
  BY <1>3 DEF TextHeld
<1>5. PICK payloads : \E k2 \in 0 .. Len(answer.frames) :
        /\ k \in Nat /\ k <= k2 /\ Numbered(payloads, k, k2) /\ Takes(payloads)
        /\ Holding(k2)' /\ answer'.frames = answer.frames
        /\ \E end \in answer.at + 1 .. Len(Sending) : payloads = Comes(end).frames /\ buf' = Comes(end).buf
  BY <1>4, ChunkTakes
<1>6. PICK k2 \in 0 .. Len(answer.frames) :
        /\ k \in Nat /\ k <= k2 /\ Numbered(payloads, k, k2) /\ Takes(payloads)
        /\ Holding(k2)' /\ answer'.frames = answer.frames
        /\ \E end \in answer.at + 1 .. Len(Sending) : payloads = Comes(end).frames /\ buf' = Comes(end).buf
  BY <1>5
<1>7. Native \/ (buf' \in Seq(Intact) /\ payloads \in Seq(Seq(Clean)))
  <2> SUFFICES ASSUME ~Native PROVE buf' \in Seq(Intact) /\ payloads \in Seq(Seq(Clean))
    OBVIOUS
  <2>1. PICK end \in answer.at + 1 .. Len(Sending) : payloads = Comes(end).frames /\ buf' = Comes(end).buf
    BY <1>6
  <2>2. answer.at \in Nat /\ buf \in Seq(Intact)
    BY <1>3, <1>4, RestNext
  <2>3. IsTaken(Comes(end))
    BY <1>4, <2>2, CompatComes
  <2> QED
    BY <2>1, <2>3 DEF IsTaken
<1>8. \A i \in 1 .. k2 - k : Unhurt(payloads[i])
  <2> TAKE i \in 1 .. k2 - k
  <2>1. CASE Native
    BY <2>1 DEF Unhurt
  <2>2. CASE ~Native
    <3> DEFINE C == Seq(Clean)
    <3>1. payloads \in Seq(C) /\ Len(payloads) = k2 - k
      BY <1>6, <1>7, <2>2 DEF Numbered
    <3> HIDE DEF C
    <3>2. payloads[i] \in C
      <4>1. i \in 1 .. Len(payloads)
        BY <3>1
      <4> QED
        BY ONLY <3>1, <4>1, ElementOfSeq
    <3>3. IsPayload(payloads[i])
      <4>1. IsRaw(payloads[i], k + i)
        BY <1>6 DEF Numbered
      <4> QED
        BY <4>1, PayloadIs
    <3> DEFINE h == payloads[i]
    <3>4. h \in Seq(Clean) /\ IsPayload(h)
      BY <3>2, <3>3 DEF C
    <3> HIDE DEF h
    <3>5. Unhurt(h)
      BY <3>4, CleanUnhurt
    <3> QED
      BY <3>5 DEF h
  <2> QED
    BY <2>1, <2>2
<1>9. Follow(payloads, k, k2)
  BY <1>3, <1>6, <1>8, RawFollows DEF Speaking
<1>10. deal.surface = "responses" => deal.stream
  BY <1>2 DEF Buffered
<1>11. TextGood(Reading(payloads), k2)
  BY <1>3, <1>4, <1>9, <1>10, ReadingText
<1>12. TextGood(Now, k2)'
  BY <1>1, <1>6, <1>11, TakesText
<1>13. TextHeld'
  BY <1>6, <1>12 DEF TextHeld
<1>14. Speaking'
  BY <1>1, <1>3, <1>6 DEF Speaking
<1> QED
  BY <1>7, <1>13, <1>14

LEMMA ReadingOne ==
  ASSUME NEW h
  PROVE  Reading(<<h>>) = ReadPayload(Now, h)
<1> DEFINE payloads == <<h>>
           n == Len(payloads)
           start == [got |-> got, r |-> r, read |-> read, ended |-> ended]
           Body(f) == [i \in 0 .. Len(payloads) |-> IF i = 0 THEN start ELSE ReadPayload(f[i - 1], payloads[i])]
           after == CHOOSE f : f = Body(f)
<1>1. n = 1 /\ n \in Nat /\ payloads[1] = h
  OBVIOUS
<1>2. after = Body(after)
  <2>1. \E f : f = Body(f)
    <3> HIDE DEF start, payloads
    <3>1. \E f : Reads(f, start, payloads, n)
      BY <1>1, ReadingExists
    <3> QED
      BY <3>1 DEF Reads
  <2> HIDE DEF Body
  <2> QED
    BY <2>1
<1>3. Reading(payloads) = after[n]
  BY DEF Reading
<1>4. start = Now
  BY DEF Now
<1> HIDE DEF after, start, payloads
<1>5. \A i \in 0 .. 1 : after[i] = IF i = 0 THEN start ELSE ReadPayload(after[i - 1], payloads[i])
  BY <1>1, <1>2
<1>6. after[0] = start
  BY <1>5
<1>7. after[1] = ReadPayload(after[1 - 1], payloads[1])
  BY <1>5
<1>8. 1 - 1 = 0
  OBVIOUS
<1>9. after[1] = ReadPayload(start, h)
  BY <1>1, <1>6, <1>7, <1>8
<1> QED
  BY <1>1, <1>3, <1>4, <1>9 DEF payloads

(* The rest of the buffer, when the upstream closes.                         *)
LEMMA RestReads ==
  ASSUME Speaking, deal.surface = "responses" => deal.stream, Native \/ buf \in Seq(Intact),
         NEW k, Holding(k), TextGood(Now, k),
         NEW rest, rest = << >> \/ rest = Flush(buf)
  PROVE  \/ ~Native /\ Raw(Reading(rest).read) /\ Reading(rest).read \o << >> = Reading(rest).read
         \/ \E k2 \in Nat : /\ k2 <= Len(answer.frames) /\ TextGood(Reading(rest), k2)
                            /\ answer.at = Len(Sending) => k2 = Len(answer.frames)
<1> DEFINE n == Len(answer.frames)
           h == Halves(buf)
<1>1. /\ k \in Nat /\ k <= n /\ n \in Nat
      /\ IsPayload(h) => h[1][2] = k + 1 /\ k + 1 <= n
      /\ answer.at = Len(Sending) => k = n
  BY RestNext DEF Speaking
<1>2. rest = << >> \/ (rest = <<h>> /\ rest = Flush(buf))
  BY DEF Flush, ParseFrame
<1>3. CASE rest = << >>
  <2>1. Follow(<< >>, k, k)
    <3>1. Len(<< >>) = 0 /\ k - k = 0 /\ 1 .. 0 = {} /\ k <= k
      BY <1>1
    <3> QED
      BY <1>1, <3>1 DEF Follow
  <2>2. TextGood(Reading(rest), k)
    BY <1>3, <2>1, ReadingText
  <2> QED
    BY <1>1, <2>2
<1>4. CASE rest = <<h>> /\ rest = Flush(buf) /\ IsPayload(h)
  <2>1. Unhurt(h)
    <3>1. CASE Native
      BY <3>1 DEF Unhurt
    <3>2. CASE ~Native
      <4> DEFINE C == Seq(Clean)
      <4>1. ParseFrame(buf) \in Seq(C)
        BY <3>2, ParseKeeps
      <4>2. <<h>> \in Seq(C)
        BY <1>4, <4>1 DEF Flush
      <4> DEFINE one == <<h>>
      <4>3. one[1] = h /\ Len(one) = 1
        OBVIOUS
      <4> HIDE DEF C, h
      <4>4. one \in Seq(C) /\ 1 \in 1 .. Len(one)
        BY <4>2, <4>3
      <4> HIDE DEF one
      <4>5. one[1] \in C
        BY ONLY <4>4, ElementOfSeq
      <4>6. h \in Seq(Clean) /\ IsPayload(h)
        BY <1>4, <4>3, <4>5 DEF C
      <4> QED
        BY <4>6, CleanUnhurt
    <3> QED
      BY <3>1, <3>2
  <2>2. IsNext(h, k)
    BY <1>1, <1>4, <2>1 DEF IsNext
  <2> DEFINE x == Now
  <2>3. TextGood(x, k) /\ Speaking /\ (deal.surface = "responses" => deal.stream)
    OBVIOUS
  <2> HIDE DEF h, x
  <2>4. TextGood(ReadPayload(x, h), k + 1)
    BY <2>2, <2>3, AnyStep
  <2>5. Reading(<<h>>) = ReadPayload(x, h)
    BY ReadingOne DEF x
  <2>6. TextGood(Reading(rest), k + 1)
    BY <1>4, <2>4, <2>5
  <2>7. k + 1 \in Nat /\ k + 1 <= n /\ (answer.at = Len(Sending) => k + 1 = n)
    BY <1>1, <1>4
  <2> QED
    BY <2>6, <2>7
<1>5. CASE rest = <<h>> /\ ~IsPayload(h)
  <2> DEFINE x == Now
             y == ReadPayload(x, h)
  <2>1. TextGood(x, k) /\ Speaking
    OBVIOUS
  <2>2. Reading(<<h>>) = y
    BY ReadingOne
  <2> HIDE DEF h, x
  <2>3. TextGood(y, k) \/ (~Native /\ Raw(y.read) /\ y.read \o << >> = y.read)
    BY <1>5, <2>1, OtherStep
  <2> HIDE DEF y
  <2>4. Reading(rest) = y
    BY <1>5, <2>2
  <2> QED
    BY <1>1, <2>3, <2>4
<1> QED
  BY <1>2, <1>3, <1>4, <1>5

(* The closing frames of the other surfaces say nothing.                     *)
LEMMA ClosingSays ==
  ASSUME deal.surface # "responses", NEW list, Sane(list), NEW q
  PROVE  LET all == list \o IF Native /\ ~ended' THEN FinishStream(deal.surface, q) ELSE << >>
         IN  Sane(all) /\ ReadText(all) = ReadText(list)
<1> DEFINE out == IF Native /\ ~ended' THEN FinishStream(deal.surface, q) ELSE << >>
<1>1. out = << >> \/ out = <<Item("[DONE]")>>
  BY DEF FinishStream, EndMarker
<1>2. Sane(out) /\ ReadText(out) = << >>
  BY <1>1, MarkerShows, NoneRead
<1> HIDE DEF out
<1>3. Sane(list \o out) /\ ReadText(list \o out) = ReadText(list) \o << >> /\ ReadText(list) \in Seq(Words)
  BY <1>2, TextGlued
<1> DEFINE t == ReadText(list)
           W == Words
<1>4. t \in Seq(W)
  BY <1>3
<1> HIDE DEF t, W
<1>5. t \o << >> = t
  BY ONLY <1>4, ConcatEmptySeq
<1> QED
  BY <1>3, <1>5 DEF t, out

LEMMA DealStays ==
  ASSUME deal' = deal
  PROVE  (Buffered' <=> Buffered) /\ Native' = Native /\ (answer' = answer => Sending' = Sending)
BY DEF Buffered, Native, Sending, Bytes

(* The parts of the invariant for an answer whose frames stay.               *)
LEMMA CarriedStays ==
  ASSUME deal' = deal, answer' = answer, Speaking, NEW k \in Nat, k <= Len(answer.frames),
         DOMAIN answer.frames = 1 .. Len(answer.frames),
         Sane(read'), Resembles(ReadText(read'), SaidText(answer.frames, k))
  PROVE  /\ Speaking' /\ Carried(k)'
         /\ NothingLeft(k) => NothingLeft(k)'
<1>1. Sane(read)' /\ ReadText(read)' = ReadText(read') /\ SaidText(answer.frames, k)' = SaidText(answer.frames, k)
  BY TextStays
<1>2. Resembles(ReadText(read), SaidText(answer.frames, k))'
  BY <1>1, TextStays
<1>3. Carried(k)'
  BY <1>1, <1>2 DEF Carried
<1>4. Speaking'
  BY DEF Speaking
<1>5. SaidText(answer.frames, Len(answer.frames))' = SaidText(answer.frames, Len(answer.frames))
  BY TextStays
<1>6. NothingLeft(k) => NothingLeft(k)'
  BY <1>1, <1>5, DealStays DEF NothingLeft
<1> QED
  BY <1>3, <1>4, <1>6

LEMMA EndCarries ==
  ASSUME ReadSound, TurnSound, CarrySound, End
  PROVE  CarrySound'
<1>1. phase = "reading" /\ phase' = "done" /\ UNCHANGED <<deal, asking, answer>>
  BY DEF End
<1>2. ~Buffered /\ ~Buffered'
  BY <1>1, DealStays DEF CarrySound
<1> SUFFICES ASSUME deal.kind # "responses"
             PROVE  Raw(read') \/ (Speaking' /\ \E k \in Nat : Carried(k)' /\ NothingLeft(k)')
  BY <1>1, <1>2 DEF CarrySound, Unread, Raw
<1>3. Speaking /\ (Native \/ buf \in Seq(Intact)) /\ TextHeld
  BY <1>1 DEF CarrySound
<1>4. PICK k : Holding(k) /\ TextGood(Now, k)
  BY <1>3 DEF TextHeld
<1> DEFINE rest == IF Native /\ ended THEN << >> ELSE Flush(buf)
           x == Reading(rest)
<1>5. /\ got' = x.got /\ r' = x.r /\ ended' = x.ended
      /\ read' = x.read \o IF Native /\ ~x.ended THEN FinishStream(deal.surface, x.r) ELSE << >>
  BY DEF End
<1>6. deal.surface = "responses" => deal.stream
  BY <1>2 DEF Buffered
<1>7. rest = << >> \/ rest = Flush(buf)
  OBVIOUS
<1> HIDE DEF rest
<1>8. \/ ~Native /\ Raw(x.read) /\ x.read \o << >> = x.read
      \/ \E k2 \in Nat : /\ k2 <= Len(answer.frames) /\ TextGood(x, k2)
                         /\ answer.at = Len(Sending) => k2 = Len(answer.frames)
  BY <1>3, <1>4, <1>6, <1>7, RestReads
<1> HIDE DEF x
<1>9. CASE ~Native /\ Raw(x.read) /\ x.read \o << >> = x.read
  <2>1. read' = x.read \o << >>
    BY <1>5, <1>9
  <2> QED
    BY <1>9, <2>1
<1>10. CASE \E k2 \in Nat : /\ k2 <= Len(answer.frames) /\ TextGood(x, k2)
                            /\ answer.at = Len(Sending) => k2 = Len(answer.frames)
  <2>1. PICK k2 \in Nat : /\ k2 <= Len(answer.frames) /\ TextGood(x, k2)
                          /\ answer.at = Len(Sending) => k2 = Len(answer.frames)
    BY <1>10
  <2>2. Sane(x.read) /\ Resembles(ReadText(x.read), SaidText(answer.frames, k2))
    BY <2>1 DEF TextGood
  <2>3. Sane(read') /\ ReadText(read') = ReadText(x.read)
    <3>1. CASE deal.surface # "responses"
      <4> DEFINE list == x.read
                 q == x.r
      <4>1. Sane(list)
        BY <2>2
      <4>2. read' = list \o IF Native /\ ~ended' THEN FinishStream(deal.surface, q) ELSE << >>
        BY <1>5
      <4> HIDE DEF list, q
      <4>3. Sane(read') /\ ReadText(read') = ReadText(list)
        BY <3>1, <4>1, <4>2, ClosingSays
      <4> QED
        BY <4>3 DEF list
    <3>2. CASE deal.surface = "responses"
      <4>1. TurnSound'
        BY EndKeeps
      <4>2. ClosedRead(read', r'.text, r'.calls)
        BY <1>1, <1>6, <3>2, <4>1 DEF TurnSound
      <4>3. Closed(read', r'.text, r'.calls)
        BY <4>2, ClosedHolds
      <4>4. read' \in Seq(Items) /\ Spread(TextItem, read') = r'.text
        BY <4>3 DEF Closed
      <4>5. Sane(read') /\ ReadText(read') = r'.text
        BY <1>6, <3>2, <4>4, ItemsRead
      <4>6. ReadText(x.read) = x.r.text
        BY <1>6, <2>1, <3>2, TurnText DEF TextGood
      <4> QED
        BY <1>5, <4>5, <4>6
    <3> QED
      BY <3>1, <3>2
  <2>4. DOMAIN answer.frames = 1 .. Len(answer.frames)
    BY <1>4 DEF Holding
  <2>5. NothingLeft(k2)
    BY <2>1 DEF NothingLeft
  <2>6. Speaking' /\ Carried(k2)' /\ NothingLeft(k2)'
    BY <1>1, <1>3, <2>1, <2>2, <2>3, <2>4, <2>5, CarriedStays
  <2> QED
    BY <2>6
<1> QED
  BY <1>8, <1>9, <1>10

(* Leaving or breaking a stream, a client has what was read of it.           *)
LEMMA LeavingCarries ==
  ASSUME CarrySound, Leave \/ Break
  PROVE  CarrySound'
<1>1. phase = "reading" /\ UNCHANGED <<deal, answer, read>> /\ (phase' = "done" \/ phase' = "broken")
  BY DEF Leave, Break, reading
<1>2. ~Buffered /\ ~Buffered'
  BY <1>1, DealStays DEF CarrySound
<1> SUFFICES ASSUME deal.kind # "responses"
             PROVE  Speaking' /\ \E k \in Nat : Carried(k)' /\ (phase' = "done" => NothingLeft(k)')
  BY <1>1, <1>2 DEF CarrySound, Unread
<1>3. Speaking /\ TextHeld
  BY <1>1 DEF CarrySound
<1>4. PICK k : Holding(k) /\ TextGood(Now, k)
  BY <1>3 DEF TextHeld
<1>5. Carried(k)
  BY <1>4, HeldIsCarried
<1>6. phase' = "done" => NothingLeft(k)
  <2> SUFFICES ASSUME phase' = "done" PROVE NothingLeft(k)
    OBVIOUS
  <2>1. ended
    BY DEF Leave, Break
  <2>2. Over(answer.frames, k)
    BY <1>4, <2>1 DEF TextGood, Now
  <2>3. FramesSound(answer.frames) /\ SpeechSound(answer.frames, deal.kind) /\ Len(answer.frames) \in Nat
    BY <1>3 DEF Speaking
  <2>4. k \in Nat /\ k <= Len(answer.frames)
    BY <1>5 DEF Carried
  <2>5. SaidText(answer.frames, Len(answer.frames)) = SaidText(answer.frames, k)
    BY <2>2, <2>3, <2>4, SaidTextGrows
  <2> QED
    BY <2>5 DEF NothingLeft
<1>7. /\ k \in Nat /\ k <= Len(answer.frames) /\ DOMAIN answer.frames = 1 .. Len(answer.frames)
      /\ Sane(read') /\ Resembles(ReadText(read'), SaidText(answer.frames, k))
  BY <1>1, <1>5 DEF Carried
<1>8. Speaking' /\ Carried(k)' /\ (NothingLeft(k) => NothingLeft(k)')
  BY <1>1, <1>3, <1>7, CarriedStays
<1> QED
  BY <1>6, <1>7, <1>8

LEMMA AskingCarries ==
  ASSUME CarrySound, Parse \/ Build
  PROVE  CarrySound'
<1>1. /\ phase \in Unread /\ phase' \in Unread /\ UNCHANGED <<got, r, read, ended, buf>>
  BY DEF Parse, Build, Unread, reading
<1>2. phase' \notin {"reading", "broken", "done"}
  BY <1>1 DEF Unread
<1> QED
  BY <1>1, <1>2 DEF CarrySound

LEMMA StutterCarries ==
  ASSUME CarrySound, UNCHANGED vars
  PROVE  CarrySound'
<1>1. UNCHANGED <<deal, phase, answer, buf, got, r, read, ended>>
  BY DEF vars, reading
<1>2. Native' = Native /\ Sending' = Sending
  BY <1>1 DEF Native, Sending, Bytes
<1>3. \A p, q : Sent(answer.frames, answer.layout, p, q)' <=> Sent(answer.frames, answer.layout, p, q)
  BY <1>1 DEF Sent, Bytes, Native
<1>4. \A k : Holding(k) => Holding(k)'
  BY <1>1, <1>2, <1>3 DEF Holding
<1>5. Speaking => Speaking'
  BY <1>1 DEF Speaking
<1>6. TextHeld => TextHeld'
  <2> SUFFICES ASSUME NEW k, Holding(k), TextGood(Now, k)
               PROVE  Holding(k)' /\ TextGood(Now, k)'
    BY DEF TextHeld
  <2>1. Now = [got |-> got', r |-> r', read |-> read', ended |-> ended']
    BY <1>1 DEF Now
  <2>2. TextGood([got |-> got', r |-> r', read |-> read', ended |-> ended'], k)
    BY <2>1
  <2> QED
    BY <1>1, <1>4, <2>2, TextGoodStays
<1>7. Speaking => \A k : Carried(k) => Carried(k)' /\ (NothingLeft(k) => NothingLeft(k)')
  <2> SUFFICES ASSUME Speaking, NEW k, Carried(k)
               PROVE  Carried(k)' /\ (NothingLeft(k) => NothingLeft(k)')
    OBVIOUS
  <2>1. /\ k \in Nat /\ k <= Len(answer.frames) /\ DOMAIN answer.frames = 1 .. Len(answer.frames)
        /\ Sane(read') /\ Resembles(ReadText(read'), SaidText(answer.frames, k))
    BY <1>1 DEF Carried
  <2> QED
    BY <1>1, <2>1, CarriedStays
<1>8. BodyRead => BodyRead'
  <2> SUFFICES ASSUME BodyRead PROVE BodyRead'
    OBVIOUS
  <2>1. Sane(read)' /\ ReadText(read)' = ReadText(read)
    BY <1>1, TextStays DEF BodyRead
  <2>2. Resembles(ReadText(read), TextOf(answer.frames[1], "text"))'
    BY <1>1, <2>1, TextStays DEF BodyRead
  <2> QED
    BY <2>1, <2>2 DEF BodyRead
<1>9. Raw(read) => Raw(read')
  BY <1>1
<1> QED
  BY <1>1, <1>2, <1>5, <1>6, <1>7, <1>8, <1>9, DealStays DEF CarrySound

-----------------------------------------------------------------------------
(* Whole answers.                                                            *)

Parts == [type : STRING, text : Seq(STRING)]
Answered == [id : STRING, name : STRING, arguments : Seq(STRING)]

LEMMA BodyText ==
  ASSUME NEW b \in Bodies
  PROVE  TextOf(b, "text") \in Seq(Words)
<1> DEFINE parts == b.parts
           A == Parts
           W == STRING
           n == << >>
           F == [x \in Parts |-> IF x.type = "text" THEN x.text ELSE << >>]
<1>1. parts \in Seq(A)
  BY BodiesAssumption DEF Parts
<1>2. F \in [A -> Seq(W)]
  <2>1. \A x \in Parts : x.text \in Seq(STRING)
    BY DEF Parts
  <2>2. n \in Seq(STRING)
    BY EmptyIn
  <2> QED
    BY <2>1, <2>2
<1>3. \A x \in A : F[x] = IF x.type = "text" THEN x.text ELSE << >>
  OBVIOUS
<1> HIDE DEF parts, A, W, F
<1>4. Spread(F, parts) \in Seq(W)
  BY ONLY <1>1, <1>2, SpreadIs
<1>5. DOMAIN parts = 1 .. Len(parts) /\ \A i \in 1 .. Len(parts) : parts[i] \in A
  BY ONLY <1>1, LenProperties, ElementOfSeq
<1>6. [i \in DOMAIN parts |-> F[parts[i]]] = [i \in DOMAIN parts |-> IF parts[i].type = "text" THEN parts[i].text ELSE << >>]
  BY <1>3, <1>5
<1>7. TextOf(b, "text") = Spread(F, parts)
  BY <1>6 DEF TextOf, Spread, parts
<1> QED
  BY <1>4, <1>7, WordsAre DEF W

LEMMA BodyCalls ==
  ASSUME NEW b \in Bodies
  PROVE  b.calls \in Seq(CallRecs)
<1> DEFINE A == Answered
           B == CallRecs
           calls == b.calls
<1>1. calls \in Seq(A)
  BY BodiesAssumption DEF Answered
<1>2. A \subseteq B
  <2> SUFFICES ASSUME NEW c \in Answered PROVE c \in CallRecs
    OBVIOUS
  <2>1. /\ c = [id |-> c.id, name |-> c.name, arguments |-> c.arguments]
        /\ c.id \in STRING /\ c.name \in STRING /\ c.arguments \in Seq(STRING)
    BY DEF Answered
  <2>2. c.id \in Words /\ c.name \in Words /\ c.arguments \in Seq(Words)
    BY <2>1, WordsAre
  <2> HIDE DEF A, B
  <2> QED
    BY <2>1, <2>2 DEF CallRecs
<1> HIDE DEF A, B, calls
<1>3. calls \in Seq(B)
  BY <1>1, <1>2
<1> QED
  BY <1>3 DEF B, calls

(* A completion has the text of the body it is of.                           *)
LEMMA TranslatedIs ==
  ASSUME NEW kind \in Kinds, NEW b \in Bodies, NEW c, c = TranslateResponse(kind, b), c # << >>
  PROVE  c[1].text = TextOf(b, "text") /\ c[1].calls \in Seq(CallRecs)
<1> DEFINE text == TextOf(b, "text")
           calls == b.calls
           n == << >>
<1>1. calls \in Seq(CallRecs) /\ n \in Seq(CallRecs)
  BY BodyCalls, EmptyIn
<1>2. \A finish : Completion(b, text, finish).text = text /\ Completion(b, text, finish).calls = n
  BY DEF Completion
<1>3. CASE kind = "openai"
  <2> DEFINE x == Completion(b, text, b.finish)
             y == [x EXCEPT !.calls = calls]
  <2>1. c = <<y>>
    BY <1>3 DEF TranslateResponse
  <2>2. y.text = text /\ y.calls = calls
    <3>1. x = [text |-> text, finish |-> b.finish, prompt |-> b.prompt, completion |-> b.completion, calls |-> n]
      BY DEF Completion
    <3> HIDE DEF text, calls, n
    <3> QED
      BY <3>1
  <2> HIDE DEF y
  <2>3. c[1] = y
    BY <2>1
  <2> QED
    BY <1>1, <2>2, <2>3
<1>4. ASSUME kind # "openai"
      PROVE  b.shaped /\ c = CASE kind = "anthropic" -> CompletionOfAnthropic(b)
                               [] kind = "google" -> CompletionOfGoogle(b)
                               [] kind = "responses" -> CompletionOfResponses(b)
  <2>1. kind \in {"anthropic", "google", "responses"}
    BY <1>4 DEF Kinds
  <2>2. b.shaped
    <3> SUFFICES ASSUME ~b.shaped PROVE FALSE
      OBVIOUS
    <3>1. TranslateResponse(kind, b) = << >>
      BY <1>4, <2>1 DEF TranslateResponse
    <3> QED
      BY <3>1
  <2> QED
    BY <1>4, <2>1, <2>2 DEF TranslateResponse
<1>5. CASE kind = "anthropic"
  <2> DEFINE finish == IF b.finish = "" THEN "stop" ELSE AnthropicFinish(b.finish)
             x == Completion(b, text, finish)
  <2>1. c = <<x>>
    BY <1>4, <1>5 DEF CompletionOfAnthropic
  <2> HIDE DEF finish
  <2>2. x.text = text /\ x.calls = n
    BY <1>2
  <2> HIDE DEF x
  <2>3. c[1] = x
    BY <2>1
  <2> QED
    BY <1>1, <2>2, <2>3
<1>6. CASE kind = "google"
  <2> DEFINE finish == CASE b.finish = "MAX_TOKENS" -> "length" [] b.finish \in {"SAFETY", "RECITATION"} -> "content_filter" [] OTHER -> "stop"
             x == Completion(b, text, finish)
  <2>1. c = <<x>>
    BY <1>4, <1>6 DEF CompletionOfGoogle
  <2> HIDE DEF finish
  <2>2. x.text = text /\ x.calls = n
    BY <1>2
  <2> HIDE DEF x
  <2>3. c[1] = x
    BY <2>1
  <2> QED
    BY <1>1, <2>2, <2>3
<1>7. CASE kind = "responses"
  <2> DEFINE stop == "stop"
             x == Completion(b, text, stop)
             y == [x EXCEPT !.prompt = 0, !.completion = 0]
  <2>1. c = <<y>>
    BY <1>4, <1>7 DEF CompletionOfResponses
  <2>2. y.text = text /\ y.calls = n
    <3>1. x = [text |-> text, finish |-> stop, prompt |-> b.prompt, completion |-> b.completion, calls |-> n]
      BY DEF Completion
    <3> HIDE DEF text, n, stop, x
    <3> QED
      BY <3>1
  <2> HIDE DEF y
  <2>3. c[1] = y
    BY <2>1
  <2> QED
    BY <1>1, <2>2, <2>3
<1> QED
  BY <1>3, <1>5, <1>6, <1>7 DEF Kinds

(* A list of items that reads as a text.                                     *)
Tellings(list, text) == Sane(list) /\ ReadText(list) = text /\ text \in Seq(Words)

LEMMA TellingsGlued ==
  ASSUME NEW a, NEW t, Tellings(a, t), NEW b, Tellings(b, << >>)
  PROVE  Tellings(a \o b, t) /\ Tellings(b \o a, t)
<1>1. Sane(a \o b) /\ ReadText(a \o b) = ReadText(a) \o ReadText(b)
  BY TextGlued DEF Tellings
<1>2. Sane(b \o a) /\ ReadText(b \o a) = ReadText(b) \o ReadText(a)
  BY TextGlued DEF Tellings
<1> DEFINE W == Words
<1>3. t \in Seq(W) /\ ReadText(a) = t /\ ReadText(b) = << >>
  BY DEF Tellings
<1> HIDE DEF W
<1>4. t \o << >> = t /\ << >> \o t = t
  BY ONLY <1>3, ConcatEmptySeq
<1> QED
  BY <1>1, <1>2, <1>3, <1>4 DEF Tellings, W

LEMMA TwoGlued ==
  ASSUME NEW A, NEW s, s \in Seq(A), NEW z, z \in A
  PROVE  s \o <<z>> = Append(s, z)
<1> DEFINE t == <<z>>
           v == s \o t
           w == Append(s, z)
           m == Len(s) + 1
<1>1. t \in Seq(A) /\ Len(t) = 1 /\ t[1] = z
  OBVIOUS
<1> HIDE DEF t
<1>2. Joined(A, v, s, t)
  BY ONLY <1>1, s \in Seq(A), ConcatIs
<1>3. w \in Seq(A) /\ Len(w) = m /\ w[m] = z /\ \A i \in 1 .. Len(s) : w[i] = s[i]
  BY AppendProperties
<1>4. Len(s) \in Nat
  OBVIOUS
<1> HIDE DEF v, w
<1>5. v \in Seq(A) /\ Len(v) = m /\ v[m] = z /\ \A i \in 1 .. Len(s) : v[i] = s[i]
  BY <1>1, <1>2, <1>4 DEF Joined
<1>6. v = [i \in 1 .. m |-> v[i]] /\ w = [i \in 1 .. m |-> w[i]]
  BY ONLY <1>3, <1>5
<1>7. \A i \in 1 .. m : i = m \/ i \in 1 .. Len(s)
  BY <1>4
<1>8. \A i \in 1 .. m : v[i] = w[i]
  BY <1>3, <1>5, <1>7
<1> QED
  BY <1>6, <1>8 DEF v, w, t

LEMMA ThreeGlued == \A x, y, z : <<x, y, z>> = (<<x>> \o <<y>>) \o <<z>>
<1> TAKE x, y, z
<1> DEFINE A == {x, y, z}
           s == <<x>>
           t == <<x, y>>
<1>1. s \in Seq(A) /\ t \in Seq(A) /\ y \in A /\ z \in A
  OBVIOUS
<1> DEFINE all == <<x, y, z>>
<1>2. /\ Len(s) = 1 /\ s[1] = x /\ Len(t) = 2 /\ t[1] = x /\ t[2] = y
      /\ all \in Seq(A) /\ Len(all) = 3 /\ all[1] = x /\ all[2] = y /\ all[3] = z
  OBVIOUS
<1> HIDE DEF A, s, t, all
<1>4. Append(s, y) = t
  <2> DEFINE v == Append(s, y)
  <2>1. v \in Seq(A) /\ Len(v) = 2 /\ v[1] = x /\ v[2] = y
    <3>1. v \in Seq(A) /\ Len(v) = Len(s) + 1 /\ v[Len(s) + 1] = y /\ \A i \in 1 .. Len(s) : v[i] = s[i]
      BY <1>1, AppendProperties
    <3> HIDE DEF v
    <3> QED
      BY <1>2, <3>1
  <2> HIDE DEF v
  <2>2. v = [i \in 1 .. 2 |-> v[i]] /\ t = [i \in 1 .. 2 |-> t[i]]
    BY <1>1, <1>2, <2>1
  <2>3. \A i \in 1 .. 2 : i = 1 \/ i = 2
    OBVIOUS
  <2>4. \A i \in 1 .. 2 : v[i] = t[i]
    BY <1>2, <2>1, <2>3
  <2> QED
    BY <2>2, <2>4 DEF v
<1>5. Append(t, z) = all
  <2> DEFINE v == Append(t, z)
  <2>1. v \in Seq(A) /\ Len(v) = 3 /\ v[1] = x /\ v[2] = y /\ v[3] = z
    <3>1. v \in Seq(A) /\ Len(v) = Len(t) + 1 /\ v[Len(t) + 1] = z /\ \A i \in 1 .. Len(t) : v[i] = t[i]
      BY <1>1, AppendProperties
    <3> HIDE DEF v
    <3> QED
      BY <1>2, <3>1
  <2> HIDE DEF v
  <2>2. v = [i \in 1 .. 3 |-> v[i]] /\ all = [i \in 1 .. 3 |-> all[i]]
    BY <1>2, <2>1
  <2>3. \A i \in 1 .. 3 : i = 1 \/ i = 2 \/ i = 3
    OBVIOUS
  <2>4. \A i \in 1 .. 3 : v[i] = all[i]
    BY <1>2, <2>1, <2>3
  <2> QED
    BY <2>2, <2>4 DEF v
<1>3. s \o <<y>> = Append(s, y) /\ t \o <<z>> = Append(t, z)
  BY <1>1, TwoGlued
<1> QED
  BY <1>3, <1>4, <1>5 DEF s, all

(* sse_response_from_completion                                              *)
LEMMA StreamedShows ==
  ASSUME deal.stream, NEW c, c.text \in Seq(Words)
  PROVE  Tellings(StreamOfCompletion(c), c.text)
<1> DEFINE text == c.text
           n == << >>
           chunk == Item("chunk")
           x == [chunk EXCEPT !.text = text]
           y == [chunk EXCEPT !.finish = "stop"]
           z == Item("[DONE]")
<1>1. StreamOfCompletion(c) = <<x, y, z>>
  BY DEF StreamOfCompletion
<1>2. Shape(chunk, "chunk", n)
  BY ItemShape
<1> HIDE DEF chunk
<1>3. Shape(x, "chunk", text) /\ Shape(y, "chunk", n)
  BY <1>2, ShapeIs
<1>4. "chunk" \in DeltaTypes /\ text \in Seq(Words) /\ n \in Seq(Words)
  BY EmptyIn DEF DeltaTypes
<1> HIDE DEF x, y, n, text
<1>5. Tellings(<<x>>, text) /\ Tellings(<<y>>, n)
  BY <1>3, <1>4, ShapeRead DEF Tellings
<1>6. Tellings(<<z>>, << >>)
  BY MarkerShows, EmptyIn DEF Tellings
<1> HIDE DEF z
<1>7. <<x, y, z>> = (<<x>> \o <<y>>) \o <<z>>
  BY ThreeGlued
<1>8. Tellings(<<x>> \o <<y>>, text)
  BY <1>5, TellingsGlued DEF n
<1>9. Tellings((<<x>> \o <<y>>) \o <<z>>, text)
  BY <1>6, <1>8, TellingsGlued
<1> QED
  BY <1>1, <1>7, <1>9 DEF text

LEMMA AnswerShows ==
  ASSUME NEW type, type \in DeltaTypes \/ (type = "message" /\ ~deal.stream),
         NEW c, c.text \in Seq(Words), NEW finish
  PROVE  Tellings(AnswerOn(type, c, finish), c.text)
<1> DEFINE text == c.text
           prompt == c.prompt
           completion == c.completion
           n == << >>
           x0 == Item(type)
           x1 == [x0 EXCEPT !.text = text]
           x2 == [x1 EXCEPT !.finish = finish]
           x3 == [x2 EXCEPT !.prompt = prompt]
           x4 == [x0 EXCEPT !.text = text, !.finish = finish, !.prompt = prompt, !.completion = completion]
<1>1. AnswerOn(type, c, finish) = <<x4>>
  BY DEF AnswerOn
<1>2. text \in Seq(Words)
  OBVIOUS
<1>3. Shape(x0, type, n)
  BY ItemShape
<1> HIDE DEF x0, n, text, prompt, completion
<1>4. x4 = [x3 EXCEPT !.completion = completion]
  OBVIOUS
<1>5. Shape(x1, type, text)
  BY <1>3, ShapeIs
<1> HIDE DEF x1
<1>6. Shape(x2, type, text)
  BY <1>5, ShapeIs
<1> HIDE DEF x2
<1>7. Shape(x3, type, text)
  BY <1>6, ShapeIs
<1> HIDE DEF x3, x4
<1>8. Shape(x4, type, text)
  BY <1>4, <1>7, ShapeIs
<1>9. Tellings(<<x4>>, text)
  BY <1>2, <1>8, ShapeRead DEF Tellings
<1> QED
  BY <1>1, <1>9 DEF text

LEMMA ResponseShows ==
  ASSUME ~deal.stream, NEW c, c.text \in Seq(Words), c.calls \in Seq(CallRecs)
  PROVE  Tellings(AnswerResponses(c), c.text)
<1> DEFINE text == c.text
           calls == c.calls
           n == << >>
           said == MessageItems(text)
           f == FunctionCallItems(calls)
           u == UsageItem("response", c.prompt, c.completion)
<1>1. AnswerResponses(c) = said \o f \o u
  BY DEF AnswerResponses
<1>2. text \in Seq(Words) /\ calls \in Seq(CallRecs) /\ n \in Seq(Words)
  BY EmptyIn
<1>3. Tellings(said, text)
  <2> DEFINE x0 == Item("message")
             x == [x0 EXCEPT !.text = text]
  <2>1. said = IF text = << >> THEN << >> ELSE <<x>>
    BY DEF MessageItems
  <2>2. Shape(x0, "message", n)
    BY ItemShape
  <2> HIDE DEF x0, said, text
  <2>3. Shape(x, "message", text)
    BY <2>2, ShapeIs
  <2> HIDE DEF x
  <2>4. Tellings(<<x>>, text)
    BY <1>2, <2>3, ShapeRead DEF Tellings
  <2>5. Tellings(n, n)
    BY <1>2, NoneRead DEF Tellings
  <2> QED
    BY <2>1, <2>4, <2>5
<1>4. Tellings(f, n)
  <2> DEFINE I == Items
  <2>2. \A i \in 1 .. Len(f) : Closes(f[i], n)
    BY <1>2, CallsAre
  <2>3. f \in Seq(I)
    BY <1>2, CallsAre
  <2> HIDE DEF f, I
  <2>4. Len(f) \in Nat /\ f = [i \in 1 .. Len(f) |-> f[i]]
    BY ONLY <2>3
  <2>5. \A i \in 1 .. Len(f) : TextPart(f[i]) = n
    BY <2>2 DEF Closes, Closing, TextPart, DeltaTypes
  <2>6. Sane(f) /\ ReadText(f) = n
    BY <2>4, <2>5, NoText
  <2> QED
    BY <1>2, <2>6 DEF Tellings
<1>5. Tellings(u, n)
  <2> DEFINE type == "response"
             prompt == c.prompt
             completion == c.completion
             x0 == Item(type)
             x1 == [x0 EXCEPT !.prompt = prompt]
             x2 == [x0 EXCEPT !.prompt = prompt, !.completion = completion]
  <2>1. u = <<x2>>
    BY DEF UsageItem
  <2>2. Shape(x0, type, n)
    BY ItemShape
  <2>3. type \notin DeltaTypes /\ type # "message"
    BY DEF DeltaTypes
  <2> HIDE DEF x0, prompt, completion, type, n
  <2>4. x2 = [x1 EXCEPT !.completion = completion]
    OBVIOUS
  <2>5. Shape(x1, type, n)
    BY <2>2, ShapeIs
  <2> HIDE DEF x1, x2
  <2>6. Shape(x2, type, n)
    BY <2>4, <2>5, ShapeIs
  <2>7. Tellings(<<x2>>, n)
    BY <1>2, <2>3, <2>6, ShapeRead DEF Tellings, n
  <2> QED
    BY <2>1, <2>7
<1> HIDE DEF said, f, u
<1>6. Tellings(said \o f, text)
  BY <1>3, <1>4, TellingsGlued
<1> DEFINE a == said \o f
<1> HIDE DEF a
<1>7. Tellings(a \o u, text)
  BY <1>5, <1>6, TellingsGlued DEF a
<1> QED
  BY <1>1, <1>7 DEF a, text

(* A native surface's whole answer, in its dialect.                          *)
LEMMA RenderedShows ==
  ASSUME ~deal.stream, NEW surface, NEW c, c.text \in Seq(Words), c.calls \in Seq(CallRecs)
  PROVE  Tellings(RenderResponse(surface, c), c.text)
<1>1. "candidates" \in DeltaTypes /\ "chat.completion" \in DeltaTypes
  BY DEF DeltaTypes
<1>2. \A finish : /\ Tellings(AnswerOn("message", c, finish), c.text)
                  /\ Tellings(AnswerOn("candidates", c, finish), c.text)
                  /\ Tellings(AnswerOn("chat.completion", c, finish), c.text)
  BY <1>1, AnswerShows
<1>3. CASE surface = "anthropic"
  BY <1>2, <1>3 DEF RenderResponse, AnswerAnthropic
<1>4. CASE surface = "google"
  BY <1>2, <1>4 DEF RenderResponse, AnswerGoogle
<1>5. CASE surface = "responses"
  <2>1. Tellings(AnswerResponses(c), c.text)
    BY ResponseShows
  <2> QED
    BY <1>5, <2>1 DEF RenderResponse
<1>6. CASE surface \notin {"anthropic", "google", "responses"}
  BY <1>2, <1>6 DEF RenderResponse, AnswerOpenAI
<1> QED
  BY <1>3, <1>4, <1>5, <1>6

(* The OpenAI handler's.                                                     *)
LEMMA CompletionShows ==
  ASSUME NEW text \in Seq(Words), NEW finish, NEW calls
  PROVE  Tellings(<<[Item("chat.completion") EXCEPT !.text = text, !.finish = finish, !.calls = calls]>>, text)
<1> DEFINE type == "chat.completion"
           n == << >>
           x0 == Item(type)
           x1 == [x0 EXCEPT !.text = text]
           x2 == [x1 EXCEPT !.finish = finish]
           x3 == [x0 EXCEPT !.text = text, !.finish = finish, !.calls = calls]
<1>1. Shape(x0, type, n) /\ type \in DeltaTypes
  BY ItemShape DEF DeltaTypes
<1> HIDE DEF x0, n
<1>2. x3 = [x2 EXCEPT !.calls = calls]
  OBVIOUS
<1>3. Shape(x1, type, text)
  BY <1>1, ShapeIs
<1> HIDE DEF x1
<1>4. Shape(x2, type, text)
  BY <1>3, ShapeIs
<1> HIDE DEF x2, x3
<1>5. Shape(x3, type, text)
  BY <1>2, <1>4, ShapeIs
<1> HIDE DEF type
<1>6. Tellings(<<x3>>, text)
  BY <1>1, <1>5, ShapeRead DEF Tellings
<1> QED
  BY <1>6 DEF x3, x0, type

LEMMA AnswerWholeCarries ==
  ASSUME ReadSound, CarrySound, AnswerWhole
  PROVE  CarrySound'
<1>1. deal' = deal /\ Buffered /\ deal.kind \in Kinds
  BY DEF AnswerWhole, ReadSound
<1>2. PICK b \in Bodies : Deliver(b) /\ answer' = [Silent EXCEPT !.frames = <<b>>]
  BY DEF AnswerWhole
<1>3. phase' = "failed" \/ phase' = "done"
  BY <1>2 DEF Deliver
<1>4. Buffered'
  BY <1>1, DealStays
<1> SUFFICES ASSUME phase' = "done"
             PROVE  Raw(read') \/ BodyRead'
  BY <1>3, <1>4 DEF CarrySound, Unread, Raw
<1> DEFINE c == TranslateResponse(deal.kind, b)
           d == c[1]
           text == TextOf(b, "text")
<1>5. c # << >>
  BY <1>2 DEF Deliver
<1>6. d.text = text /\ d.calls \in Seq(CallRecs) /\ text \in Seq(Words)
  BY <1>1, <1>5, TranslatedIs, BodyText
<1>7. read' = IF ~b.shaped THEN <<Item("raw")>>
              ELSE IF deal.stream THEN StreamOfCompletion(d)
              ELSE IF Native THEN RenderResponse(deal.surface, d)
              ELSE <<[Item("chat.completion") EXCEPT !.text = d.text, !.finish = d.finish, !.calls = d.calls]>>
  BY <1>2, <1>5 DEF Deliver
<1> HIDE DEF d, c, text
<1>8. CASE ~b.shaped
  <2> DEFINE x == Item("raw")
  <2>1. x.type = "raw"
    BY ItemShape, ShapeIs
  <2> HIDE DEF x
  <2>2. read' = <<x>>
    BY <1>7, <1>8 DEF x
  <2>3. 1 \in DOMAIN read' /\ read'[1] = x
    BY <2>2
  <2> QED
    BY <2>1, <2>3 DEF Raw
<1>9. ASSUME Tellings(read', text)
      PROVE  BodyRead'
  <2>1. Sane(read') /\ ReadText(read') = text
    BY <1>9 DEF Tellings
  <2>2. Sane(read)' /\ ReadText(read)' = text
    BY <1>1, <2>1, TextStays
  <2>3. TextOf(answer'.frames[1], "text") = text
    <3>1. answer'.frames = <<b>>
      BY <1>2 DEF Silent
    <3>2. answer'.frames[1] = b
      BY <3>1
    <3> QED
      BY <3>2 DEF text
  <2>4. Resembles(text, text)
    BY <1>6, ResembleSelf
  <2>5. Resembles(ReadText(read), TextOf(answer.frames[1], "text"))'
    <3>1. TextOf(answer.frames[1], "text")' = TextOf(answer'.frames[1], "text")
      BY DEF TextOf
    <3> QED
      BY <1>1, <2>2, <2>3, <2>4, <3>1, TextStays
  <2> QED
    BY <2>2, <2>5 DEF BodyRead
<1>10. CASE b.shaped /\ deal.stream
  <2>1. Tellings(read', text)
    BY <1>6, <1>7, <1>10, StreamedShows
  <2> QED
    BY <1>9, <2>1
<1>11. CASE b.shaped /\ ~deal.stream /\ Native
  <2> DEFINE surface == deal.surface
  <2>1. read' = RenderResponse(surface, d)
    BY <1>7, <1>11
  <2> HIDE DEF surface
  <2>2. Tellings(read', text)
    BY <1>6, <1>11, <2>1, RenderedShows
  <2> QED
    BY <1>9, <2>2
<1>12. CASE b.shaped /\ ~deal.stream /\ ~Native
  <2> DEFINE finish == d.finish
             calls == d.calls
             words == d.text
  <2>1. read' = <<[Item("chat.completion") EXCEPT !.text = words, !.finish = finish, !.calls = calls]>>
    BY <1>7, <1>12
  <2>2. words \in Seq(Words) /\ words = text
    BY <1>6
  <2> HIDE DEF finish, calls, words
  <2>3. Tellings(read', text)
    BY <2>1, <2>2, CompletionShows
  <2> QED
    BY <1>9, <2>3
<1> QED
  BY <1>8, <1>10, <1>11, <1>12

LEMMA CarryStaysSound == ReadSound /\ TurnSound /\ CarrySound /\ [Next]_vars => CarrySound'
<1> SUFFICES ASSUME ReadSound, TurnSound, CarrySound, [Next]_vars PROVE CarrySound'
  OBVIOUS
<1>1. CASE Parse \/ Build
  BY <1>1, AskingCarries
<1>2. CASE AnswerWhole
  BY <1>2, AnswerWholeCarries
<1>3. CASE AnswerStream
  BY <1>3, AnswerStreamCarries
<1>4. CASE Chunk
  BY <1>4, ChunkCarries
<1>5. CASE End
  BY <1>5, EndCarries
<1>6. CASE Leave \/ Break
  BY <1>6, LeavingCarries
<1>7. CASE UNCHANGED vars
  BY <1>7, StutterCarries
<1> QED
  BY <1>1, <1>2, <1>3, <1>4, <1>5, <1>6, <1>7 DEF Next

(* The text arrives: what translate_response, sse_response_from_completion   *)
(* and the readers and renderers of both handlers have given a client is at  *)
(* each moment the front of what the upstream said, piece by piece, nothing  *)
(* twice or out of order, and all of it when the stream came to its end, for *)
(* every stream and body that StreamAssumption, SpeechAssumption and         *)
(* BodiesAssumption allow, every layout and every cut by the network.        *)
THEOREM TextStaysCarried == Spec => []TextIsCarried
<1>1. Init => ReadSound /\ TurnSound /\ CarrySound
  BY ReadStarts, TurnStarts, CarryStarts
<1>2. ReadSound /\ TurnSound /\ CarrySound /\ [Next]_vars => ReadSound' /\ TurnSound' /\ CarrySound'
  BY ReadStaysSound, TurnStaysSound, CarryStaysSound
<1>3. CarrySound => TextIsCarried
  BY CarryIsSound
<1> QED
  BY <1>1, <1>2, <1>3, PTL DEF Spec

=============================================================================
