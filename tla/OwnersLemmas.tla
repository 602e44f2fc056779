--------------------------- MODULE OwnersLemmas ----------------------------
(***************************************************************************)
(* What each kind of write does to the owners of blocks, and to where      *)
(* paths lead, on any two disks; and that Ownership holds after the steps  *)
(* that take nothing away: the calls on the disk as a whole, on an open    *)
(* file, along a path, and those that make an inode.  For OwnersProofs.    *)
(* At the end, which disks the check of tfs_mount accepts.                 *)
(***************************************************************************)
EXTENDS TinyFSOwners, TinyFSProofs, WellFoundedInduction, FiniteSetTheorems,

        SequenceTheorems

USE Bounds

Disks == [Addr -> Sized]

(* Induction, as the least number with a property. *)
LEMMA LeastNumber ==
  ASSUME NEW S \in SUBSET Nat, S # {}
  PROVE  \E n \in S : \A m \in S : n <= m
<1> DEFINE R == {ss \in Nat \X Nat : ss[1] < ss[2]}
<1>1. OpToRel(<, Nat) = R
  BY DEF OpToRel
<1>2. IsWellFoundedOn(R, Nat)
  BY <1>1, NatLessThanWellFounded
<1> HIDE DEF R
<1>3. PICK n \in S : \A m \in S : ~ (<<m, n>> \in R)
  BY <1>2, WFMin
<1>4. ASSUME NEW m \in S PROVE n <= m
  <2>1. m \in Nat /\ n \in Nat
    OBVIOUS
  <2>2. <<m, n>> \in Nat \X Nat /\ <<m, n>>[1] = m /\ <<m, n>>[2] = n
    BY <2>1
  <2>3. m < n => <<m, n>> \in R
    BY <2>2 DEF R
  <2> QED BY <1>3, <2>1, <2>3
<1> QED BY <1>4

LEMMA AsSequence ==
  ASSUME NEW S, NEW n \in Nat, NEW f \in [1 .. n -> S]
  PROVE  f \in Seq(S) /\ Len(f) = n
  OBVIOUS

LEMMA Ends == SUPERBLOCK_DISKLOC = 0 /\ 0 \in Addr
  BY DEF SUPERBLOCK_DISKLOC, Addr

LEMMA DiskFields ==
  ASSUME NEW d \in Disks, NEW b \in Addr
  PROVE  /\ d[b] \in Sized /\ d[b].next \in Addr /\ d[b].ptr \in Ptrs
         /\ \A i \in 1 .. Slots : d[b].ptr[i] \in Addr
  BY Fields DEF Disks

---------------------------------------------------------------------------
(* Owners depend on types, kinds and pointers only. *)

SameOwners(d, e) ==
  \A b \in Addr : e[b].type = d[b].type /\ e[b].kind = d[b].kind
                  /\ e[b].ptr = d[b].ptr

LEMMA OwnersStay ==
  ASSUME NEW d \in Disks, NEW e, SameOwners(d, e),
         NEW given, NEW hand
  PROVE  /\ Shaped(d) => Shaped(e)
         /\ Apart(d, given, hand) => Apart(e, given, hand)
         /\ Held(d, given, hand) => Held(e, given, hand)
         /\ \A list : AllListed(d, hand, list) => AllListed(e, hand, list)
<1>1. Shaped(d) => Shaped(e)
  BY Ends DEF Shaped, SameOwners
<1>2. \A x \in Addr, i \in 1 .. Slots :
        Counts(e, given, x, i) <=> Counts(d, given, x, i)
  BY DEF Counts, SameOwners
<1>3. Apart(d, given, hand) => Apart(e, given, hand)
  <2> SUFFICES ASSUME Apart(d, given, hand), NEW x \in Addr, NEW i \in 1 .. Slots,
                      Counts(e, given, x, i)
               PROVE  /\ e[x].ptr[i] \notin hand
                      /\ e[e[x].ptr[i]].type = IF e[x].kind = "file" THEN "FILEEX" ELSE "INODE"
                      /\ \A y \in Addr, j \in 1 .. Slots :
                           Counts(e, given, y, j) /\ e[y].ptr[j] = e[x].ptr[i]
                             => y = x /\ j = i
    BY DEF Apart
  <2>1. Counts(d, given, x, i) /\ e[x].ptr[i] = d[x].ptr[i] /\ d[x].ptr[i] \in Addr
    BY <1>2, DiskFields DEF SameOwners
  <2> QED BY <1>2, <2>1 DEF Apart, SameOwners
<1>4. Held(d, given, hand) => Held(e, given, hand)
  BY <1>2 DEF Held, SameOwners
<1>5. \A list : AllListed(d, hand, list) => AllListed(e, hand, list)
  BY DEF AllListed, SameOwners
<1> QED BY <1>1, <1>3, <1>4, <1>5

(* A write of other fields. *)
LEMMA OwnsStay ==
  ASSUME NEW d \in Disks, NEW e, SameOwners(d, e), NEW given, NEW hand,
         NEW list \in Lists, Owns(d, given, hand, list),
         \A b \in Addr : e[b].next = d[b].next
  PROVE  Owns(e, given, hand, list)
<1>1. Chain(e, list)
  BY Ends DEF Owns, Chain, SameOwners, Lists
<1> QED BY <1>1, OwnersStay DEF Owns

(* Other pointers that do not count, but the same that do. *)
LEMMA GivenUp ==
  ASSUME NEW d, NEW given, NEW other, NEW hand, NEW list,
         Owns(d, given, hand, list),
         \A x \in Addr, i \in 1 .. Slots :
           Counts(d, other, x, i) <=> Counts(d, given, x, i)
  PROVE  Owns(d, other, hand, list)
  BY DEF Owns, Apart, Held

(* What a pointer that counts leads to. *)
LEMMA OneOwnerOf ==
  ASSUME NEW d, NEW given, NEW hand, NEW list, Owns(d, given, hand, list),
         NEW x \in Addr, NEW i \in 1 .. Slots, Counts(d, given, x, i)
  PROVE  /\ d[x].ptr[i] \notin hand
         /\ d[d[x].ptr[i]].type = IF d[x].kind = "file" THEN "FILEEX" ELSE "INODE"
         /\ \A y \in Addr, j \in 1 .. Slots :
              Counts(d, given, y, j) /\ d[y].ptr[j] = d[x].ptr[i] => y = x /\ j = i
  BY DEF Owns, Apart

---------------------------------------------------------------------------
(* The free list. *)

(* What a write of the superblock, and _free_block's write of b, leave. *)
WithHead(d, m) == [d EXCEPT ![0].next = m]
FreedOn(d, b) == [d EXCEPT ![b] = FreeBlk(d[0].next)]

LEMMA ListFacts ==
  ASSUME NEW d \in Disks, NEW list \in Lists, Shaped(d), Chain(d, list)
  PROVE  /\ Len(list) \in Nat
         /\ \A i \in 1 .. Len(list) : /\ list[i] \in Addr /\ list[i] # 0
                                      /\ d[list[i]].type = "FREE"
                                      /\ d[list[i]].kind = "none"
         /\ d[0].next = 0 <=> list = <<>>
         /\ list # <<>> => /\ list[1] = d[0].next /\ 1 \in 1 .. Len(list)
                           /\ Tail(list) \in Lists /\ Len(Tail(list)) = Len(list) - 1
                           /\ \A i \in 1 .. Len(list) - 1 : Tail(list)[i] = list[i + 1]
  BY Ends DEF Lists, Chain, Shaped

LEMMA EmptyHasNone == ASSUME NEW S, NEW s \in Seq(S) PROVE s = <<>> <=> Len(s) = 0
OBVIOUS

LEMMA Pop ==
  ASSUME NEW d \in Disks, NEW given, NEW list \in Lists, Owns(d, given, {}, list),
         list # <<>>, NEW e, e = WithHead(d, d[d[0].next].next)
  PROVE  /\ Tail(list) \in Lists /\ Len(Tail(list)) = Len(list) - 1
         /\ Owns(e, given, {d[0].next}, Tail(list))
         /\ d[0].next # 0 /\ e[d[0].next].type = "FREE"
<1> DEFINE b == d[0].next
<1>1. /\ \A i \in 1 .. Len(list) : list[i] \in Addr /\ list[i] # 0 /\ d[list[i]].type = "FREE"
      /\ list[1] = b /\ 1 \in 1 .. Len(list) /\ b # 0
      /\ Tail(list) \in Lists /\ Len(Tail(list)) = Len(list) - 1
      /\ \A i \in 1 .. Len(list) - 1 : Tail(list)[i] = list[i + 1]
  BY ListFacts DEF Owns
<1>2. /\ b \in Addr /\ d[b].next \in Addr
      /\ e[0].next = d[b].next
      /\ \A c \in Addr : c # 0 => e[c] = d[c]
      /\ \A c \in Addr : e[c].type = d[c].type /\ e[c].kind = d[c].kind
                         /\ e[c].ptr = d[c].ptr
  BY <1>1, Ends, DiskFields DEF Disks, Sized, Block, WithHead
<1>3. SameOwners(d, e)
  BY <1>2 DEF SameOwners
<1>4. Shaped(e)
  BY <1>3, OwnersStay DEF Owns
<1>5. Chain(e, Tail(list))
  <2>1. \A i, j \in 1 .. Len(Tail(list)) : Tail(list)[i] = Tail(list)[j] => i = j
    BY <1>1 DEF Owns, Chain, Lists
  <2>2. e[0].next = IF Tail(list) = <<>> THEN 0 ELSE Tail(list)[1]
    <3>1. d[b].next = IF 1 < Len(list) THEN list[1 + 1] ELSE 0
      BY <1>1 DEF Owns, Chain
    <3>2. Tail(list) = <<>> <=> Len(Tail(list)) = 0
      BY <1>1, EmptyHasNone DEF Lists
    <3>3. Len(list) \in Nat /\ (1 < Len(list) => Tail(list)[1] = list[1 + 1])
      BY <1>1 DEF Lists
    <3> QED BY <1>1, <1>2, <3>1, <3>2, <3>3
  <2>3. ASSUME NEW i \in 1 .. Len(Tail(list))
        PROVE  /\ e[Tail(list)[i]].type = "FREE"
               /\ e[Tail(list)[i]].next =
                    IF i < Len(Tail(list)) THEN Tail(list)[i + 1] ELSE 0
    <3>1. i + 1 \in 1 .. Len(list) /\ Tail(list)[i] = list[i + 1]
      BY <1>1 DEF Lists
    <3>2. i < Len(Tail(list)) => Tail(list)[i + 1] = list[i + 1 + 1]
      BY <1>1 DEF Lists
    <3>3. /\ d[list[i + 1]].type = "FREE"
          /\ d[list[i + 1]].next = IF i + 1 < Len(list) THEN list[i + 1 + 1] ELSE 0
      BY <3>1 DEF Owns, Chain
    <3>4. e[list[i + 1]] = d[list[i + 1]]
      BY <1>1, <1>2, <3>1
    <3>5. Len(list) \in Nat /\ (i < Len(Tail(list)) <=> i + 1 < Len(list))
      BY <1>1 DEF Lists
    <3> QED BY <3>1, <3>2, <3>3, <3>4, <3>5
  <2> QED BY <2>1, <2>2, <2>3, Ends DEF Chain
<1>6. Apart(e, given, {b})
  <2>1. Apart(d, given, {b})
    <3>1. ASSUME NEW x \in Addr, NEW i \in 1 .. Slots, Counts(d, given, x, i)
          PROVE  d[x].ptr[i] # b
      BY <1>1, <3>1 DEF Owns, Apart
    <3> QED BY <3>1 DEF Owns, Apart
  <2> QED BY <1>3, <2>1, OwnersStay
<1>7. Held(e, given, {b})
  <2>1. Held(d, given, {b})
    BY DEF Owns, Held
  <2> QED BY <1>3, <2>1, OwnersStay
<1>8. LosesNone => AllListed(e, {b}, Tail(list))
  <2> SUFFICES ASSUME LosesNone, NEW c \in Addr \ {0}, d[c].type = "FREE", c # b
               PROVE  \E i \in 1 .. Len(Tail(list)) : Tail(list)[i] = c
    BY <1>2, Ends DEF AllListed
  <2>1. PICK i \in 1 .. Len(list) : list[i] = c
    BY Ends DEF Owns, AllListed
  <2>2. i # 1 /\ i - 1 \in 1 .. Len(list) - 1 /\ Tail(list)[i - 1] = list[i]
    BY <1>1, <2>1 DEF Lists
  <2> QED BY <1>1, <2>1, <2>2
<1>9. \A i \in 1 .. Len(Tail(list)) : Tail(list)[i] \notin {b}
  BY <1>1 DEF Owns, Chain, Lists
<1>10. Owns(e, given, {b}, Tail(list))
  BY <1>4, <1>5, <1>6, <1>7, <1>8, <1>9 DEF Owns
<1>11. d[0].next # 0 /\ e[d[0].next].type = "FREE"
  <2>1. e[b] = d[b]
    BY <1>1, <1>2
  <2>2. b # 0 /\ d[b].type = "FREE"
    BY <1>1
  <2> QED BY <2>1, <2>2
<1> HIDE DEF b
<1>12. Tail(list) \in Lists /\ Len(Tail(list)) = Len(list) - 1
  BY <1>1
<1>13. Owns(e, given, {d[0].next}, Tail(list))
  BY <1>10 DEF b
<1> QED BY <1>11, <1>12, <1>13

(* No pointer of b counts; of the others, those to b do not any more.      *)
GivesUp(d, given, other, b) ==
  /\ \A j \in 1 .. Slots : ~ Counts(d, given, b, j)
  /\ \A y \in Addr \ {b}, j \in 1 .. Slots :
       Counts(d, other, y, j) <=> Counts(d, given, y, j) /\ d[y].ptr[j] # b

(* _free_block writes b as the new head of the list; the pointers to b do  *)
(* not count any more.                                                     *)
LEMMA Free ==
  ASSUME NEW d \in Disks, NEW given, NEW other, NEW list \in Lists,
         Owns(d, given, {}, list),
         NEW b \in Addr, b # 0, d[b].type # "FREE",
         GivesUp(d, given, other, b),
         NEW e, e = FreedOn(d, b)
  PROVE  /\ Owns(e, other, {b}, list)
         /\ e[b].type = "FREE" /\ e[b].next = e[0].next
         /\ e[b].kind = "none" /\ \A j \in 1 .. Slots : e[b].ptr[j] = 0
<1>1. /\ e[b].type = "FREE" /\ e[b].next = d[0].next /\ e[b].kind = "none"
      /\ \A j \in 1 .. Slots : e[b].ptr[j] = 0
      /\ \A c \in Addr : c # b => e[c] = d[c]
  BY DEF Disks, FreedOn, FreeBlk, Blank
<1>2. \A y \in Addr, j \in 1 .. Slots :
        Counts(e, other, y, j) <=>
          y # b /\ Counts(d, given, y, j) /\ d[y].ptr[j] # b
  <2> SUFFICES ASSUME NEW y \in Addr, NEW j \in 1 .. Slots
               PROVE  Counts(e, other, y, j) <=>
                        y # b /\ Counts(d, given, y, j) /\ d[y].ptr[j] # b
    OBVIOUS
  <2>1. CASE y = b
    BY <1>1, <2>1 DEF Counts
  <2>2. CASE y # b
    <3>1. e[y] = d[y] /\ y \in Addr \ {b}
      BY <1>1, <2>2
    <3>2. Counts(e, other, y, j) <=> Counts(d, other, y, j)
      BY <3>1 DEF Counts
    <3> QED BY <2>2, <3>1, <3>2 DEF GivesUp
  <2> QED BY <2>1, <2>2
<1>3. Shaped(e)
  BY <1>1, Ends DEF Owns, Shaped
<1>4. \A i \in 1 .. Len(list) : list[i] \in Addr /\ list[i] # b
  BY ListFacts DEF Owns
<1>5. Chain(e, list)
  BY <1>1, <1>4, Ends DEF Owns, Chain
<1>6. Apart(e, other, {b})
  <2> SUFFICES ASSUME NEW x \in Addr, NEW i \in 1 .. Slots, Counts(e, other, x, i)
               PROVE  /\ e[x].ptr[i] # b
                      /\ e[e[x].ptr[i]].type = IF e[x].kind = "file" THEN "FILEEX" ELSE "INODE"
                      /\ \A y \in Addr, j \in 1 .. Slots :
                           Counts(e, other, y, j) /\ e[y].ptr[j] = e[x].ptr[i]
                             => y = x /\ j = i
    BY DEF Apart
  <2>1. x # b /\ e[x] = d[x] /\ Counts(d, given, x, i) /\ d[x].ptr[i] # b
        /\ d[x].ptr[i] \in Addr
    BY <1>1, <1>2, DiskFields
  <2>2. \A y \in Addr, j \in 1 .. Slots :
          Counts(e, other, y, j) => e[y] = d[y] /\ Counts(d, given, y, j)
    BY <1>1, <1>2
  <2>3. /\ d[d[x].ptr[i]].type = IF d[x].kind = "file" THEN "FILEEX" ELSE "INODE"
        /\ \A y \in Addr, j \in 1 .. Slots :
             Counts(d, given, y, j) /\ d[y].ptr[j] = d[x].ptr[i] => y = x /\ j = i
    BY <2>1, OneOwnerOf
  <2>4. e[x].ptr[i] = d[x].ptr[i] /\ e[x].kind = d[x].kind
        /\ e[d[x].ptr[i]] = d[d[x].ptr[i]]
    BY <1>1, <2>1
  <2>5. \A y \in Addr, j \in 1 .. Slots :
          Counts(e, other, y, j) => e[y].ptr[j] = d[y].ptr[j]
    BY <2>2
  <2>6. e[e[x].ptr[i]].type = IF e[x].kind = "file" THEN "FILEEX" ELSE "INODE"
    BY <2>3, <2>4
  <2>7. \A y \in Addr, j \in 1 .. Slots :
          Counts(e, other, y, j) /\ e[y].ptr[j] = e[x].ptr[i] => y = x /\ j = i
    <3> SUFFICES ASSUME NEW y \in Addr, NEW j \in 1 .. Slots, Counts(e, other, y, j),
                        e[y].ptr[j] = e[x].ptr[i]
                 PROVE  y = x /\ j = i
      OBVIOUS
    <3>1. Counts(d, given, y, j) /\ e[y].ptr[j] = d[y].ptr[j]
      BY <2>2, <2>5
    <3> QED BY <2>3, <2>4, <3>1
  <2> QED BY <2>1, <2>4, <2>6, <2>7
<1>7. Held(e, other, {b})
  <2> SUFFICES ASSUME NEW c \in Addr \ {0}, d[c].type \in {"INODE", "FILEEX"}, c # b
               PROVE  \E x \in Addr, i \in 1 .. Slots :
                        Counts(e, other, x, i) /\ e[x].ptr[i] = c
    BY <1>1, Ends DEF Held
  <2>1. PICK x \in Addr, i \in 1 .. Slots : Counts(d, given, x, i) /\ d[x].ptr[i] = c
    BY Ends DEF Owns, Held
  <2>2. x # b
    BY <2>1 DEF GivesUp
  <2> QED BY <1>1, <1>2, <2>1, <2>2
<1>8. LosesNone => AllListed(e, {b}, list)
  BY <1>1, Ends DEF Owns, AllListed
<1>9. Owns(e, other, {b}, list)
  BY <1>3, <1>4, <1>5, <1>6, <1>7, <1>8 DEF Owns
<1> QED BY <1>1, <1>9, Ends

LEMMA FreeHeadOf ==
  ASSUME NEW d \in Disks, NEW given, NEW list \in Lists,
         NEW b \in Addr, b # 0, Owns(d, given, {b}, list),
         d[b].type = "FREE", d[b].next = d[0].next,
         NEW e, e = WithHead(d, b)
  PROVE  /\ <<b>> \o list \in Lists /\ Len(<<b>> \o list) = Len(list) + 1
         /\ Owns(e, given, {}, <<b>> \o list)
         /\ \A i \in 1 .. Len(list) :
              \E j \in 1 .. Len(<<b>> \o list) : (<<b>> \o list)[j] = list[i]
<1> DEFINE long == <<b>> \o list
<1>1. /\ long \in Lists /\ Len(long) = Len(list) + 1 /\ long[1] = b
      /\ \A i \in 1 .. Len(list) : long[i + 1] = list[i] /\ i + 1 \in 1 .. Len(long)
      /\ \A i \in 1 .. Len(long) : i = 1 \/ (i - 1 \in 1 .. Len(list) /\ long[i] = list[i - 1])
      /\ Len(list) \in Nat /\ 1 \in 1 .. Len(long) /\ long # <<>>
  BY Ends DEF Lists
<1>2. /\ e[0].next = b
      /\ \A c \in Addr : c # 0 => e[c] = d[c]
      /\ \A c \in Addr : e[c].type = d[c].type /\ e[c].kind = d[c].kind
                         /\ e[c].ptr = d[c].ptr
  BY Ends, DiskFields DEF Disks, Sized, Block, WithHead
<1>3. SameOwners(d, e)
  BY <1>2 DEF SameOwners
<1>4. \A i \in 1 .. Len(list) : list[i] \in Addr /\ list[i] # b /\ list[i] # 0
  BY ListFacts DEF Owns
<1> HIDE DEF long
<1>5. Chain(e, long)
  <2>1. \A i, j \in 1 .. Len(long) : long[i] = long[j] => i = j
    <3> SUFFICES ASSUME NEW i \in 1 .. Len(long), NEW j \in 1 .. Len(long),
                        long[i] = long[j]
                 PROVE  i = j
      OBVIOUS
    <3>1. i = 1 <=> j = 1
      BY <1>1, <1>4
    <3>2. CASE i # 1 /\ j # 1
      <4>1. list[i - 1] = list[j - 1] /\ i - 1 \in 1 .. Len(list) /\ j - 1 \in 1 .. Len(list)
        BY <1>1, <3>2
      <4>2. i - 1 = j - 1
        BY <4>1 DEF Owns, Chain
      <4> QED BY <4>2
    <3> QED BY <3>1, <3>2
  <2>2. e[0].next = IF long = <<>> THEN 0 ELSE long[1]
    BY <1>1, <1>2
  <2>3. ASSUME NEW i \in 1 .. Len(long)
        PROVE  /\ e[long[i]].type = "FREE"
               /\ e[long[i]].next = IF i < Len(long) THEN long[i + 1] ELSE 0
    <3>1. CASE i = 1
      <4>1. long[i] = b /\ e[b] = d[b]
        BY <1>1, <1>2, <3>1
      <4>2. d[0].next = IF 1 < Len(long) THEN long[1 + 1] ELSE 0
        <5>1. CASE list = <<>>
          <6>1. Len(long) = 1
            BY <1>1, <5>1
          <6> QED BY <5>1, <6>1, Ends DEF Owns, Chain
        <5>2. CASE list # <<>>
          <6>1. 1 \in 1 .. Len(list) /\ d[0].next = list[1]
            BY <5>2, ListFacts DEF Owns
          <6>2. 1 < Len(long)
            BY <1>1, <6>1
          <6> QED BY <1>1, <6>1, <6>2
        <5> QED BY <5>1, <5>2
      <4> QED BY <3>1, <4>1, <4>2
    <3>2. CASE i # 1
      <4> DEFINE k == i - 1
      <4>1. k \in 1 .. Len(list) /\ long[i] = list[k] /\ e[list[k]] = d[list[k]]
        BY <1>1, <1>2, <1>4, <3>2
      <4>2. d[list[k]].type = "FREE"
            /\ d[list[k]].next = IF k < Len(list) THEN list[k + 1] ELSE 0
        BY <4>1 DEF Owns, Chain
      <4>3. k < Len(list) <=> i < Len(long)
        BY <1>1, <4>1
      <4>4. k < Len(list) => list[k + 1] = long[i + 1]
        BY <1>1, <4>1
      <4> QED BY <4>1, <4>2, <4>3, <4>4
    <3> QED BY <3>1, <3>2
  <2> QED BY <2>1, <2>2, <2>3, Ends DEF Chain
<1>6. Shaped(e) /\ Apart(e, given, {}) /\ Held(e, given, {})
  <2>1. Apart(d, given, {})
    BY DEF Owns, Apart
  <2>2. Held(d, given, {})
    BY DEF Owns, Held, Shaped
  <2> QED BY <1>3, <2>1, <2>2, OwnersStay DEF Owns
<1>7. LosesNone => AllListed(e, {}, long)
  <2> SUFFICES ASSUME LosesNone, NEW c \in Addr \ {0}, d[c].type = "FREE"
               PROVE  \E i \in 1 .. Len(long) : long[i] = c
    BY <1>2, Ends DEF AllListed
  <2>1. CASE c = b
    BY <1>1, <2>1
  <2>2. CASE c # b
    <3>1. PICK i \in 1 .. Len(list) : list[i] = c
      BY <2>2, Ends DEF Owns, AllListed
    <3> QED BY <1>1, <3>1
  <2> QED BY <2>1, <2>2
<1>8. \A i \in 1 .. Len(list) : \E j \in 1 .. Len(long) : long[j] = list[i]
  BY <1>1
<1> QED BY <1>1, <1>5, <1>6, <1>7, <1>8 DEF Owns, long

(* A popped block that is never used is lost. *)
LEMMA Lose ==
  ASSUME NEW d, NEW given, NEW b, NEW list,
         Owns(d, given, {b}, list), d[b].type = "FREE", ~ LosesNone
  PROVE  Owns(d, given, {}, list)
  BY DEF Owns, Apart, Held

---------------------------------------------------------------------------
(* A block in hand becomes something else: it has no pointers yet, and no  *)
(* pointer that counts leads to it.                                        *)
LEMMA Remake ==
  ASSUME NEW d \in Disks, NEW given, NEW list \in Lists,
         NEW b \in Addr, b # 0, Owns(d, given, {b}, list), d[b].kind = "none",
         NEW e, \A c \in Addr \ {b} : e[c] = d[c],
         e[b].type \in {"INODE", "FILEEX"}, e[b].kind # "none" <=> e[b].type = "INODE",
         \A j \in 1 .. Slots : e[b].ptr[j] = 0
  PROVE  Owns(e, given, {b}, list)
<1>1. \A c \in Addr : c # b => e[c] = d[c]
  OBVIOUS
<1>2. \A j \in 1 .. Slots : d[b].ptr[j] = 0 /\ e[b].ptr[j] = 0
  BY <1>1, Ends DEF Owns, Shaped
<1>3. ASSUME NEW y \in Addr, NEW j \in 1 .. Slots
      PROVE  /\ Counts(e, given, y, j) <=> Counts(d, given, y, j)
             /\ e[y].ptr[j] = d[y].ptr[j]
             /\ Counts(d, given, y, j) => e[y] = d[y]
  BY <1>1, <1>2 DEF Counts
<1>4. Shaped(e)
  BY <1>1, Ends DEF Owns, Shaped, Gapless
<1>5. Chain(e, list)
  <2>1. \A i \in 1 .. Len(list) : list[i] \in Addr /\ list[i] # b
    BY ListFacts DEF Owns
  <2> QED BY <1>1, <2>1, Ends DEF Owns, Chain
<1>6. Apart(e, given, {b})
  <2> SUFFICES ASSUME NEW x \in Addr, NEW i \in 1 .. Slots, Counts(e, given, x, i)
               PROVE  /\ e[x].ptr[i] # b
                      /\ e[e[x].ptr[i]].type = IF e[x].kind = "file" THEN "FILEEX" ELSE "INODE"
                      /\ \A y \in Addr, j \in 1 .. Slots :
                           Counts(e, given, y, j) /\ e[y].ptr[j] = e[x].ptr[i]
                             => y = x /\ j = i
    BY DEF Apart
  <2>0. Counts(d, given, x, i) /\ e[x] = d[x]
    BY <1>3
  <2>1. Counts(d, given, x, i) /\ e[x] = d[x] /\ d[x].ptr[i] # b
        /\ d[x].ptr[i] \in Addr
    BY <2>0, OneOwnerOf, DiskFields
  <2>2. ASSUME NEW y \in Addr, NEW j \in 1 .. Slots, Counts(e, given, y, j),
               e[y].ptr[j] = e[x].ptr[i]
        PROVE  y = x /\ j = i
    <3>1. Counts(d, given, y, j) /\ d[y].ptr[j] = d[x].ptr[i]
      BY <1>3, <2>1, <2>2
    <3> QED BY <2>1, <3>1, OneOwnerOf
  <2>3. e[e[x].ptr[i]].type = IF e[x].kind = "file" THEN "FILEEX" ELSE "INODE"
    BY <1>1, <2>1, OneOwnerOf
  <2> QED BY <2>1, <2>2, <2>3
<1>7. Held(e, given, {b})
  <2> SUFFICES ASSUME NEW c \in Addr \ {0}, d[c].type \in {"INODE", "FILEEX"}, c # b
               PROVE  \E x \in Addr, i \in 1 .. Slots :
                        Counts(e, given, x, i) /\ e[x].ptr[i] = c
    BY <1>1, Ends DEF Held
  <2>1. PICK x \in Addr, i \in 1 .. Slots : Counts(d, given, x, i) /\ d[x].ptr[i] = c
    BY Ends DEF Owns, Held
  <2> QED BY <1>3, <2>1
<1>8. LosesNone => AllListed(e, {b}, list)
  BY <1>1, Ends DEF Owns, AllListed
<1> QED BY <1>4, <1>5, <1>6, <1>7, <1>8 DEF Owns

(* A pointer to the block in hand is written, and nothing else counts or   *)
(* stops counting.                                                         *)
LEMMA Attach ==
  ASSUME NEW d \in Disks, NEW given, NEW other, NEW list \in Lists,
         NEW b \in Addr, b # 0, Owns(d, given, {b}, list),
         NEW p \in Addr, NEW k \in 1 .. Slots,
         d[b].type = IF d[p].kind = "file" THEN "FILEEX" ELSE "INODE",
         NEW e, Shaped(e), ~ Counts(d, given, p, k),
         e[p].ptr[k] = b, Counts(e, other, p, k),
         \A y \in Addr, j \in 1 .. Slots : ~ (y = p /\ j = k) =>
           /\ Counts(e, other, y, j) <=> Counts(d, given, y, j)
           /\ Counts(d, given, y, j) => e[y].ptr[j] = d[y].ptr[j],
         \A c \in Addr : /\ e[c].type = d[c].type /\ e[c].kind = d[c].kind
                         /\ d[c].type \in {"FREE", "SUPERBLOCK"} => e[c].next = d[c].next
  PROVE  Owns(e, other, {}, list)
<1>1. ASSUME NEW y \in Addr, NEW j \in 1 .. Slots, Counts(d, given, y, j)
      PROVE  Counts(e, other, y, j) /\ e[y].ptr[j] = d[y].ptr[j] /\ d[y].ptr[j] # b
             /\ d[y].ptr[j] \in Addr /\ ~ (y = p /\ j = k)
  BY <1>1, OneOwnerOf, DiskFields
<1>2. ASSUME NEW y \in Addr, NEW j \in 1 .. Slots, Counts(e, other, y, j),
             ~ (y = p /\ j = k)
      PROVE  Counts(d, given, y, j) /\ e[y].ptr[j] = d[y].ptr[j] /\ e[y].ptr[j] # b
  BY <1>1, <1>2
<1>3. Chain(e, list)
  <2>1. \A i \in 1 .. Len(list) : list[i] \in Addr /\ d[list[i]].type = "FREE"
    BY ListFacts DEF Owns
  <2>2. d[0].type = "SUPERBLOCK"
    BY Ends DEF Owns, Shaped
  <2> QED BY <2>1, <2>2, Ends DEF Owns, Chain
<1>4. Apart(e, other, {})
  <2> SUFFICES ASSUME NEW x \in Addr, NEW i \in 1 .. Slots, Counts(e, other, x, i)
               PROVE  /\ e[e[x].ptr[i]].type = IF e[x].kind = "file" THEN "FILEEX" ELSE "INODE"
                      /\ \A y \in Addr, j \in 1 .. Slots :
                           Counts(e, other, y, j) /\ e[y].ptr[j] = e[x].ptr[i]
                             => y = x /\ j = i
    BY DEF Apart
  <2>1. CASE x = p /\ i = k
    <3>1. e[e[x].ptr[i]].type = IF e[x].kind = "file" THEN "FILEEX" ELSE "INODE"
      BY <2>1
    <3> QED BY <1>2, <2>1, <3>1
  <2>2. CASE ~ (x = p /\ i = k)
    <3>1. Counts(d, given, x, i) /\ e[x].ptr[i] = d[x].ptr[i] /\ d[x].ptr[i] # b
          /\ d[x].ptr[i] \in Addr
      BY <1>1, <1>2, <2>2
    <3>2. e[e[x].ptr[i]].type = IF e[x].kind = "file" THEN "FILEEX" ELSE "INODE"
      BY <3>1, OneOwnerOf
    <3>3. ASSUME NEW y \in Addr, NEW j \in 1 .. Slots, Counts(e, other, y, j),
                 e[y].ptr[j] = e[x].ptr[i]
          PROVE  y = x /\ j = i
      <4>1. ~ (y = p /\ j = k)
        BY <3>1, <3>3
      <4>2. Counts(d, given, y, j) /\ d[y].ptr[j] = d[x].ptr[i]
        BY <1>2, <3>1, <3>3, <4>1
      <4> QED BY <3>1, <4>2, OneOwnerOf
    <3> QED BY <3>2, <3>3
  <2> QED BY <2>1, <2>2
<1>5. Held(e, other, {})
  <2> SUFFICES ASSUME NEW c \in Addr \ {0}, d[c].type \in {"INODE", "FILEEX"}
               PROVE  \E x \in Addr, i \in 1 .. Slots :
                        Counts(e, other, x, i) /\ e[x].ptr[i] = c
    BY Ends DEF Held
  <2>1. CASE c = b
    BY <2>1
  <2>2. CASE c # b
    <3>1. PICK x \in Addr, i \in 1 .. Slots : Counts(d, given, x, i) /\ d[x].ptr[i] = c
      BY <2>2, Ends DEF Owns, Held
    <3> QED BY <1>1, <3>1
  <2> QED BY <2>1, <2>2
<1>6. LosesNone => AllListed(e, {}, list)
  BY Ends DEF Owns, AllListed
<1> QED BY <1>3, <1>4, <1>5, <1>6 DEF Owns

(* The pointers that counted no more become zero. *)
Cleared(d, given, e, other) ==
  /\ \A y \in Addr, j \in 1 .. Slots :
       /\ Counts(e, other, y, j) <=> Counts(d, given, y, j)
       /\ Counts(d, given, y, j) => e[y].ptr[j] = d[y].ptr[j]
  /\ \A c \in Addr :
       /\ e[c].type = d[c].type /\ e[c].kind = d[c].kind
       /\ d[c].type \in {"FREE", "SUPERBLOCK"} => e[c].next = d[c].next

LEMMA Detach ==
  ASSUME NEW d \in Disks, NEW given, NEW other, NEW hand, NEW list \in Lists,
         Owns(d, given, hand, list), NEW e, Shaped(e), Cleared(d, given, e, other)
  PROVE  Owns(e, other, hand, list)
<1> USE DEF Cleared
<1>1. Chain(e, list)
  <2>1. \A i \in 1 .. Len(list) : list[i] \in Addr /\ d[list[i]].type = "FREE"
    BY ListFacts DEF Owns
  <2>2. d[0].type = "SUPERBLOCK"
    BY Ends DEF Owns, Shaped
  <2> QED BY <2>1, <2>2, Ends DEF Owns, Chain
<1>2. Apart(e, other, hand)
  <2> SUFFICES ASSUME NEW x \in Addr, NEW i \in 1 .. Slots, Counts(e, other, x, i)
               PROVE  /\ e[x].ptr[i] \notin hand
                      /\ e[e[x].ptr[i]].type = IF e[x].kind = "file" THEN "FILEEX" ELSE "INODE"
                      /\ \A y \in Addr, j \in 1 .. Slots :
                           Counts(e, other, y, j) /\ e[y].ptr[j] = e[x].ptr[i]
                             => y = x /\ j = i
    BY DEF Apart
  <2>1. Counts(d, given, x, i) /\ e[x].ptr[i] = d[x].ptr[i] /\ d[x].ptr[i] \in Addr
    BY DiskFields
  <2>2. e[e[x].ptr[i]].type = IF e[x].kind = "file" THEN "FILEEX" ELSE "INODE"
    BY <2>1, OneOwnerOf
  <2>3. ASSUME NEW y \in Addr, NEW j \in 1 .. Slots, Counts(e, other, y, j),
               e[y].ptr[j] = e[x].ptr[i]
        PROVE  y = x /\ j = i
    <3>1. Counts(d, given, y, j) /\ d[y].ptr[j] = d[x].ptr[i]
      BY <2>1, <2>3
    <3> QED BY <2>1, <3>1, OneOwnerOf
  <2> QED BY <2>1, <2>2, <2>3, OneOwnerOf
<1>3. Held(e, other, hand)
  <2> SUFFICES ASSUME NEW c \in Addr \ {0}, d[c].type \in {"INODE", "FILEEX"}, c \notin hand
               PROVE  \E x \in Addr, i \in 1 .. Slots :
                        Counts(e, other, x, i) /\ e[x].ptr[i] = c
    BY Ends DEF Held
  <2>1. PICK x \in Addr, i \in 1 .. Slots : Counts(d, given, x, i) /\ d[x].ptr[i] = c
    BY Ends DEF Owns, Held
  <2> QED BY <2>1
<1>4. LosesNone => AllListed(e, hand, list)
  BY Ends DEF Owns, AllListed
<1> QED BY <1>1, <1>2, <1>3, <1>4 DEF Owns

---------------------------------------------------------------------------
(* The disk tfs_mkfs leaves, and the superblock that the loop of           *)
(* tfs_removeAll over the root writes back.                                *)
LEMMA FormattedOwns ==
  \E list \in Lists : Owns(Formatted, {}, {}, list) /\ DirNames(Formatted)
<1> DEFINE d == Formatted
           list == [i \in 1 .. NumBlocks - 1 |-> i]
<1>1. list \in Lists /\ Len(list) = NumBlocks - 1
  BY DEF Lists, Addr, SUPERBLOCK_DISKLOC
<1>2. /\ d[0].type = "SUPERBLOCK" /\ d[0].kind = "none"
      /\ d[0].next = IF NumBlocks > 1 THEN 1 ELSE 0
      /\ \A b \in Addr : b # 0 => d[b].type = "FREE" /\ d[b].kind = "none"
      /\ \A b \in Addr : b # 0 => d[b].next = IF b + 1 # NumBlocks THEN b + 1 ELSE 0
      /\ \A b \in Addr, i \in 1 .. Slots : d[b].ptr[i] = 0
  <2>1. /\ FormatSuper.type = "SUPERBLOCK" /\ FormatSuper.kind = "none"
        /\ FormatSuper.next = IF NumBlocks > 1 THEN 1 ELSE 0
        /\ \A i \in 1 .. Slots : FormatSuper.ptr[i] = 0
    BY DEF FormatSuper, SuperBlk, Blank, FirstFree
  <2>2. \A b : /\ FormatBlk(b).type = "FREE" /\ FormatBlk(b).kind = "none"
               /\ FormatBlk(b).next = IF b + 1 # NumBlocks THEN b + 1 ELSE 0
               /\ \A i \in 1 .. Slots : FormatBlk(b).ptr[i] = 0
    BY DEF FormatBlk, FreeBlk, Blank, NextFree
  <2>3. d[0] = FormatSuper /\ \A b \in Addr : b # 0 => d[b] = FormatBlk(b)
    BY Ends DEF Formatted
  <2> HIDE DEF d
  <2> QED BY <2>1, <2>2, <2>3
<1>3. \A i \in 1 .. Len(list) : i \in Addr /\ i # 0 /\ list[i] = i
  BY <1>1 DEF Addr
<1>4. \A b \in Addr \ {0} : b \in 1 .. Len(list)
  BY <1>1 DEF Addr
<1>5. Len(list) \in Nat /\ list = <<>> <=> NumBlocks = 1
  BY <1>1
<1> HIDE DEF d, list
<1>6. Shaped(d)
  BY <1>2, Ends DEF Shaped
<1>7. Chain(d, list)
  <2>1. d[0].next = IF list = <<>> THEN 0 ELSE list[1]
    BY <1>1, <1>2, <1>3, <1>5
  <2>2. ASSUME NEW i \in 1 .. Len(list)
        PROVE  d[list[i]].type = "FREE"
               /\ d[list[i]].next = IF i < Len(list) THEN list[i + 1] ELSE 0
    <3>1. i \in Addr /\ i # 0 /\ list[i] = i
      BY <1>3
    <3>2. i + 1 # NumBlocks <=> i < Len(list)
      BY <1>1
    <3>3. i < Len(list) => list[i + 1] = i + 1
      BY <1>1, <1>3
    <3> QED BY <1>2, <3>1, <3>2, <3>3
  <2>3. \A i, j \in 1 .. Len(list) : list[i] = list[j] => i = j
    BY <1>3
  <2> QED BY <2>1, <2>2, <2>3, Ends DEF Chain
<1>8. Apart(d, {}, {}) /\ Held(d, {}, {}) /\ DirNames(d)
  BY <1>2, Ends DEF Apart, Held, Counts, DirNames
<1>9. AllListed(d, {}, list)
  BY <1>3, <1>4, Ends DEF AllListed
<1> QED BY <1>1, <1>6, <1>7, <1>8, <1>9 DEF Owns, d

LEMMA Restart ==
  ASSUME NEW d \in Disks, NEW list \in Lists, Owns(d, {}, {}, list), ~ LosesNone,
         NEW m \in Addr, m = 0 \/ \E i \in 1 .. Len(list) : list[i] = m,
         NEW e, e = WithHead(d, m)
  PROVE  \E rest \in Lists : Owns(e, {}, {}, rest)
<1>1. /\ e[0].next = m
      /\ \A c \in Addr : c # 0 => e[c] = d[c]
      /\ \A c \in Addr : e[c].type = d[c].type /\ e[c].kind = d[c].kind
                         /\ e[c].ptr = d[c].ptr
  BY Ends, DiskFields DEF Disks, Sized, Block, WithHead
<1>2. Shaped(e) /\ Apart(e, {}, {}) /\ Held(e, {}, {})
  <2>1. SameOwners(d, e)
    BY <1>1 DEF SameOwners
  <2> QED BY <2>1, OwnersStay DEF Owns
<1>3. SUFFICES \E rest \in Lists : Chain(e, rest)
  BY <1>2 DEF Owns
<1>4. CASE m = 0
  <2>1. <<>> \in Lists /\ Len(<<>>) = 0
    BY DEF Lists
  <2>2. Chain(e, <<>>)
    BY <1>1, <1>4, <2>1, Ends DEF Chain
  <2> QED BY <2>1, <2>2
<1>5. ASSUME NEW i \in 1 .. Len(list), list[i] = m PROVE \E rest \in Lists : Chain(e, rest)
  <2> DEFINE n == Len(list) - i + 1
             rest == [j \in 1 .. n |-> list[i + j - 1]]
  <2>a. Len(list) \in Nat /\ i \in Nat /\ 1 <= i /\ i <= Len(list)
    BY ListFacts DEF Owns
  <2>0. n \in Nat /\ n >= 1 /\ n = Len(list) - i + 1
    BY <2>a
  <2> HIDE DEF n
  <2>1. \A j \in 1 .. n : i + j - 1 \in 1 .. Len(list)
    BY <2>0, <2>a
  <2>2. \A j \in 1 .. Len(list) : list[j] \in Addr \ {0} /\ d[list[j]].type = "FREE"
    BY ListFacts DEF Owns
  <2>3. rest \in Lists /\ Len(rest) = n
    <3>1. \A j \in 1 .. n : list[i + j - 1] \in Addr \ {SUPERBLOCK_DISKLOC}
      BY <2>1, <2>2, Ends
    <3>2. rest \in [1 .. n -> Addr \ {SUPERBLOCK_DISKLOC}]
      BY <3>1
    <3> HIDE DEF rest
    <3> QED BY <2>0, <3>2, AsSequence DEF Lists
  <2>4. \A j \in 1 .. n : rest[j] = list[i + j - 1]
    BY <2>1
  <2>5. rest # <<>> /\ rest[1] = m
    BY <2>0, <2>3, <2>4, <1>5
  <2> HIDE DEF rest
  <2>6. \A j, k \in 1 .. n : rest[j] = rest[k] => j = k
    <3> SUFFICES ASSUME NEW j \in 1 .. n, NEW k \in 1 .. n, rest[j] = rest[k]
                 PROVE  j = k
      OBVIOUS
    <3>0. /\ list[i + j - 1] = list[i + k - 1]
          /\ i + j - 1 \in 1 .. Len(list) /\ i + k - 1 \in 1 .. Len(list)
      BY <2>1, <2>4
    <3>1. i + j - 1 = i + k - 1
      BY <3>0 DEF Owns, Chain
    <3> QED BY <2>0, <2>a, <3>1
  <2>7. ASSUME NEW j \in 1 .. n
        PROVE  e[rest[j]].type = "FREE"
               /\ e[rest[j]].next = IF j < n THEN rest[j + 1] ELSE 0
    <3> DEFINE k == i + j - 1
    <3>1. k \in 1 .. Len(list) /\ rest[j] = list[k]
      BY <2>1, <2>4
    <3>2. e[list[k]] = d[list[k]] /\ d[list[k]].type = "FREE"
          /\ d[list[k]].next = IF k < Len(list) THEN list[k + 1] ELSE 0
      BY <1>1, <2>2, <3>1 DEF Owns, Chain
    <3>3. (j < n <=> k < Len(list)) /\ k + 1 = i + (j + 1) - 1
      BY <2>0, <2>a
    <3>4. j < n => rest[j + 1] = list[k + 1]
      <4>1. j < n => j + 1 \in 1 .. n
        BY <2>0
      <4> QED BY <2>4, <3>3, <4>1
    <3> QED BY <3>1, <3>2, <3>3, <3>4
  <2>8. Chain(e, rest)
    BY <1>1, <2>3, <2>5, <2>6, <2>7, Ends DEF Chain
  <2> QED BY <2>3, <2>8
<1> QED BY <1>4, <1>5

(* A write that adds no directory to another keeps the names apart. *)
LEMMA NamesStay ==
  ASSUME NEW d, NEW e, DirNames(d),
         \A x \in Addr, i \in 1 .. Slots :
           IsDirOn(e, x) /\ e[x].ptr[i] # 0 /\ e[e[x].ptr[i]].kind = "dir" =>
             /\ IsDirOn(d, x) /\ d[x].ptr[i] = e[x].ptr[i]
             /\ d[e[x].ptr[i]].kind = "dir"
             /\ d[e[x].ptr[i]].name = e[e[x].ptr[i]].name
  PROVE  DirNames(e)
<1> SUFFICES ASSUME NEW x \in Addr, NEW i \in 1 .. Slots, NEW j \in 1 .. Slots,
                    IsDirOn(e, x),
                    e[x].ptr[i] # 0, e[e[x].ptr[i]].kind = "dir",
                    e[x].ptr[j] # 0, e[e[x].ptr[j]].kind = "dir",
                    e[e[x].ptr[i]].name = e[e[x].ptr[j]].name
             PROVE  i = j
  BY DEF DirNames
<1>1. /\ IsDirOn(d, x) /\ d[x].ptr[i] = e[x].ptr[i]
      /\ d[e[x].ptr[i]].kind = "dir"
      /\ d[e[x].ptr[i]].name = e[e[x].ptr[i]].name
  OBVIOUS
<1>2. /\ d[x].ptr[j] = e[x].ptr[j]
      /\ d[e[x].ptr[j]].kind = "dir"
      /\ d[e[x].ptr[j]].name = e[e[x].ptr[j]].name
  OBVIOUS
<1>3. d[d[x].ptr[i]].name = d[d[x].ptr[j]].name
  BY <1>1, <1>2
<1>4. d[x].ptr[i] # 0 /\ d[d[x].ptr[i]].kind = "dir" /\ d[x].ptr[j] # 0 /\ d[d[x].ptr[j]].kind = "dir"
  BY <1>1, <1>2
<1> QED BY <1>1, <1>3, <1>4, Zenon DEF DirNames

---------------------------------------------------------------------------
(* Where paths lead. *)

LEMMA OneFirst ==
  ASSUME NEW S \in SUBSET Int, NEW i, NEW j, First(S, i), First(S, j)
  PROVE  i = j
  BY DEF First

LEMMA OneHop ==
  ASSUME NEW d, NEW x, NEW name, NEW m, NEW n, Hop(d, x, name, m), Hop(d, x, name, n)
  PROVE  m = n
<1>1. PICK i \in 1 .. Slots : First(Named(d, x, name), i) /\ m = d[x].ptr[i]
  BY DEF Hop
<1>2. PICK j \in 1 .. Slots : First(Named(d, x, name), j) /\ n = d[x].ptr[j]
  BY DEF Hop
<1>3. Named(d, x, name) \in SUBSET Int
  BY DEF Named
<1>4. i = j
  BY <1>1, <1>2, <1>3, OneFirst
<1> QED BY <1>1, <1>2, <1>4

LEMMA HopTo ==
  ASSUME NEW d, NEW x, NEW name, NEW n, Hop(d, x, name, n)
  PROVE  n # 0 /\ d[n].kind = "dir" /\ \E i \in 1 .. Slots : d[x].ptr[i] = n
  BY DEF Hop, Named, First

LEMMA LeadsStart ==
  ASSUME NEW d, NEW path PROVE Leads(d, path, 0, 0)
<1> DEFINE t == [i \in 0 .. 0 |-> 0]
<1>1. t \in [0 .. 0 -> Addr] /\ t[0] = 0
  BY Ends
<1>2. Trail(d, path, 0, t)
  BY <1>1, Ends DEF Trail
<1> QED BY <1>1, <1>2 DEF Leads

LEMMA LeadsPrefix ==
  ASSUME NEW d, NEW path, NEW k \in Nat, NEW t, Trail(d, path, k, t), NEW i \in 0 .. k
  PROVE  t[i] \in Addr /\ Leads(d, path, i, t[i])
<1> DEFINE s == [j \in 0 .. i |-> t[j]]
<1>1. \A j \in 0 .. i : j \in 0 .. k
  OBVIOUS
<1>2. t[i] \in Addr /\ s \in [0 .. i -> Addr] /\ \A j \in 0 .. i : s[j] = t[j]
  BY <1>1 DEF Trail
<1>3. \A j \in 1 .. i : j - 1 \in 0 .. i /\ j \in 0 .. i /\ j \in 1 .. k
  OBVIOUS
<1>4. 0 \in 0 .. i /\ i \in 0 .. i
  OBVIOUS
<1> HIDE DEF s
<1>5. Trail(d, path, i, s)
  BY <1>2, <1>3, <1>4 DEF Trail
<1> QED BY <1>2, <1>4, <1>5 DEF Leads

LEMMA LeadsOn ==
  ASSUME NEW d, NEW path, NEW k \in Nat, NEW x, Leads(d, path, k, x),
         NEW n \in Addr, Hop(d, x, path[k + 1], n)
  PROVE  Leads(d, path, k + 1, n)
<1>1. PICK t \in [0 .. k -> Addr] : Trail(d, path, k, t) /\ t[k] = x
  BY DEF Leads
<1> DEFINE s == [l \in 0 .. k + 1 |-> IF l = k + 1 THEN n ELSE t[l]]
<1>2. \A j \in 0 .. k + 1 : j = k + 1 \/ j \in 0 .. k
  OBVIOUS
<1>3. s \in [0 .. k + 1 -> Addr] /\ s[k + 1] = n /\ \A j \in 0 .. k : s[j] = t[j]
  BY <1>2
<1>4. /\ 0 \in 0 .. k /\ k \in 0 .. k
      /\ \A j \in 1 .. k + 1 : j - 1 \in 0 .. k /\ (j = k + 1 \/ j \in 1 .. k)
      /\ \A j \in 1 .. k : j \in 0 .. k
  OBVIOUS
<1> HIDE DEF s
<1>5. \A j \in 1 .. k + 1 : Hop(d, s[j - 1], path[j], s[j])
  <2> SUFFICES ASSUME NEW j \in 1 .. k + 1 PROVE Hop(d, s[j - 1], path[j], s[j])
    OBVIOUS
  <2>1. CASE j = k + 1
    <3>1. j - 1 = k
      BY <2>1
    <3> QED BY <1>1, <1>3, <1>4, <2>1, <3>1
  <2>2. CASE j \in 1 .. k
    BY <1>1, <1>3, <1>4, <2>2 DEF Trail
  <2> QED BY <1>4, <2>1, <2>2
<1>6. Trail(d, path, k + 1, s)
  BY <1>1, <1>3, <1>4, <1>5 DEF Trail
<1> QED BY <1>3, <1>6 DEF Leads

LEMMA LeadsBack ==
  ASSUME NEW d, NEW path, NEW k \in Nat, NEW n, Leads(d, path, k, n)
  PROVE  /\ n \in Addr
         /\ k = 0 => n = 0
         /\ k # 0 => \E x \in Addr : Leads(d, path, k - 1, x) /\ Hop(d, x, path[k], n)
<1>1. PICK t \in [0 .. k -> Addr] : Trail(d, path, k, t) /\ t[k] = n
  BY DEF Leads
<1>2. k \in 0 .. k /\ (k # 0 => k - 1 \in 0 .. k /\ k \in 1 .. k)
  OBVIOUS
<1>3. k = 0 => n = 0
  BY <1>1, Ends DEF Trail
<1>4. ASSUME k # 0
      PROVE  \E x \in Addr : Leads(d, path, k - 1, x) /\ Hop(d, x, path[k], n)
  <2>1. t[k - 1] \in Addr /\ Leads(d, path, k - 1, t[k - 1])
    BY <1>1, <1>2, <1>4, LeadsPrefix
  <2>2. Hop(d, t[k - 1], path[k], n)
    BY <1>1, <1>2, <1>4 DEF Trail
  <2> QED BY <2>1, <2>2
<1> QED BY <1>1, <1>2, <1>3, <1>4

LEMMA LeadsToDir ==
  ASSUME NEW d, NEW path, NEW k \in Nat, NEW n, Leads(d, path, k, n)
  PROVE  n \in Addr /\ IsDirOn(d, n) /\ (k # 0 => n # 0 /\ d[n].kind = "dir")
  BY LeadsBack, HopTo, Ends DEF IsDirOn

LEMMA LeadsOne ==
  ASSUME NEW d, NEW path, NEW other, NEW k \in Nat,
         \A i \in 1 .. k : path[i] = other[i],
         NEW m, NEW n, Leads(d, path, k, m), Leads(d, other, k, n)
  PROVE  m = n
<1> DEFINE S == {l \in 0 .. k : \E x, y : /\ Leads(d, path, l, x)
                                          /\ Leads(d, other, l, y) /\ x # y}
<1>1. ASSUME S # {} PROVE FALSE
  <2>1. S \in SUBSET Nat
    OBVIOUS
  <2>2. PICK l \in S : \A o \in S : l <= o
    BY <1>1, <2>1, LeastNumber
  <2>3. PICK x, y : Leads(d, path, l, x) /\ Leads(d, other, l, y) /\ x # y
    OBVIOUS
  <2>4. l \in Nat /\ l <= k
    OBVIOUS
  <2> HIDE DEF S
  <2>5. l # 0
    BY <2>3, <2>4, LeadsBack
  <2>6. PICK v \in Addr : Leads(d, path, l - 1, v) /\ Hop(d, v, path[l], x)
    BY <2>3, <2>4, <2>5, LeadsBack
  <2>7. PICK w \in Addr : Leads(d, other, l - 1, w) /\ Hop(d, w, other[l], y)
    BY <2>3, <2>4, <2>5, LeadsBack
  <2>8. l - 1 \in 0 .. k /\ l \in 1 .. k
    BY <2>4, <2>5
  <2>9. v # w
    BY <2>3, <2>6, <2>7, <2>8, OneHop
  <2>10. l - 1 \in S
    BY <2>6, <2>7, <2>8, <2>9 DEF S
  <2> QED BY <2>2, <2>4, <2>10
<1>2. k \in 0 .. k
  OBVIOUS
<1> QED BY <1>1, <1>2

(* Directories that form a tree: each has one place.                       *)
OneParent(d) ==
  \A x, y \in Addr, i, j \in 1 .. Slots :
    /\ IsDirOn(d, x) /\ IsDirOn(d, y)
    /\ d[x].ptr[i] # 0 /\ d[x].ptr[i] = d[y].ptr[j]
    /\ d[d[x].ptr[i]].kind = "dir"
    => x = y /\ i = j

LEMMA Depth ==
  ASSUME NEW d, OneParent(d), NEW x, NEW path, NEW other, NEW k \in Nat, NEW l \in Nat,
         Leads(d, path, k, x), Leads(d, other, l, x)
  PROVE  k = l
<1> DEFINE S == {m \in Nat : \E o \in Nat : \E y, p, q :
                    Leads(d, p, m, y) /\ Leads(d, q, o, y) /\ m # o}
<1>1. ASSUME S # {} PROVE FALSE
  <2>1. S \in SUBSET Nat
    OBVIOUS
  <2>2. PICK m \in S : \A o \in S : m <= o
    BY <1>1, <2>1, LeastNumber
  <2>3. PICK o \in Nat : \E y, p, q : Leads(d, p, m, y) /\ Leads(d, q, o, y) /\ m # o
    OBVIOUS
  <2>4. PICK y, p, q : Leads(d, p, m, y) /\ Leads(d, q, o, y) /\ m # o
    BY <2>3
  <2>5. m \in Nat
    OBVIOUS
  <2> HIDE DEF S
  <2>6. m # 0 /\ o # 0
    <3>1. m # 0 => y # 0
      BY <2>4, <2>5, LeadsToDir
    <3>2. o # 0 => y # 0
      BY <2>4, LeadsToDir
    <3>3. (m = 0 => y = 0) /\ (o = 0 => y = 0)
      BY <2>4, <2>5, LeadsBack
    <3> QED BY <2>4, <3>1, <3>2, <3>3
  <2>7. PICK v \in Addr : Leads(d, p, m - 1, v) /\ Hop(d, v, p[m], y)
    BY <2>4, <2>5, <2>6, LeadsBack
  <2>8. PICK w \in Addr : Leads(d, q, o - 1, w) /\ Hop(d, w, q[o], y)
    BY <2>4, <2>6, LeadsBack
  <2>9. m - 1 \in Nat /\ o - 1 \in Nat /\ m - 1 # o - 1
    BY <2>4, <2>5, <2>6
  <2>10. IsDirOn(d, v) /\ IsDirOn(d, w)
    BY <2>7, <2>8, <2>9, LeadsToDir
  <2>11. v = w
    <3>1. PICK i \in 1 .. Slots : d[v].ptr[i] = y
      BY <2>7, HopTo
    <3>2. PICK j \in 1 .. Slots : d[w].ptr[j] = y
      BY <2>8, HopTo
    <3>3. y # 0 /\ d[y].kind = "dir"
      BY <2>7, HopTo
    <3> QED BY <2>10, <3>1, <3>2, <3>3 DEF OneParent
  <2>12. m - 1 \in S
    BY <2>7, <2>8, <2>9, <2>11 DEF S
  <2> QED BY <2>2, <2>5, <2>12
<1> QED BY <1>1

(* A write that leaves the pointers of x, and the names of what they lead  *)
(* to, leaves where its names lead.                                        *)
LEMMA HopStays ==
  ASSUME NEW d, NEW e, NEW x, NEW name, NEW n, Hop(d, x, name, n),
         \A i \in 1 .. Slots : e[x].ptr[i] = d[x].ptr[i],
         \A i \in 1 .. Slots : d[x].ptr[i] # 0 =>
           /\ e[d[x].ptr[i]].name = d[d[x].ptr[i]].name
           /\ d[d[x].ptr[i]].kind = "dir" => e[d[x].ptr[i]].kind = "dir"
  PROVE  Hop(e, x, name, n)
<1>1. Named(e, x, name) = Named(d, x, name)
  BY DEF Named
<1>2. PICK i \in 1 .. Slots : First(Named(d, x, name), i) /\ n = d[x].ptr[i]
  BY DEF Hop
<1>3. d[x].ptr[i] # 0
  BY <1>2 DEF First, Named
<1>4. e[n].kind = "dir"
  BY <1>2, <1>3 DEF Hop
<1> QED BY <1>1, <1>2, <1>4 DEF Hop

LEMMA LeadsStays ==
  ASSUME NEW d, NEW e, NEW path, NEW k \in Nat, NEW n, Leads(d, path, k, n),
         \A x, name, m : \A i \in 0 .. k - 1 :
           Leads(d, path, i, x) /\ Hop(d, x, name, m) => Hop(e, x, name, m)
  PROVE  Leads(e, path, k, n)
<1>1. PICK t \in [0 .. k -> Addr] : Trail(d, path, k, t) /\ t[k] = n
  BY DEF Leads
<1>2. ASSUME NEW i \in 1 .. k PROVE Hop(e, t[i - 1], path[i], t[i])
  <2>1. i - 1 \in 0 .. k /\ i - 1 \in 0 .. k - 1
    OBVIOUS
  <2>2. Leads(d, path, i - 1, t[i - 1])
    BY <1>1, <2>1, LeadsPrefix
  <2>3. Hop(d, t[i - 1], path[i], t[i])
    BY <1>1 DEF Trail
  <2> QED BY <2>1, <2>2, <2>3
<1>3. Trail(e, path, k, t)
  BY <1>1, <1>2 DEF Trail
<1> QED BY <1>1, <1>3 DEF Leads

(* The same when no name, kind or pointer changes. *)
SameTree(d, e) ==
  \A b \in Addr : e[b].kind = d[b].kind /\ e[b].name = d[b].name /\ e[b].ptr = d[b].ptr

LEMMA LeadsSame ==
  ASSUME NEW d \in Disks, NEW e, SameTree(d, e),
         NEW path, NEW k \in Nat, NEW n, Leads(d, path, k, n)
  PROVE  Leads(e, path, k, n)
<1>1. ASSUME NEW x \in Addr, NEW name, NEW m, Hop(d, x, name, m)
      PROVE  Hop(e, x, name, m)
  <2>1. \A i \in 1 .. Slots : d[x].ptr[i] \in Addr
    BY DiskFields
  <2> QED BY <1>1, <2>1, HopStays DEF SameTree
<1>2. ASSUME NEW x, NEW name, NEW m, NEW i \in 0 .. k - 1,
             Leads(d, path, i, x), Hop(d, x, name, m)
      PROVE  Hop(e, x, name, m)
  BY <1>1, <1>2, LeadsToDir
<1> QED BY <1>2, LeadsStays

---------------------------------------------------------------------------
(* Sequences of steps and of waiting calls. *)

LEMMA OnTop ==
  ASSUME NEW S, NEW s \in Seq(S), NEW a
  PROVE  /\ <<a>> \o s # <<>> /\ Head(<<a>> \o s) = a /\ Tail(<<a>> \o s) = s
         /\ Len(<<a>> \o s) = Len(s) + 1 /\ Len(s) \in Nat
         /\ (<<a>> \o s)[1] = a
         /\ \A j \in 1 .. Len(s) : (<<a>> \o s)[j + 1] = s[j]
         /\ <<>> \o s = s /\ s \o <<>> = s
<1> DEFINE T == S \cup {a}
<1>1. s \in Seq(T) /\ <<a>> \in Seq(T) /\ Len(<<a>>) = 1 /\ Len(s) \in Nat
  OBVIOUS
<1> QED BY <1>1

LEMMA TwoOnTop ==
  ASSUME NEW S, NEW s \in Seq(S), NEW a, NEW b
  PROVE  <<a, b>> \o s = <<a>> \o (<<b>> \o s)
<1> DEFINE T == S \cup {a, b}
<1>1. s \in Seq(T) /\ <<a>> \in Seq(T) /\ <<b>> \in Seq(T) /\ <<a, b>> \in Seq(T)
  OBVIOUS
<1> HIDE DEF T
<1>2. /\ <<a>> \o <<b>> \in Seq(T) /\ Len(<<a>> \o <<b>>) = 2
      /\ (<<a>> \o <<b>>)[1] = a /\ (<<a>> \o <<b>>)[2] = b
  BY <1>1
<1>3. \A i \in 1 .. 2 : (<<a>> \o <<b>>)[i] = <<a, b>>[i]
  BY <1>2
<1>4. <<a>> \o <<b>> = <<a, b>>
  <2> DEFINE u == <<a>> \o <<b>>
             v == <<a, b>>
  <2>1. u \in Seq(T) /\ v \in Seq(T) /\ Len(u) = 2 /\ Len(v) = 2
        /\ \A i \in 1 .. 2 : u[i] = v[i]
    <3>1. u \in Seq(T) /\ v \in Seq(T) /\ Len(u) = Len(v)
      BY <1>1, <1>2
    <3> QED BY <1>2, <1>3, <3>1, Zenon
  <2> HIDE DEF u, v
  <2>2. u = v
    BY <2>1, SeqEqual
  <2> QED BY <2>2 DEF u, v
<1>5. (<<a>> \o <<b>>) \o s = <<a>> \o (<<b>> \o s)
  <2> DEFINE u == <<a>>
             v == <<b>>
  <2>1. u \in Seq(T) /\ v \in Seq(T) /\ s \in Seq(T)
    BY <1>1
  <2> HIDE DEF u, v
  <2>2. (u \o v) \o s = u \o (v \o s)
    BY <2>1, ConcatAssociative
  <2> QED BY <2>2 DEF u, v
<1> QED BY <1>4, <1>5, Zenon

LEMMA ThreeOnTop ==
  ASSUME NEW S, NEW s \in Seq(S), NEW a, NEW b, NEW c
  PROVE  <<a, b, c>> \o s = <<a>> \o (<<b, c>> \o s)
<1> DEFINE T == S \cup {a, b, c}
<1>1. /\ s \in Seq(T) /\ <<a>> \in Seq(T) /\ <<b, c>> \in Seq(T)
      /\ <<a, b, c>> \in Seq(T)
  OBVIOUS
<1> HIDE DEF T
<1>2. /\ <<a>> \o <<b, c>> \in Seq(T) /\ Len(<<a>> \o <<b, c>>) = 3
      /\ (<<a>> \o <<b, c>>)[1] = a /\ (<<a>> \o <<b, c>>)[2] = b
      /\ (<<a>> \o <<b, c>>)[3] = c
  BY <1>1
<1>3. \A i \in 1 .. 3 : (<<a>> \o <<b, c>>)[i] = <<a, b, c>>[i]
  BY <1>2
<1>4. <<a>> \o <<b, c>> = <<a, b, c>>
  <2> DEFINE u == <<a>> \o <<b, c>>
             v == <<a, b, c>>
  <2>1. u \in Seq(T) /\ v \in Seq(T) /\ Len(u) = 3 /\ Len(v) = 3
        /\ \A i \in 1 .. 3 : u[i] = v[i]
    <3>1. u \in Seq(T) /\ v \in Seq(T) /\ Len(u) = Len(v)
      BY <1>1, <1>2
    <3> QED BY <1>2, <1>3, <3>1, Zenon
  <2> HIDE DEF u, v
  <2>2. u = v
    BY <2>1, SeqEqual
  <2> QED BY <2>2 DEF u, v
<1>5. (<<a>> \o <<b, c>>) \o s = <<a>> \o (<<b, c>> \o s)
  <2> DEFINE u == <<a>>
             v == <<b, c>>
  <2>1. u \in Seq(T) /\ v \in Seq(T) /\ s \in Seq(T)
    BY <1>1
  <2> HIDE DEF u, v
  <2>2. (u \o v) \o s = u \o (v \o s)
    BY <2>1, ConcatAssociative
  <2> QED BY <2>2 DEF u, v
<1> QED BY <1>4, <1>5, Zenon

LEMMA StackFacts ==
  ASSUME NEW stack \in Stacks, NEW j \in 1 .. Len(stack)
  PROVE  /\ stack[j] \in ScanSteps /\ stack[j].op = "rewrite"
         /\ stack[j].dir \in Addr /\ stack[j].copy \in Sized
         /\ stack[j].path \in AnyPath /\ Len(stack[j].path) \in Nat
  BY DEF Stacks, ScanSteps, AnyPath

LEMMA StackTop ==
  ASSUME NEW stack \in Stacks, stack # <<>>
  PROVE  /\ 1 \in 1 .. Len(stack) /\ Head(stack) = stack[1] /\ stack[1] \in ScanSteps
         /\ stack[1].op = "rewrite"
         /\ Tail(stack) \in Stacks /\ Len(Tail(stack)) = Len(stack) - 1
         /\ \A j \in 1 .. Len(stack) - 1 : Tail(stack)[j] = stack[j + 1]
         /\ stack = <<stack[1]>> \o Tail(stack)
  BY DEF Stacks

LEMMA NoneWaits ==
  ASSUME NEW d, NEW list PROVE <<>> \in Stacks /\ Waiting(d, <<>>, list)
  BY DEF Stacks, Waiting

LEMMA PopFrame ==
  ASSUME NEW d, NEW list, NEW stack \in Stacks, stack # <<>>, Waiting(d, stack, list)
  PROVE  /\ Waiting(d, Tail(stack), list)
         /\ Tail(stack) # <<>> =>
              Pending(d, Tail(stack)[1], stack[1].dir, stack[1].path)
<1> DEFINE rest == Tail(stack)
<1>1. /\ Len(rest) = Len(stack) - 1 /\ \A j \in 1 .. Len(stack) - 1 : rest[j] = stack[j + 1]
      /\ 1 \in 1 .. Len(stack) /\ rest \in Stacks /\ Len(stack) \in Nat
  BY StackTop DEF Stacks
<1>2. \A j \in 1 .. Len(rest) : j + 1 \in 1 .. Len(stack) /\ rest[j] = stack[j + 1]
  BY <1>1
<1>3. rest # <<>> => 1 \in 1 .. Len(rest) /\ 1 < Len(stack)
  BY <1>1 DEF Stacks
<1> HIDE DEF rest
<1>4. Waiting(d, rest, list)
  <2> SUFFICES ASSUME NEW j \in 1 .. Len(rest)
               PROVE  /\ WaitsFor(d, rest[j], list)
                      /\ \A l \in 1 .. Len(rest) : Len(rest[l].path) + l = Len(rest[j].path) + j
                      /\ j < Len(rest) => Pending(d, rest[j + 1], rest[j].dir, rest[j].path)
    BY DEF Waiting
  <2>1. WaitsFor(d, rest[j], list)
    BY <1>2 DEF Waiting
  <2>2. ASSUME NEW l \in 1 .. Len(rest)
        PROVE  Len(rest[l].path) + l = Len(rest[j].path) + j
    <3>1. Len(stack[l + 1].path) + (l + 1) = Len(stack[j + 1].path) + (j + 1)
      BY <1>2 DEF Waiting
    <3> DEFINE a == Len(stack[l + 1].path)
               b == Len(stack[j + 1].path)
    <3>2. a \in Nat /\ b \in Nat /\ a + (l + 1) = b + (j + 1)
      BY <1>2, <3>1, StackFacts
    <3>3. Len(rest[l].path) = a /\ Len(rest[j].path) = b
      BY <1>2
    <3> HIDE DEF a, b
    <3>4. a + l = b + j
      BY <3>2
    <3> QED BY <3>3, <3>4
  <2>3. ASSUME j < Len(rest) PROVE Pending(d, rest[j + 1], rest[j].dir, rest[j].path)
    <3>1. j + 1 \in 1 .. Len(rest) /\ j + 1 < Len(stack)
      BY <1>1, <2>3
    <3> QED BY <1>2, <3>1 DEF Waiting
  <2> QED BY <2>1, <2>2, <2>3
<1>5. rest # <<>> => Pending(d, rest[1], stack[1].dir, stack[1].path)
  BY <1>1, <1>2, <1>3 DEF Waiting
<1> QED BY <1>4, <1>5 DEF rest

LEMMA PushFrame ==
  ASSUME NEW d, NEW list, NEW stack \in Stacks, Waiting(d, stack, list),
         NEW r \in ScanSteps, r.op = "rewrite", WaitsFor(d, r, list),
         stack # <<>> => Pending(d, stack[1], r.dir, r.path)
  PROVE  <<r>> \o stack \in Stacks /\ Waiting(d, <<r>> \o stack, list)
<1> DEFINE long == <<r>> \o stack
<1>1. long \in Stacks
  BY DEF Stacks
<1>2. /\ Len(long) = Len(stack) + 1 /\ Len(stack) \in Nat /\ long[1] = r
      /\ \A j \in 1 .. Len(stack) : long[j + 1] = stack[j]
  BY OnTop DEF Stacks
<1> HIDE DEF long
<1>3. \A j \in 1 .. Len(long) : j = 1 \/ (j - 1 \in 1 .. Len(stack) /\ long[j] = stack[j - 1])
  <2> SUFFICES ASSUME NEW j \in 1 .. Len(long), j # 1
               PROVE  j - 1 \in 1 .. Len(stack) /\ long[j] = stack[j - 1]
    OBVIOUS
  <2>1. j - 1 \in 1 .. Len(stack) /\ (j - 1) + 1 = j
    BY <1>2
  <2> QED BY <1>2, <2>1
<1>4. \A j \in 1 .. Len(stack) : Len(r.path) = Len(stack[j].path) + j
  <2> SUFFICES ASSUME NEW j \in 1 .. Len(stack)
               PROVE  Len(r.path) = Len(stack[j].path) + j
    OBVIOUS
  <2>1. stack # <<>> /\ 1 \in 1 .. Len(stack)
    BY DEF Stacks
  <2>2. r.path = Append(stack[1].path, d[r.dir].name)
    BY <2>1 DEF Pending
  <2>3. stack[1].path \in AnyPath /\ Len(stack[1].path) \in Nat
    BY <2>1, StackFacts
  <2>4. Len(r.path) = Len(stack[1].path) + 1
    BY <2>2, <2>3 DEF AnyPath
  <2>5. Len(stack[1].path) + 1 = Len(stack[j].path) + j
    BY <2>1 DEF Waiting
  <2> QED BY <2>4, <2>5
<1>5. \A j, l \in 1 .. Len(stack) : Len(stack[l].path) + l = Len(stack[j].path) + j
                                    /\ Len(stack[j].path) \in Nat
  BY StackFacts DEF Waiting
<1>6. Waiting(d, long, list)
  <2> SUFFICES ASSUME NEW j \in 1 .. Len(long)
               PROVE  /\ WaitsFor(d, long[j], list)
                      /\ \A l \in 1 .. Len(long) : Len(long[l].path) + l = Len(long[j].path) + j
                      /\ j < Len(long) => Pending(d, long[j + 1], long[j].dir, long[j].path)
    BY DEF Waiting
  <2>1. WaitsFor(d, long[j], list)
    BY <1>2, <1>3 DEF Waiting
  <2>2. \A l \in 1 .. Len(long) :
          \/ l = 1 /\ long[l] = r
          \/ /\ l - 1 \in 1 .. Len(stack) /\ long[l] = stack[l - 1]
             /\ Len(long[l].path) + (l - 1) = Len(r.path)
             /\ Len(long[l].path) \in Nat
    BY <1>2, <1>3, <1>4, <1>5
  <2>3. Len(r.path) \in Nat
    BY DEF ScanSteps, AnyPath
  <2>4. \A l \in 1 .. Len(long) : Len(long[l].path) + l = Len(r.path) + 1
    <3> SUFFICES ASSUME NEW l \in 1 .. Len(long)
                 PROVE  Len(long[l].path) + l = Len(r.path) + 1
      OBVIOUS
    <3> DEFINE n == Len(long[l].path)
    <3>1. (l = 1 /\ n = Len(r.path)) \/ (n + (l - 1) = Len(r.path) /\ n \in Nat)
      BY <2>2
    <3> HIDE DEF n
    <3>2. n + l = Len(r.path) + 1
      BY <2>3, <3>1
    <3> QED BY <3>2 DEF n
  <2>5. ASSUME j < Len(long) PROVE Pending(d, long[j + 1], long[j].dir, long[j].path)
    <3>1. j \in 1 .. Len(stack) /\ long[j + 1] = stack[j]
      BY <1>2, <2>5
    <3>2. CASE j = 1
      <4>1. stack # <<>>
        BY <3>1 DEF Stacks
      <4> QED BY <1>2, <3>1, <3>2, <4>1
    <3>3. CASE j # 1
      <4>1. j - 1 \in 1 .. Len(stack) /\ long[j] = stack[j - 1] /\ j - 1 < Len(stack)
            /\ (j - 1) + 1 = j
        BY <1>2, <1>3, <2>5, <3>3
      <4> QED BY <3>1, <4>1 DEF Waiting
    <3> QED BY <3>2, <3>3
  <2> QED BY <2>1, <2>4, <2>5
<1> QED BY <1>1, <1>6 DEF long

(* A write that a directory in use feels in the entry k of p at most.      *)
Spares(d, e, p, k) ==
  /\ \A x \in Addr, l \in 1 .. Slots : IsDirOn(d, x) /\ d[x].ptr[l] # 0 =>
       /\ Alike(d[x], e[x])
       /\ x # 0 => e[x].next = d[x].next
       /\ \A i \in 1 .. Slots : x # p \/ i # k => e[x].ptr[i] = d[x].ptr[i]
  /\ \A x \in Addr, i \in 1 .. Slots :
       IsDirOn(d, x) /\ x # p /\ d[x].ptr[i] # 0 =>
         /\ e[d[x].ptr[i]].name = d[d[x].ptr[i]].name
         /\ d[d[x].ptr[i]].kind = "dir" => e[d[x].ptr[i]].kind = "dir"

(* What waits goes on waiting while the entry k of the directory p of the  *)
(* innermost call is removed: no other directory that leads on changes.    *)
LEMMA FramesStay ==
  ASSUME NEW d \in Disks, NEW e \in Disks, OneParent(d),
         NEW stack \in Stacks, NEW list \in Lists, NEW more \in Lists,
         Waiting(d, stack, list), stack # <<>>,
         NEW p, p = stack[1].dir, NEW k, k = stack[1].at, d[p].ptr[k] # 0,
         \A i \in 1 .. Len(list) : \E j \in 1 .. Len(more) : more[j] = list[i],
         Spares(d, e, p, k)
  PROVE  Waiting(e, stack, more)
<1>1. 1 \in 1 .. Len(stack)
  BY StackTop
<1>2. ASSUME NEW j \in 1 .. Len(stack)
      PROVE  /\ stack[j].dir \in Addr /\ IsDirOn(d, stack[j].dir)
             /\ stack[j].at \in 1 .. Slots /\ d[stack[j].dir].ptr[stack[j].at] # 0
             /\ Len(stack[j].path) \in Nat /\ stack[j].copy \in Sized
             /\ Leads(d, stack[j].path, Len(stack[j].path), stack[j].dir)
             /\ WaitsFor(d, stack[j], list)
  <2>1. WaitsFor(d, stack[j], list)
    BY DEF Waiting
  <2>2. /\ stack[j].dir \in Addr /\ Len(stack[j].path) \in Nat /\ stack[j].copy \in Sized
        /\ stack[j].at \in 1 .. Slots
        /\ Leads(d, stack[j].path, Len(stack[j].path), stack[j].dir)
    BY <2>1, StackFacts DEF WaitsFor
  <2>3. IsDirOn(d, stack[j].dir)
    BY <2>2, LeadsToDir
  <2>4. d[stack[j].dir].ptr[stack[j].at] # 0
    <3>1. CASE j = 1
      BY <3>1
    <3>2. CASE j # 1
      <4>1. j - 1 \in 1 .. Len(stack) /\ j - 1 < Len(stack) /\ (j - 1) + 1 = j
        BY <3>2 DEF Stacks
      <4>2. Pending(d, stack[j], stack[j - 1].dir, stack[j - 1].path)
        BY <4>1 DEF Waiting
      <4> QED BY <4>2 DEF Pending
    <3> QED BY <3>1, <3>2
  <2> QED BY <2>1, <2>2, <2>3, <2>4
<1>3. ASSUME NEW j \in 1 .. Len(stack)
      PROVE  /\ Alike(d[stack[j].dir], e[stack[j].dir])
             /\ stack[j].dir # 0 => e[stack[j].dir].next = d[stack[j].dir].next
             /\ \A i \in 1 .. Slots : stack[j].dir # p \/ i # k =>
                  e[stack[j].dir].ptr[i] = d[stack[j].dir].ptr[i]
  BY <1>2 DEF Spares
<1>4. ASSUME NEW j \in 1 .. Len(stack), j # 1 PROVE stack[j].dir # p
  <2>1. Len(stack[j].path) + j = Len(stack[1].path) + 1
    BY <1>1 DEF Waiting
  <2>2. Len(stack[j].path) # Len(stack[1].path)
    BY <1>1, <1>2, <1>4, <2>1
  <2> QED BY <1>1, <1>2, <2>2, Depth
<1>5. ASSUME NEW j \in 1 .. Len(stack)
      PROVE  Leads(e, stack[j].path, Len(stack[j].path), stack[j].dir)
  <2> DEFINE n == Len(stack[j].path)
             q == stack[j].path
  <2>1. n \in Nat /\ Leads(d, q, n, stack[j].dir)
    BY <1>2
  <2>2. n <= Len(stack[1].path) /\ Len(stack[1].path) \in Nat
        /\ Leads(d, stack[1].path, Len(stack[1].path), p)
    <3>1. n + j = Len(stack[1].path) + 1
      BY <1>1 DEF Waiting
    <3> QED BY <1>1, <1>2, <2>1, <3>1
  <2> HIDE DEF n, q
  <2>3. ASSUME NEW x, NEW name, NEW m, NEW i \in 0 .. n - 1,
               Leads(d, q, i, x), Hop(d, x, name, m)
        PROVE  Hop(e, x, name, m)
    <3>1. x \in Addr /\ IsDirOn(d, x)
      BY <2>1, <2>3, LeadsToDir
    <3>2. x # p
      BY <2>1, <2>2, <2>3, Depth
    <3>3. PICK l \in 1 .. Slots : d[x].ptr[l] # 0
      BY <2>3, HopTo
    <3>4. \A o \in 1 .. Slots : e[x].ptr[o] = d[x].ptr[o]
      BY <3>1, <3>2, <3>3 DEF Spares
    <3>5. \A o \in 1 .. Slots : d[x].ptr[o] # 0 =>
            /\ e[d[x].ptr[o]].name = d[d[x].ptr[o]].name
            /\ d[d[x].ptr[o]].kind = "dir" => e[d[x].ptr[o]].kind = "dir"
      BY <3>1, <3>2 DEF Spares
    <3> QED BY <2>3, <3>4, <3>5, HopStays
  <2>4. Leads(e, q, n, stack[j].dir)
    BY <2>1, <2>3, LeadsStays
  <2> QED BY <2>4 DEF n, q
<1>6. ASSUME NEW j \in 1 .. Len(stack) PROVE WaitsFor(e, stack[j], more)
  <2> DEFINE r == stack[j]
             old == d[r.dir]
             new == e[r.dir]
  <2>1. /\ Alike(r.copy, old)
        /\ \A i \in 1 .. Slots : i # r.at => r.copy.ptr[i] = old.ptr[i]
        /\ r.dir # 0 => r.copy.next = old.next
        /\ r.dir = 0 => /\ "rootStays" \notin Promises
                        /\ r.copy.next = 0 \/ \E i \in 1 .. Len(list) : list[i] = r.copy.next
    BY <1>2, Ends DEF WaitsFor
  <2>2. old \in Sized /\ new \in Sized /\ r.copy \in Sized /\ r.at \in 1 .. Slots
    BY <1>2 DEF Disks
  <2>3. Alike(old, new)
    BY <1>3
  <2>4. Alike(r.copy, new)
    BY <2>1, <2>3 DEF Alike
  <2>5. ASSUME NEW i \in 1 .. Slots, i # r.at PROVE r.copy.ptr[i] = new.ptr[i]
    <3>1. r.dir # p \/ i # k
      BY <1>4, <2>5
    <3>2. new.ptr[i] = old.ptr[i]
      BY <1>3, <3>1
    <3> QED BY <2>1, <2>5, <3>2
  <2>6. r.dir # 0 => r.copy.next = new.next
    BY <1>3, <2>1
  <2>7. r.copy.next = 0 \/ (\E i \in 1 .. Len(list) : list[i] = r.copy.next) =>
          r.copy.next = 0 \/ \E i \in 1 .. Len(more) : more[i] = r.copy.next
    OBVIOUS
  <2> QED BY <1>5, <2>1, <2>2, <2>4, <2>5, <2>6, <2>7, Ends DEF WaitsFor
<1>7. ASSUME NEW j \in 1 .. Len(stack), j < Len(stack)
      PROVE  Pending(e, stack[j + 1], stack[j].dir, stack[j].path)
  <2>1. Pending(d, stack[j + 1], stack[j].dir, stack[j].path)
    BY <1>7 DEF Waiting
  <2>2. j + 1 \in 1 .. Len(stack) /\ j + 1 # 1
    BY <1>7 DEF Stacks
  <2>3. stack[j + 1].dir # p /\ stack[j + 1].at \in 1 .. Slots
    BY <1>2, <1>4, <2>2
  <2>4. e[stack[j + 1].dir].ptr[stack[j + 1].at] = d[stack[j + 1].dir].ptr[stack[j + 1].at]
    BY <1>3, <2>2, <2>3
  <2>5. e[stack[j].dir].kind = d[stack[j].dir].kind
        /\ e[stack[j].dir].name = d[stack[j].dir].name
    BY <1>3 DEF Alike
  <2> QED BY <2>1, <2>4, <2>5 DEF Pending
<1> QED BY <1>6, <1>7 DEF Waiting

---------------------------------------------------------------------------
(* The recursive functions of the promises, on the disks they are about.   *)

ToStep(path, f, i) ==
  IF i = 0 THEN 0 ELSE IF i > 1 /\ f[i - 1] = 0 THEN 0 ELSE Child(f[i - 1], path[i])

LEMMA HopChild ==
  ASSUME NEW x, NEW name, NEW n, Hop(disk, x, name, n)
  PROVE  Child(x, name) = n
<1> DEFINE S == Matches(x, name)
<1>1. S = Named(disk, x, name)
  BY DEF Matches, Named
<1>2. PICK i \in 1 .. Slots : First(S, i) /\ n = disk[x].ptr[i]
  BY <1>1 DEF Hop
<1>3. S \in SUBSET Int
  BY DEF Matches
<1> HIDE DEF S
<1>4. i \in S /\ \A j \in S : i <= j
  BY <1>2 DEF First
<1>5. MinOf(S) \in S /\ \A j \in S : MinOf(S) <= j
  BY <1>4, Zenon DEF MinOf
<1>6. MinOf(S) = i
  <2> DEFINE m == MinOf(S)
  <2>1. i \in Int /\ m \in Int /\ m <= i /\ i <= m
    BY <1>3, <1>4, <1>5
  <2> HIDE DEF m
  <2>2. m = i
    BY <2>1
  <2> QED BY <2>2 DEF m
<1>7. S # {}
  BY <1>4
<1>8. Child(x, name) = disk[x].ptr[MinOf(S)]
  BY <1>7 DEF Child, S
<1> QED BY <1>2, <1>6, <1>8

LEMMA ResolveIs ==
  ASSUME NEW path, Len(path) \in Nat, NEW n, Leads(disk, path, Len(path), n)
  PROVE  Resolve(path) = n
<1> DEFINE k == Len(path)
<1>1. PICK t \in [0 .. k -> Addr] : Trail(disk, path, k, t) /\ t[k] = n
  BY DEF Leads
<1>2. k \in Nat /\ k \in 0 .. k /\ 0 \in 0 .. k
  OBVIOUS
<1> DEFINE to == CHOOSE f : f = [i \in 0 .. k |-> ToStep(path, f, i)]
<1>3. Resolve(path) = to[k]
  BY DEF Resolve, ToStep
<1> HIDE DEF k
<1>4. t[0] = 0 /\ \A i \in 1 .. k : Child(t[i - 1], path[i]) = t[i] /\ t[i] # 0
  BY <1>1, HopChild, HopTo, Ends DEF Trail
<1>5. ASSUME NEW i \in 0 .. k PROVE t[i] = ToStep(path, t, i)
  <2>1. CASE i = 0
    BY <1>4, <2>1 DEF ToStep
  <2>2. CASE i # 0
    <3>1. i \in 1 .. k /\ (i > 1 => i - 1 \in 1 .. k)
      BY <1>2, <2>2
    <3> QED BY <1>4, <2>2, <3>1 DEF ToStep
  <2> QED BY <2>1, <2>2
<1>6. t = [i \in 0 .. k |-> ToStep(path, t, i)]
  BY <1>1, <1>5
<1>7. to = [i \in 0 .. k |-> ToStep(path, to, i)]
  BY <1>6
<1> HIDE DEF to
<1>8. \A i \in 0 .. k : to[i] = ToStep(path, to, i)
  BY <1>7
<1> DEFINE S == {i \in 0 .. k : to[i] # t[i]}
<1>9. ASSUME S # {} PROVE FALSE
  <2>1. S \in SUBSET Nat
    BY <1>2
  <2>2. PICK i \in S : \A j \in S : i <= j
    BY <1>9, <2>1, LeastNumber
  <2>3. i \in 0 .. k /\ to[i] # t[i]
    OBVIOUS
  <2>4. i # 0
    BY <1>4, <1>8, <2>3 DEF ToStep
  <2>5. i - 1 \in 0 .. k /\ i \in 1 .. k /\ ~ (i <= i - 1)
    BY <1>2, <2>3, <2>4
  <2>6. to[i - 1] = t[i - 1]
    BY <2>2, <2>5
  <2>7. i > 1 => t[i - 1] # 0
    BY <1>2, <1>4, <2>5
  <2> QED BY <1>4, <1>8, <2>3, <2>4, <2>5, <2>6, <2>7 DEF ToStep
<1> QED BY <1>1, <1>2, <1>3, <1>9

(* The blocks the free list still has. *)
UpStep(f, k) ==
  IF k = 0 THEN {SUPERBLOCK_DISKLOC} ELSE f[k - 1] \cup {disk[b].next : b \in f[k - 1]}

LEMMA ListedIs ==
  ASSUME NEW list \in Lists, Chain(disk, list)
  PROVE  \A b \in Listed : b = 0 \/ \E i \in 1 .. Len(list) : list[i] = b
<1> DEFINE f == [k \in 0 .. NumBlocks |->
                  {0} \cup {list[i] : i \in {j \in 1 .. Len(list) : j <= k}}]
           upTo == CHOOSE g : g = [k \in 0 .. NumBlocks |-> UpStep(g, k)]
<1>1. Listed = upTo[NumBlocks]
  BY DEF Listed, UpStep
<1>2. /\ disk[0].next = IF list = <<>> THEN 0 ELSE list[1]
      /\ \A i \in 1 .. Len(list) : disk[list[i]].next = IF i < Len(list) THEN list[i + 1] ELSE 0
      /\ Len(list) \in Nat /\ (list # <<>> <=> 1 \in 1 .. Len(list))
  BY Ends DEF Chain, Lists
<1>3. ASSUME NEW k \in 0 .. NumBlocks PROVE f[k] = UpStep(f, k)
  <2>1. CASE k = 0
    <3>1. {list[i] : i \in {j \in 1 .. Len(list) : j <= 0}} = {}
      BY <1>2
    <3> QED BY <2>1, <3>1, Ends DEF UpStep
  <2>2. CASE k # 0
    <3>1. k - 1 \in 0 .. NumBlocks /\ k \in Nat
      BY <2>2
    <3>2. ASSUME NEW b \in f[k] PROVE b \in UpStep(f, k)
      <4>1. CASE b \in f[k - 1]
        BY <2>2, <4>1 DEF UpStep
      <4>2. CASE b \notin f[k - 1]
        <5>1. PICK i \in 1 .. Len(list) : i <= k /\ b = list[i]
          BY <3>1, <4>2
        <5>2. i = k
          BY <1>2, <3>1, <4>2, <5>1
        <5>3. CASE k = 1
          <6>1. 0 \in f[k - 1] /\ b = disk[0].next
            BY <1>2, <3>1, <5>1, <5>2, <5>3
          <6> QED BY <2>2, <6>1 DEF UpStep
        <5>4. CASE k # 1
          <6>1. k - 1 \in 1 .. Len(list) /\ k - 1 < Len(list) /\ (k - 1) + 1 = k
            BY <1>2, <2>2, <3>1, <5>1, <5>2, <5>4
          <6>2. disk[list[k - 1]].next = b /\ list[k - 1] \in f[k - 1]
            BY <1>2, <3>1, <5>1, <5>2, <6>1
          <6> QED BY <2>2, <6>2 DEF UpStep
        <5> QED BY <5>3, <5>4
      <4> QED BY <4>1, <4>2
    <3>3. ASSUME NEW b \in UpStep(f, k) PROVE b \in f[k]
      <4>1. CASE b \in f[k - 1]
        BY <1>2, <3>1, <4>1
      <4>2. CASE b \notin f[k - 1]
        <5>1. PICK c \in f[k - 1] : b = disk[c].next
          BY <2>2, <4>2 DEF UpStep
        <5>2. CASE c = 0
          <6>1. b = 0 \/ (b = list[1] /\ 1 \in 1 .. Len(list) /\ 1 <= k)
            BY <1>2, <2>2, <3>1, <5>1, <5>2
          <6> QED BY <3>1, <6>1
        <5>3. ASSUME NEW i \in 1 .. Len(list), i <= k - 1, c = list[i]
              PROVE  b \in f[k]
          <6>1. b = 0 \/ (b = list[i + 1] /\ i + 1 \in 1 .. Len(list) /\ i + 1 <= k)
            BY <1>2, <3>1, <5>1, <5>3
          <6> QED BY <3>1, <6>1
        <5> QED BY <3>1, <5>1, <5>2, <5>3
      <4> QED BY <4>1, <4>2
    <3> HIDE DEF f
    <3> QED BY <3>2, <3>3
  <2> QED BY <2>1, <2>2
<1>4. f = [k \in 0 .. NumBlocks |-> UpStep(f, k)]
  <2>1. DOMAIN f = 0 .. NumBlocks /\ f = [k \in 0 .. NumBlocks |-> f[k]]
    OBVIOUS
  <2> HIDE DEF f
  <2> QED BY <1>3, <2>1
<1> HIDE DEF f
<1>5. upTo = [k \in 0 .. NumBlocks |-> UpStep(upTo, k)]
  BY <1>4
<1> HIDE DEF upTo
<1>6. \A k \in 0 .. NumBlocks : upTo[k] = UpStep(upTo, k)
  BY <1>5
<1> DEFINE On == {0} \cup {list[i] : i \in 1 .. Len(list)}
           S == {k \in 0 .. NumBlocks : ~ (upTo[k] \subseteq On)}
<1>7. ASSUME S # {} PROVE FALSE
  <2>1. S \in SUBSET Nat
    OBVIOUS
  <2>2. PICK k \in S : \A j \in S : k <= j
    BY <1>7, <2>1, LeastNumber
  <2>3. k \in 0 .. NumBlocks /\ ~ (upTo[k] \subseteq On)
    OBVIOUS
  <2>4. k # 0
    BY <1>6, <2>3, Ends DEF UpStep
  <2>5. k - 1 \in 0 .. NumBlocks /\ ~ (k <= k - 1)
    BY <2>3, <2>4
  <2>6. upTo[k - 1] \subseteq On
    BY <2>2, <2>5
  <2>7. ASSUME NEW c \in On PROVE disk[c].next \in On
    <3>1. CASE c = 0
      BY <1>2, <3>1
    <3>2. ASSUME NEW i \in 1 .. Len(list), c = list[i] PROVE disk[c].next \in On
      <4>1. i < Len(list) => i + 1 \in 1 .. Len(list)
        BY <1>2
      <4> QED BY <1>2, <3>2, <4>1
    <3> QED BY <3>1, <3>2
  <2>8. upTo[k] = upTo[k - 1] \cup {disk[b].next : b \in upTo[k - 1]}
    BY <1>6, <2>3, <2>4 DEF UpStep
  <2> QED BY <2>3, <2>6, <2>7, <2>8
<1>8. NumBlocks \in 0 .. NumBlocks
  OBVIOUS
<1> QED BY <1>1, <1>7, <1>8

LEMMA UpTo ==
  ASSUME NEW n \in Nat
  PROVE  IsFiniteSet(1 .. n) /\ Cardinality(1 .. n) = n
  BY FS_Interval

LEMMA ListedCount ==
  ASSUME NEW list \in Lists, Chain(disk, list)
  PROVE  /\ IsFiniteSet(Listed) /\ Cardinality(Listed \ {0}) \in Nat
         /\ Cardinality(Listed \ {0}) <= Len(list)
<1> DEFINE On == {list[i] : i \in 1 .. Len(list)}
<1>1. list \in [1 .. Len(list) -> On] /\ Len(list) \in Nat
  BY LenProperties DEF Lists
<1>2. list \in Surjection(1 .. Len(list), On)
  BY <1>1 DEF Surjection
<1>3. IsFiniteSet(1 .. Len(list)) /\ Cardinality(1 .. Len(list)) = Len(list)
  BY <1>1, UpTo
<1>4. IsFiniteSet(On) /\ Cardinality(On) <= Len(list)
  BY <1>2, <1>3, FS_Surjection
<1>5. Listed \ {0} \in SUBSET On
  BY ListedIs
<1> HIDE DEF On
<1>6. /\ IsFiniteSet(Listed \ {0}) /\ Cardinality(Listed \ {0}) <= Cardinality(On)
      /\ Cardinality(Listed \ {0}) \in Nat /\ Cardinality(On) \in Nat
  BY <1>4, <1>5, FS_Subset, FS_CardinalityType
<1>7. IsFiniteSet(Listed)
  <2>1. IsFiniteSet((Listed \ {0}) \cup {0})
    BY <1>6, FS_AddElement
  <2>2. Listed = Listed \ {0} \/ Listed = (Listed \ {0}) \cup {0}
    OBVIOUS
  <2> QED BY <1>6, <2>1, <2>2
<1>8. Cardinality(On) \in Nat
  BY <1>4, FS_CardinalityType
<1> QED BY <1>1, <1>4, <1>6, <1>7, <1>8

(* The pointers of a file are those up to the first zero. *)
LEMMA HeldSlots ==
  ASSUME NEW ptr \in Ptrs, Gapless(ptr)
  PROVE  /\ UsedCount(ptr) \in 0 .. Slots
         /\ \A j \in 1 .. Slots : ptr[j] # 0 <=> j <= UsedCount(ptr)
<1> DEFINE P(k) == /\ \A i \in 1 .. k : ptr[i] # 0
                   /\ k < Slots => ptr[k + 1] = 0
           S == {k \in 0 .. Slots : k < Slots => ptr[k + 1] = 0}
<1>1. S \in SUBSET Nat /\ Slots \in S
  OBVIOUS
<1>2. PICK k \in S : \A j \in S : k <= j
  BY <1>1, LeastNumber
<1>3. k \in 0 .. Slots /\ (k < Slots => ptr[k + 1] = 0)
  OBVIOUS
<1>4. ASSUME NEW i \in 1 .. k PROVE ptr[i] # 0
  <2>1. i - 1 \in 0 .. Slots /\ i - 1 < Slots /\ ~ (k <= i - 1) /\ (i - 1) + 1 = i
    BY <1>3
  <2>2. i - 1 \notin S
    BY <1>2, <2>1
  <2> QED BY <2>1, <2>2
<1>5. P(k)
  BY <1>3, <1>4
<1>6. UsedCount(ptr) \in 0 .. Slots /\ P(UsedCount(ptr))
  BY <1>3, <1>5, Zenon DEF UsedCount
<1> DEFINE u == UsedCount(ptr)
<1>7. u \in 0 .. Slots /\ (\A i \in 1 .. u : ptr[i] # 0) /\ (u < Slots => ptr[u + 1] = 0)
  BY <1>6
<1> HIDE DEF u, P
<1>8. ASSUME NEW j \in 1 .. Slots PROVE ptr[j] # 0 <=> j <= u
  <2>1. CASE j <= u
    BY <1>7, <2>1
  <2>2. CASE ~ (j <= u)
    <3>1. u + 1 \in 1 .. Slots /\ u + 1 <= j /\ ptr[u + 1] = 0
      BY <1>7, <2>2
    <3> QED BY <2>2, <3>1 DEF Gapless
  <2> QED BY <2>1, <2>2
<1> QED BY <1>7, <1>8 DEF u

(* A file needs no more blocks than an inode has pointers.                 *)
LEMMA Needs ==
  ASSUME NEW size \in Sizes \cup {0}, NumBlocks >= 2
  PROVE  BlocksFor(size) \in Nat /\ BlocksFor(size) <= Slots
<1>1. Slots >= 1
  BY AddressAssumption
<1>2. CASE size = 0
  <2>1. TruncDiv(size - 1, MAX_DATA_SPACE) = -(1 \div MAX_DATA_SPACE)
    BY <1>2 DEF TruncDiv
  <2>2. 1 \div MAX_DATA_SPACE \in {0, 1}
    <3>1. CASE MAX_DATA_SPACE = 1
      BY <3>1
    <3>2. CASE MAX_DATA_SPACE > 1
      BY <3>2
    <3> QED BY <3>1, <3>2
  <2> QED BY <1>1, <2>1, <2>2 DEF BlocksFor
<1>3. CASE size # 0
  <2>1. size \in Sizes /\ size \in Nat /\ size >= 1 /\ size - 1 \in 0 .. size - 1
    BY <1>3
  <2>2. (size - 1) \div MAX_DATA_SPACE < Slots
    BY <2>1, CallsAssumption
  <2>3. (size - 1) \div MAX_DATA_SPACE \in Nat
    BY <2>1
  <2>4. TruncDiv(size - 1, MAX_DATA_SPACE) = (size - 1) \div MAX_DATA_SPACE
    BY <2>1 DEF TruncDiv
  <2> DEFINE q == (size - 1) \div MAX_DATA_SPACE
  <2>5. q \in Nat /\ q < Slots /\ BlocksFor(size) = q + 1
    BY <2>2, <2>3, <2>4 DEF BlocksFor
  <2> HIDE DEF q
  <2> QED BY <2>5
<1> QED BY <1>2, <1>3

(* A directory has an empty slot for a block that is in hand: its pointers *)
(* lead to as many other blocks, and the superblock is none of them.       *)
LEMMA RoomInDir ==
  ASSUME NEW d \in Disks, NEW b \in Addr, b # 0, NEW list,
         Owns(d, {}, {b}, list), NEW p \in Addr
  PROVE  \E i \in 1 .. Slots : d[p].ptr[i] = 0
<1> SUFFICES ASSUME \A i \in 1 .. Slots : d[p].ptr[i] # 0
             PROVE  FALSE
  OBVIOUS
<1> DEFINE T == (1 .. NumBlocks - 1) \ {b}
           f == d[p].ptr
<1>1. ASSUME NEW i \in 1 .. Slots
      PROVE  f[i] \in T /\ Counts(d, {}, p, i)
  <2>1. Counts(d, {}, p, i)
    BY DEF Counts
  <2>2. d[p].ptr[i] # b /\ d[p].ptr[i] \in Addr /\ d[p].ptr[i] # 0
    BY <2>1, OneOwnerOf, DiskFields
  <2> QED BY <2>1, <2>2 DEF Addr
<1>2. f \in [1 .. Slots -> T]
  BY <1>1, DiskFields DEF Ptrs
<1>3. b \in 1 .. NumBlocks - 1
  BY DEF Addr
<1>4. IsFiniteSet(1 .. Slots) /\ Cardinality(1 .. Slots) = Slots
  BY FS_Interval
<1>5. IsFiniteSet(T) /\ Cardinality(T) = NumBlocks - 2
  <2>1. IsFiniteSet(1 .. NumBlocks - 1) /\ Cardinality(1 .. NumBlocks - 1) = NumBlocks - 1
    BY <1>3, UpTo
  <2>2. /\ IsFiniteSet((1 .. NumBlocks - 1) \ {b})
        /\ Cardinality((1 .. NumBlocks - 1) \ {b}) = Cardinality(1 .. NumBlocks - 1) - 1
    BY <1>3, <2>1, FS_RemoveElement
  <2> QED BY <2>1, <2>2
<1>6. Cardinality(T) < Cardinality(1 .. Slots)
  BY <1>4, <1>5, AddressAssumption
<1> HIDE DEF T, f
<1>7. PICK i, j \in 1 .. Slots : i # j /\ f[i] = f[j]
  BY <1>2, <1>4, <1>5, <1>6, FS_PigeonHole
<1>8. Counts(d, {}, p, i) /\ Counts(d, {}, p, j) /\ d[p].ptr[j] = d[p].ptr[i]
  BY <1>1, <1>7 DEF f
<1>9. \A y \in Addr, l \in 1 .. Slots :
        Counts(d, {}, y, l) /\ d[y].ptr[l] = d[p].ptr[i] => y = p /\ l = i
  BY <1>8, OneOwnerOf
<1> QED BY <1>7, <1>8, <1>9

---------------------------------------------------------------------------
(* The step of a call that is at work, and what it leaves to do. *)

LEMMA FourOnTop ==
  ASSUME NEW S, NEW s \in Seq(S), NEW a, NEW b, NEW c, NEW f
  PROVE  <<a, b, c, f>> \o s = <<a>> \o (<<b, c, f>> \o s)
<1> DEFINE T == S \cup {a, b, c, f}
<1>1. /\ s \in Seq(T) /\ <<a>> \in Seq(T) /\ <<b, c, f>> \in Seq(T)
      /\ <<a, b, c, f>> \in Seq(T)
  OBVIOUS
<1> HIDE DEF T
<1> DEFINE u == <<a>> \o <<b, c, f>>
           v == <<a, b, c, f>>
<1>2. u \in Seq(T) /\ Len(u) = 4 /\ u[1] = a /\ u[2] = b /\ u[3] = c /\ u[4] = f
  BY <1>1
<1>3. v \in Seq(T) /\ Len(v) = 4 /\ v[1] = a /\ v[2] = b /\ v[3] = c /\ v[4] = f
  BY <1>1
<1> HIDE DEF u, v
<1>4. \A i \in 1 .. 4 : u[i] = v[i]
  BY <1>2, <1>3
<1>5. u = v
  BY <1>2, <1>3, <1>4, SeqEqual
<1>6. (<<a>> \o <<b, c, f>>) \o s = <<a>> \o (<<b, c, f>> \o s)
  <2> DEFINE x == <<a>>
             y == <<b, c, f>>
  <2>1. x \in Seq(T) /\ y \in Seq(T) /\ s \in Seq(T)
    BY <1>1
  <2> HIDE DEF x, y
  <2>2. (x \o y) \o s = x \o (y \o s)
    BY <2>1, ConcatAssociative
  <2> QED BY <2>2 DEF x, y
<1> QED BY <1>5, <1>6, Zenon DEF u, v

LEMMA Tops ==
  ASSUME NEW s \in Stacks, NEW a, NEW b, NEW c, NEW f
  PROVE  /\ <<a>> \o s # <<>> /\ Head(<<a>> \o s) = a /\ Tail(<<a>> \o s) = s
         /\ <<a, b>> \o s # <<>> /\ Head(<<a, b>> \o s) = a
         /\ Tail(<<a, b>> \o s) = <<b>> \o s
         /\ <<a, b, c>> \o s # <<>> /\ Head(<<a, b, c>> \o s) = a
         /\ Tail(<<a, b, c>> \o s) = <<b, c>> \o s
         /\ <<a, b, c, f>> \o s # <<>> /\ Head(<<a, b, c, f>> \o s) = a
         /\ Tail(<<a, b, c, f>> \o s) = <<b, c, f>> \o s
<1> DEFINE T == ScanSteps \cup {a, b, c, f}
<1>1. s \in Seq(T)
  BY DEF Stacks
<1>2. <<b>> \o s \in Seq(T) /\ <<b, c>> \o s \in Seq(T) /\ <<b, c, f>> \o s \in Seq(T)
  <2>1. <<b>> \in Seq(T) /\ <<b, c>> \in Seq(T) /\ <<b, c, f>> \in Seq(T)
    OBVIOUS
  <2> HIDE DEF T
  <2> QED BY <1>1, <2>1, Concatenation
<1> HIDE DEF T
<1>3. /\ <<a>> \o s # <<>> /\ Head(<<a>> \o s) = a /\ Tail(<<a>> \o s) = s
  BY <1>1, OnTop
<1>4. /\ <<a, b>> \o s # <<>> /\ Head(<<a, b>> \o s) = a
      /\ Tail(<<a, b>> \o s) = <<b>> \o s
  <2> DEFINE t == <<b>> \o s
  <2>1. <<a, b>> \o s = <<a>> \o t
    BY <1>1, TwoOnTop
  <2>2. t \in Seq(T)
    BY <1>2
  <2> HIDE DEF t
  <2>3. <<a>> \o t # <<>> /\ Head(<<a>> \o t) = a /\ Tail(<<a>> \o t) = t
    BY <2>2, OnTop
  <2> QED BY <2>1, <2>3 DEF t
<1>5. /\ <<a, b, c>> \o s # <<>> /\ Head(<<a, b, c>> \o s) = a
      /\ Tail(<<a, b, c>> \o s) = <<b, c>> \o s
  <2> DEFINE t == <<b, c>> \o s
  <2>1. <<a, b, c>> \o s = <<a>> \o t
    BY <1>1, ThreeOnTop
  <2>2. t \in Seq(T)
    BY <1>2
  <2> HIDE DEF t
  <2>3. <<a>> \o t # <<>> /\ Head(<<a>> \o t) = a /\ Tail(<<a>> \o t) = t
    BY <2>2, OnTop
  <2> QED BY <2>1, <2>3 DEF t
<1>6. /\ <<a, b, c, f>> \o s # <<>> /\ Head(<<a, b, c, f>> \o s) = a
      /\ Tail(<<a, b, c, f>> \o s) = <<b, c, f>> \o s
  <2> DEFINE t == <<b, c, f>> \o s
  <2>1. <<a, b, c, f>> \o s = <<a>> \o t
    BY <1>1, FourOnTop
  <2>2. t \in Seq(T)
    BY <1>2
  <2> HIDE DEF t
  <2>3. <<a>> \o t # <<>> /\ Head(<<a>> \o t) = a /\ Tail(<<a>> \o t) = t
    BY <2>2, OnTop
  <2> QED BY <2>1, <2>3 DEF t
<1> QED BY <1>3, <1>4, <1>5, <1>6

LEMMA PushOne ==
  ASSUME NEW s \in Stacks, NEW a, NEW b
  PROVE  <<a>> \o (<<b>> \o s) = <<a, b>> \o s
<1>1. PICK S : s \in Seq(S)
  BY DEF Stacks
<1>2. <<a, b>> \o s = <<a>> \o (<<b>> \o s)
  BY <1>1, TwoOnTop
<1> QED BY <1>2

LEMMA PushOnTwo ==
  ASSUME NEW s \in Stacks, NEW a, NEW b, NEW c
  PROVE  <<a>> \o (<<b, c>> \o s) = <<a, b, c>> \o s
<1>1. PICK S : s \in Seq(S)
  BY DEF Stacks
<1>2. <<a, b, c>> \o s = <<a>> \o (<<b, c>> \o s)
  BY <1>1, ThreeOnTop
<1> QED BY <1>2

LEMMA PushTwo ==
  ASSUME NEW s \in Stacks, NEW a, NEW b, NEW c, NEW f
  PROVE  \A x : x = <<c, f>> \o s => <<a, b>> \o x = <<a, b, c, f>> \o s
<1>1. PICK S : s \in Seq(S)
  BY DEF Stacks
<1>2. PICK y : y = <<b, c, f>> \o s
  OBVIOUS
<1>3. <<a, b, c, f>> \o s = <<a>> \o y
  <2>1. <<a, b, c, f>> \o s = <<a>> \o (<<b, c, f>> \o s)
    BY <1>1, FourOnTop
  <2> QED BY <1>2, <2>1
<1>4. ASSUME NEW x, x = <<c, f>> \o s PROVE <<a, b>> \o x = <<a>> \o y
  <2>1. x \in Seq(S \cup {c, f})
    <3>1. s \in Seq(S \cup {c, f}) /\ <<c, f>> \in Seq(S \cup {c, f})
      BY <1>1
    <3> QED BY <1>4, <3>1
  <2>2. <<a, b>> \o x = <<a>> \o (<<b>> \o x)
    <3>1. PICK S2 : S2 = S \cup {c, f}
      OBVIOUS
    <3>2. x \in Seq(S2)
      BY <2>1, <3>1
    <3>3. <<a, b>> \o x = <<a>> \o (<<b>> \o x)
      BY <3>2, TwoOnTop
    <3> QED BY <3>3
  <2>3. <<b>> \o x = y
    <3>1. <<b, c, f>> \o s = <<b>> \o (<<c, f>> \o s)
      BY <1>1, ThreeOnTop
    <3> QED BY <1>2, <1>4, <3>1
  <2> QED BY <2>2, <2>3
<1> QED BY <1>3, <1>4

---------------------------------------------------------------------------
(* Freeing. *)

(* Which pointers count: all, all but some of a file, all but one.         *)
LEMMA AllCount ==
  ASSUME NEW d, NEW y \in Addr, NEW j \in 1 .. Slots
  PROVE  Counts(d, {}, y, j) <=> d[y].ptr[j] # 0
  BY DEF Counts

LEMMA ButSomeCount ==
  ASSUME NEW d, NEW y \in Addr, NEW j \in 1 .. Slots, NEW n, NEW S
  PROVE  Counts(d, {n} \X S, y, j) <=> d[y].ptr[j] # 0 /\ ~ (y = n /\ j \in S)
  BY DEF Counts

LEMMA ButOneCounts ==
  ASSUME NEW d, NEW y \in Addr, NEW j \in 1 .. Slots, NEW p, NEW k
  PROVE  Counts(d, {<<p, k>>}, y, j) <=> d[y].ptr[j] # 0 /\ ~ (y = p /\ j = k)
  BY DEF Counts

(* What is given up leads from a directory to no directory.                *)
Spent(d, given) ==
  \A x \in Addr, i \in 1 .. Slots :
    <<x, i>> \in given /\ IsDirOn(d, x) => d[d[x].ptr[i]].kind # "dir"

LEMMA OneParentIs ==
  ASSUME NEW d \in Disks, NEW given, NEW hand, NEW list, Owns(d, given, hand, list),
         Spent(d, given)
  PROVE  OneParent(d)
<1> SUFFICES ASSUME NEW x \in Addr, NEW y \in Addr, NEW i \in 1 .. Slots,
                    NEW j \in 1 .. Slots, IsDirOn(d, x), IsDirOn(d, y),
                    d[x].ptr[i] # 0, d[x].ptr[i] = d[y].ptr[j],
                    d[d[x].ptr[i]].kind = "dir"
             PROVE  x = y /\ i = j
  BY DEF OneParent
<1>1. Counts(d, given, x, i) /\ Counts(d, given, y, j)
  BY DEF Counts, Spent
<1> QED BY <1>1, OneOwnerOf

LEMMA FreedTree ==
  ASSUME NEW d \in Disks, NEW b \in Addr, b # 0, NEW e, e = FreedOn(d, b)
  PROVE  /\ e[b].kind = "none" /\ \A c \in Addr \ {b} : e[c] = d[c]
         /\ DirNames(d) => DirNames(e)
         /\ \A fds \in [FDs -> Addr] : OnFiles(d, fds, {}) =>
              OnFiles(e, fds, IF d[b].kind = "file" THEN {b} ELSE {})
<1>1. e[b].kind = "none" /\ \A c \in Addr \ {b} : e[c] = d[c]
  BY DEF Disks, FreedOn, FreeBlk, Blank
<1>2. ASSUME NEW x \in Addr, NEW i \in 1 .. Slots, IsDirOn(e, x), e[x].ptr[i] # 0,
             e[e[x].ptr[i]].kind = "dir"
      PROVE  /\ IsDirOn(d, x) /\ d[x].ptr[i] = e[x].ptr[i]
             /\ d[e[x].ptr[i]].kind = "dir"
             /\ d[e[x].ptr[i]].name = e[e[x].ptr[i]].name
  <2>1. x # b
    BY <1>1, <1>2, Ends DEF IsDirOn
  <2>2. e[x] = d[x] /\ d[x].ptr[i] \in Addr
    BY <1>1, <2>1, DiskFields
  <2>3. d[x].ptr[i] # b
    BY <1>1, <1>2, <2>2
  <2> QED BY <1>1, <1>2, <2>2, <2>3 DEF IsDirOn
<1>3. DirNames(d) => DirNames(e)
  BY <1>2, NamesStay
<1>4. ASSUME NEW fds \in [FDs -> Addr], OnFiles(d, fds, {})
      PROVE  OnFiles(e, fds, IF d[b].kind = "file" THEN {b} ELSE {})
  BY <1>1, <1>4 DEF OnFiles
<1> QED BY <1>1, <1>3, <1>4

(* b leads nowhere; for the call that waits, only its directory leads to b. *)
OffTree(d, stack, b) ==
  /\ IsDirOn(d, b) => \A l \in 1 .. Slots : d[b].ptr[l] = 0
  /\ stack # <<>> =>
       /\ d[stack[1].dir].ptr[stack[1].at] # 0
       /\ \A x \in Addr, i \in 1 .. Slots :
            IsDirOn(d, x) /\ d[x].ptr[i] = b => x = stack[1].dir

LEMMA FreeWaits ==
  ASSUME NEW d \in Disks, NEW e \in Disks, OneParent(d), NEW stack \in Stacks,
         NEW list \in Lists, Waiting(d, stack, list),
         NEW b \in Addr, b # 0, e = FreedOn(d, b),
         OffTree(d, stack, b)
  PROVE  Waiting(e, stack, list)
<1>1. CASE stack = <<>>
  BY <1>1, NoneWaits
<1>2. CASE stack # <<>>
  <2>1. PICK p, k : p = stack[1].dir /\ k = stack[1].at
    OBVIOUS
  <2>2. \A c \in Addr \ {b} : e[c] = d[c]
    BY DEF Disks, FreedOn
  <2>3. Spares(d, e, p, k)
    <3>1. ASSUME NEW x \in Addr, NEW l \in 1 .. Slots, IsDirOn(d, x), d[x].ptr[l] # 0
          PROVE  e[x] = d[x]
      BY <2>2, <3>1 DEF OffTree
    <3>2. ASSUME NEW x \in Addr, NEW i \in 1 .. Slots, IsDirOn(d, x), x # p,
                 d[x].ptr[i] # 0
          PROVE  e[d[x].ptr[i]] = d[d[x].ptr[i]]
      BY <1>2, <2>1, <2>2, <3>2, DiskFields DEF OffTree
    <3>3. \A blk : Alike(blk, blk)
      BY DEF Alike
    <3> QED BY <3>1, <3>2, <3>3, Zenon DEF Spares
  <2>4. \A i \in 1 .. Len(list) : \E j \in 1 .. Len(list) : list[j] = list[i]
    OBVIOUS
  <2>5. d[p].ptr[k] # 0
    BY <1>2, <2>1 DEF OffTree
  <2> QED BY <1>2, <2>1, <2>3, <2>4, <2>5, FramesStay
<1> QED BY <1>1, <1>2

(* A write of the superblock's head, to a list that has the same blocks.   *)
LEMMA HeadWaits ==
  ASSUME NEW d \in Disks, NEW e, SameTree(d, e), NEW stack \in Stacks,
         NEW list \in Lists, NEW more \in Lists, Waiting(d, stack, list),
         \A b \in Addr : Alike(d[b], e[b]),
         \A b \in Addr \ {0} : e[b] = d[b],
         \A i \in 1 .. Len(list) : \E j \in 1 .. Len(more) : more[j] = list[i]
  PROVE  Waiting(e, stack, more)
<1>1. ASSUME NEW j \in 1 .. Len(stack)
      PROVE  WaitsFor(e, stack[j], more)
  <2>1. PICK r : r = stack[j]
    OBVIOUS
  <2>2. r.dir \in Addr /\ Len(r.path) \in Nat /\ WaitsFor(d, r, list)
    BY <2>1, StackFacts DEF Waiting
  <2>3. Leads(e, r.path, Len(r.path), r.dir)
    BY <2>2, LeadsSame DEF WaitsFor
  <2>4. Alike(r.copy, e[r.dir]) /\ e[r.dir].ptr = d[r.dir].ptr
    BY <2>2 DEF WaitsFor, Alike, SameTree
  <2>5. WaitsFor(e, r, more)
    BY <2>2, <2>3, <2>4, Ends DEF WaitsFor
  <2> QED BY <2>1, <2>5
<1>2. ASSUME NEW r, r.at \in 1 .. Slots, r.dir \in Addr, NEW n \in Addr, NEW path,
             Pending(d, r, n, path)
      PROVE  Pending(e, r, n, path)
  BY <1>2 DEF Pending, SameTree
<1>3. ASSUME NEW j \in 1 .. Len(stack), j < Len(stack)
      PROVE  Pending(e, stack[j + 1], stack[j].dir, stack[j].path)
  <2>1. j + 1 \in 1 .. Len(stack)
    BY <1>3 DEF Stacks
  <2>2. /\ stack[j + 1].dir \in Addr /\ stack[j].dir \in Addr
        /\ WaitsFor(d, stack[j + 1], list)
        /\ Pending(d, stack[j + 1], stack[j].dir, stack[j].path)
    BY <1>3, <2>1, StackFacts DEF Waiting
  <2> QED BY <1>2, <2>2 DEF WaitsFor
<1> QED BY <1>1, <1>3 DEF Waiting

---------------------------------------------------------------------------
HIDE Bounds

(* The program the theorems are about.  It removes what it wants by a path *)
(* or a descriptor; it may lose descriptors and have the root emptied.     *)
Mindful == {"filesOnly", "noShrink", "fits", "unmountFirst"} \subseteq Promises
Careful == Mindful /\ "crash" \notin Calls

---------------------------------------------------------------------------
(* The step at work tells where the call is. *)

LEMMA OpOf ==
  ASSUME NEW list, NEW stack \in Stacks
  PROVE  /\ AtFormat => todo # <<>> /\ Head(todo).op = "format"
         /\ AtWalk(list, stack) => todo # <<>> /\ Head(todo).op = "walk"
         /\ AtScan(list, stack) => todo # <<>> /\ Head(todo).op = "scan"
         /\ AtRewrite(list, stack) => todo # <<>> /\ Head(todo).op = "rewrite"
         /\ AtCreate(list) =>
              todo # <<>> /\ Head(todo).op \in {"create", "newInode", "link"}
         /\ AtRemoveDir(list, stack) =>
              todo # <<>> /\ Head(todo).op \in {"freeBody", "freeHead", "unlinkDir"}
         /\ AtRemoveFile(list, stack) =>
              todo # <<>> /\ Head(todo).op \in {"release", "freeBody", "freeHead", "unlink"}
         /\ AtWrite(list) =>
              todo # <<>> /\ Head(todo).op \in {"release", "freeHead", "grab", "fill", "point"}
<1>1. AtFormat => todo # <<>> /\ Head(todo).op = "format"
  BY DEF AtFormat, FormatAt
<1>2. AtWalk(list, stack) => todo # <<>> /\ Head(todo).op = "walk"
  <2>1. SUFFICES ASSUME NEW w \in WalkSteps, todo = <<w>> \o stack
                 PROVE  todo # <<>> /\ Head(todo).op = "walk"
    BY DEF AtWalk, LooksUp
  <2>2. todo # <<>> /\ Head(todo) = w
    BY <2>1, Tops
  <2> QED BY <2>2 DEF WalkSteps
<1>3. AtScan(list, stack) => todo # <<>> /\ Head(todo).op = "scan"
  <2>1. SUFFICES ASSUME NEW s, s.op = "scan", todo = <<s>> \o stack
                 PROVE  todo # <<>> /\ Head(todo).op = "scan"
    BY DEF AtScan, Scans
  <2> QED BY <2>1, Tops
<1>4. AtRewrite(list, stack) => todo # <<>> /\ Head(todo).op = "rewrite"
  BY StackTop DEF AtRewrite
<1>5. AtCreate(list) => todo # <<>> /\ Head(todo).op \in {"create", "newInode", "link"}
  BY DEF AtCreate, Creates, WritesInode, Links
<1>6. AtRemoveDir(list, stack) =>
        todo # <<>> /\ Head(todo).op \in {"freeBody", "freeHead", "unlinkDir"}
  <2>1. SUFFICES ASSUME NEW n, NEW p,
                        \/ todo = <<FreeBody(n), UnlinkDir(n, p)>> \o stack
                        \/ todo = <<FreeHead(n), UnlinkDir(n, p)>> \o stack
                        \/ todo = <<UnlinkDir(n, p)>> \o stack
                 PROVE  todo # <<>> /\ Head(todo).op \in {"freeBody", "freeHead", "unlinkDir"}
    BY DEF AtRemoveDir, DirBody, DirHead, DirGone
  <2>2. /\ todo # <<>>
        /\ Head(todo) \in {FreeBody(n), FreeHead(n), UnlinkDir(n, p)}
    BY <2>1, Tops
  <2> QED BY <2>2 DEF FreeBody, FreeHead, UnlinkDir
<1>7. AtRemoveFile(list, stack) =>
        todo # <<>> /\ Head(todo).op \in {"release", "freeBody", "freeHead", "unlink"}
  <2>1. SUFFICES ASSUME NEW n \in Addr, NEW p \in Addr, NEW i, NEW b, NEW k,
                        \/ FileBlocks(n, p, i, list, stack)
                        \/ FileBlockHead(n, p, i, b, list, stack)
                        \/ FileBody(n, p, list, stack)
                        \/ FileHead(n, p, k, list, stack)
                        \/ FileGone(n, p, k, list, stack)
                 PROVE  /\ todo # <<>>
                        /\ Head(todo).op \in {"release", "freeBody", "freeHead", "unlink"}
    BY DEF AtRemoveFile
  <2>2. /\ todo # <<>>
        /\ Head(todo) \in {Release(disk[n].ptr, i), FreeHead(b), FreeBody(n), FreeHead(n),
                           Unlink(n, p)}
    BY <2>1, Tops DEF FileBlocks, FileBlockHead, FileBody, FileHead, FileGone
  <2> QED BY <2>2 DEF Release, FreeBody, FreeHead, Unlink
<1>8. AtWrite(list) =>
        todo # <<>> /\ Head(todo).op \in {"release", "freeHead", "grab", "fill", "point"}
  <2>1. SUFFICES ASSUME NEW g \in WriteSteps, NEW ptr, NEW i, NEW b,
           \/ todo = <<Release(ptr, i), g>>
           \/ todo = <<FreeHead(b), Release(ptr, i), g>>
           \/ todo = <<g>> /\ g.op \in {"grab", "fill", "point"}
                 PROVE  /\ todo # <<>>
                        /\ Head(todo).op \in {"release", "freeHead", "grab", "fill", "point"}
    <3>1. ASSUME AtWrite(list)
          PROVE  \E g \in WriteSteps, n \in Addr : GivesBack(g, n, list) \/ Takes(g, n, list)
      BY <3>1 DEF AtWrite
    <3>2. ASSUME NEW g \in WriteSteps, NEW n \in Addr, GivesBack(g, n, list)
          PROVE  \E i, b : \/ todo = <<Release(disk[n].ptr, i), g>>
                           \/ todo = <<FreeHead(b), Release(disk[n].ptr, i), g>>
      BY <3>2 DEF GivesBack, GivesBlock, GivesHead
    <3>3. ASSUME NEW g \in WriteSteps, NEW n \in Addr, Takes(g, n, list)
          PROVE  todo = <<g>> /\ g.op \in {"grab", "fill", "point"}
      BY <3>3 DEF Takes, Grabs, Places
    <3> QED BY <3>1, <3>2, <3>3
  <2>2. /\ todo # <<>>
        /\ \/ Head(todo) \in {Release(ptr, i), FreeHead(b)}
           \/ Head(todo) = g /\ g.op \in {"grab", "fill", "point"}
    BY <2>1
  <2> QED BY <2>2 DEF Release, FreeHead
<1> QED BY <1>1, <1>2, <1>3, <1>4, <1>5, <1>6, <1>7, <1>8

LEMMA Where ==
  ASSUME Ownership, NEW op, Doing(op), op # "format"
  PROVE  \E list \in Lists, stack \in Stacks :
           /\ Waiting(disk, stack, list)
           /\ op = "walk" => AtWalk(list, stack)
           /\ op = "scan" => AtScan(list, stack)
           /\ op = "rewrite" => AtRewrite(list, stack)
           /\ op \in {"create", "newInode", "link"} => stack = <<>> /\ AtCreate(list)
           /\ op = "unlinkDir" => AtRemoveDir(list, stack)
           /\ op = "unlink" => AtRemoveFile(list, stack)
           /\ op = "freeBody" => AtRemoveDir(list, stack) \/ AtRemoveFile(list, stack)
           /\ op = "freeHead" => \/ AtRemoveDir(list, stack) \/ AtRemoveFile(list, stack)
                                 \/ stack = <<>> /\ AtWrite(list)
           /\ op = "release" => AtRemoveFile(list, stack) \/ (stack = <<>> /\ AtWrite(list))
           /\ op \in {"grab", "fill", "point"} => stack = <<>> /\ AtWrite(list)
<1>1. todo # <<>> /\ Head(todo).op = op
  BY DEF Doing
<1>2. ~ AtFormat
  BY <1>1, OpOf, NoneWaits
<1>3. PICK list \in Lists, stack \in Stacks : At(list, stack)
  BY <1>2 DEF Ownership
<1>4. Waiting(disk, stack, list)
  BY <1>3 DEF At
<1> DEFINE W1 == AtWalk(list, stack)
           W2 == AtScan(list, stack)
           W3 == AtRewrite(list, stack)
           W4 == AtRemoveDir(list, stack)
           W5 == AtRemoveFile(list, stack)
           W6 == AtCreate(list)
           W7 == AtWrite(list)
<1>5. \/ W1 \/ W2 \/ W3 \/ W4 \/ W5
      \/ stack = <<>> /\ (W6 \/ W7)
  BY <1>1, <1>3 DEF At, Idle
<1>6. /\ W1 => op = "walk"
      /\ W2 => op = "scan"
      /\ W3 => op = "rewrite"
      /\ W6 => op \in {"create", "newInode", "link"}
      /\ W4 => op \in {"freeBody", "freeHead", "unlinkDir"}
      /\ W5 => op \in {"release", "freeBody", "freeHead", "unlink"}
      /\ W7 => op \in {"release", "freeHead", "grab", "fill", "point"}
  BY <1>1, OpOf
<1> HIDE DEF W1, W2, W3, W4, W5, W6, W7
<1>7. /\ op = "walk" => W1
      /\ op = "scan" => W2
      /\ op = "rewrite" => W3
      /\ op \in {"create", "newInode", "link"} => stack = <<>> /\ W6
      /\ op = "unlinkDir" => W4
      /\ op = "unlink" => W5
      /\ op = "freeBody" => W4 \/ W5
      /\ op = "freeHead" => W4 \/ W5 \/ (stack = <<>> /\ W7)
      /\ op = "release" => W5 \/ (stack = <<>> /\ W7)
      /\ op \in {"grab", "fill", "point"} => stack = <<>> /\ W7
  BY <1>5, <1>6
<1> QED BY <1>4, <1>7 DEF W1, W2, W3, W4, W5, W6, W7

LEMMA WhereFormat == ASSUME Ownership, Doing("format") PROVE AtFormat
<1>1. ~ \E list \in Lists, stack \in Stacks : At(list, stack)
  BY OpOf DEF At, Doing, Idle
<1> QED BY <1>1 DEF Ownership

LEMMA WhereIdle ==
  ASSUME Ownership, Idle PROVE \E list \in Lists : AtRest(list)
<1>1. ~ AtFormat
  BY OpOf, NoneWaits DEF Idle
<1>2. PICK list \in Lists, stack \in Stacks : At(list, stack)
  BY <1>1 DEF Ownership
<1> QED BY <1>2, OpOf DEF At, Idle

---------------------------------------------------------------------------
(* Arriving at a point again. *)

LEMMA Arrive ==
  ASSUME NEW list \in Lists, NEW stack \in Stacks, Waiting(disk', stack, list),
         \/ AtWalk(list, stack)' \/ AtScan(list, stack)' \/ AtRewrite(list, stack)'
         \/ AtRemoveDir(list, stack)' \/ AtRemoveFile(list, stack)'
         \/ stack = <<>> /\ (AtCreate(list)' \/ AtWrite(list)')
         \/ stack = <<>> /\ todo' = <<>> /\ AtRest(list)'
  PROVE  Ownership'
  BY DEF Ownership, At, Idle

LEMMA Settled ==
  ASSUME NEW given, NEW hand, NEW coming, NEW list,
         Owns(disk', given, hand, list), DirNames(disk'), OnFiles(disk', fd_table', coming)
  PROVE  Sound(given, hand, coming, list)'
  BY DEF Sound

LEMMA ToRest ==
  ASSUME NEW list \in Lists, todo' = <<>>,
         Owns(disk', {}, {}, list), DirNames(disk'), OnFiles(disk', fd_table', {})
  PROVE  Ownership'
<1>1. AtRest(list)'
  BY Settled DEF AtRest
<1> QED BY <1>1, Arrive, NoneWaits

(* A call ends, or the process does, with the disk as it was. *)
LEMMA StayAtRest ==
  ASSUME NEW list \in Lists, AtRest(list), todo' = <<>>, disk' = disk,
         \A fd \in FDs : fd_table'[fd] \in {0, fd_table[fd]}
  PROVE  Ownership'
<1>1. Owns(disk', {}, {}, list) /\ DirNames(disk') /\ OnFiles(disk, fd_table, {})
  BY DEF AtRest, Sound
<1>2. OnFiles(disk', fd_table', {})
  BY <1>1 DEF OnFiles
<1> QED BY <1>1, <1>2, ToRest

LEMMA FailAtRest ==
  ASSUME NEW list \in Lists, AtRest(list), NEW code, Fail(code) PROVE Ownership'
  BY StayAtRest DEF Fail, Finish, process

LEMMA DieAtRest ==
  ASSUME NEW list \in Lists, AtRest(list), Die PROVE Ownership'
<1>1. \A fd \in FDs : fd_table'[fd] \in {0, fd_table[fd]}
  BY DEF Die, NoFds
<1> QED BY <1>1, StayAtRest DEF Die

LEMMA RefuseAtRest ==
  ASSUME Ownership, NEW code, Refuse(code) PROVE Ownership'
<1>1. PICK list \in Lists : AtRest(list)
  BY WhereIdle DEF Refuse, Return
<1> QED BY <1>1, StayAtRest DEF Refuse, Return, Idle, process

---------------------------------------------------------------------------
(* The calls that handle the disk as a whole. *)

LEMMA Alone == ASSUME NEW a PROVE <<a>> \o <<>> = <<a>>
<1>1. <<a>> \in Seq({a})
  OBVIOUS
<1> QED BY <1>1, OnTop

LEMMA FormatNext ==
  ASSUME NEW i \in 1 .. NumBlocks, todo' = <<FormatAt(i)>>, ~ mounted', fd_table' = NoFds,
         \A b \in Addr : disk'[b] = IF b \in 1 .. i - 1 THEN FormatBlk(b) ELSE Blank
  PROVE  AtFormat'
<1> DEFINE P(j) == /\ todo' = <<FormatAt(j)>>
                   /\ ~ mounted'
                   /\ fd_table' = NoFds
                   /\ \A b \in Addr : disk'[b] = IF b \in 1 .. j - 1 THEN FormatBlk(b) ELSE Blank
<1>1. P(i)
  OBVIOUS
<1>2. (\E j \in 1 .. NumBlocks : P(j)) => AtFormat'
  BY Zenon DEF AtFormat
<1> HIDE DEF P
<1> QED BY <1>1, <1>2

LEMMA OwnMkfs ==
  ASSUME Inv, Mindful, Formats PROVE Ownership'
<1>1. ~ mounted /\ fd_table = NoFds /\ Mkfs
  BY DEF Mindful, Formats, FormatsWell, Keeps, Inv, UnmountedIsQuiet
<1>2. AtFormat'
  <2>1. todo' = <<FormatAt(1)>> /\ disk' = [b \in Addr |-> Blank]
        /\ mounted' = mounted /\ fd_table' = fd_table
    BY <1>1 DEF Mkfs, Begin, process
  <2>2. 1 \in 1 .. NumBlocks
    BY Bounds
  <2>3. \A b \in Addr : disk'[b] = IF b \in 1 .. 1 - 1 THEN FormatBlk(b) ELSE Blank
    BY <2>1
  <2>4. ~ mounted' /\ fd_table' = NoFds
    BY <1>1, <2>1
  <2>5. todo' = <<FormatAt(1)>>
    BY <2>1
  <2> QED BY <2>2, <2>3, <2>4, <2>5, FormatNext
<1> QED BY <1>2 DEF Ownership

LEMMA OwnFormat ==
  ASSUME Ownership, TypeOK, Format PROVE Ownership'
<1>1. PICK i \in 1 .. NumBlocks :
        /\ todo = <<FormatAt(i)>>
        /\ ~ mounted
        /\ fd_table = NoFds
        /\ \A b \in Addr : disk[b] = IF b \in 1 .. i - 1 THEN FormatBlk(b) ELSE Blank
  BY WhereFormat DEF Format, AtFormat
<1>2. Head(todo) = FormatAt(i) /\ Head(todo).at = i /\ Tail(todo) = <<>>
  BY <1>1 DEF FormatAt
<1>3. disk \in [Addr -> Sized] /\ mounted' = mounted /\ fd_table' = fd_table
  BY DEF TypeOK, Format, process
<1>4. CASE /\ i < NumBlocks
           /\ disk' = [disk EXCEPT ![i] = FormatBlk(i)]
           /\ Resume(<<FormatAt(i + 1)>>)
  <2>1. todo' = <<FormatAt(i + 1)>>
    BY <1>2, <1>4, Alone DEF Resume
  <2>0. i + 1 \in 1 .. NumBlocks
    BY <1>4, Bounds
  <2>2. \A b \in Addr : disk'[b] = IF b \in 1 .. (i + 1) - 1 THEN FormatBlk(b) ELSE Blank
    BY <1>1, <1>3, <1>4 DEF Addr
  <2>3. AtFormat'
    BY <1>1, <1>3, <2>0, <2>1, <2>2, FormatNext
  <2> QED BY <2>3 DEF Ownership
<1>5. CASE /\ i = NumBlocks
           /\ disk' = [disk EXCEPT ![SUPERBLOCK_DISKLOC] = FormatSuper]
           /\ Resume(<<>>)
  <2>1. todo' = <<>>
    BY <1>2, <1>5 DEF Resume
  <2>2. disk' = Formatted
    BY <1>1, <1>3, <1>5, Ends, SMTT(30) DEF Formatted, Addr
  <2>3. PICK list \in Lists : Owns(disk', {}, {}, list) /\ DirNames(disk')
    BY <2>2, FormattedOwns
  <2>4. OnFiles(disk', fd_table', {})
    BY <1>1, <1>3 DEF OnFiles, NoFds
  <2> QED BY <2>1, <2>3, <2>4, ToRest
<1> QED BY <1>2, <1>4, <1>5 DEF Format

LEMMA OwnMount ==
  ASSUME Ownership, Mount \/ MountOverflows \/ Unmount PROVE Ownership'
<1>1. Idle /\ UNCHANGED disk /\ todo' = <<>>
  BY DEF Mount, MountOverflows, Unmount, Refuse, Return, Die, Idle
<1>2. PICK list \in Lists : AtRest(list)
  BY <1>1, WhereIdle
<1>3. \A fd \in FDs : fd_table'[fd] \in {0, fd_table[fd]}
  BY DEF Mount, MountOverflows, Unmount, Refuse, Die, process, NoFds
<1> QED BY <1>1, <1>2, <1>3, StayAtRest

---------------------------------------------------------------------------
(* The calls on an open file that are one write. *)

LEMMA OwnCloseFile ==
  ASSUME Ownership, TypeOK, NEW fd \in FDs, CloseFile(fd) PROVE Ownership'
<1>1. CASE Refuse(ERR_INVALID_FD)
  BY <1>1, RefuseAtRest
<1>2. CASE fd_table' = [fd_table EXCEPT ![fd] = 0] /\ Return(TFS_SUCCESS)
           /\ UNCHANGED disk
  <2>1. PICK list \in Lists : AtRest(list)
    BY <1>2, WhereIdle DEF Return
  <2>2. \A g \in FDs : fd_table'[g] \in {0, fd_table[g]}
    BY <1>2 DEF TypeOK
  <2> QED BY <1>2, <2>1, <2>2, StayAtRest DEF Return, Idle
<1> QED BY <1>1, <1>2 DEF CloseFile

(* An inode in use gets another offset, or another name if it is a file.   *)
LEMMA OwnRewritten ==
  ASSUME Ownership, TypeOK, Idle, UNCHANGED <<todo, fd_table>>,
         \A b \in Addr : /\ disk'[b].type = disk[b].type
                         /\ disk'[b].kind = disk[b].kind
                         /\ disk'[b].ptr = disk[b].ptr
                         /\ disk'[b].next = disk[b].next
                         /\ disk[b].kind # "file" => disk'[b].name = disk[b].name
  PROVE  Ownership'
<1>1. PICK list \in Lists : AtRest(list)
  BY WhereIdle
<1>2. Owns(disk, {}, {}, list) /\ DirNames(disk) /\ OnFiles(disk, fd_table, {})
  BY <1>1 DEF AtRest, Sound
<1>3. disk \in Disks
  BY DEF TypeOK, Disks
<1>4. SameOwners(disk, disk')
  BY DEF SameOwners
<1>5. Owns(disk', {}, {}, list)
  BY <1>2, <1>3, <1>4, OwnsStay
<1>6. DirNames(disk')
  BY <1>2, <1>3, DiskFields, NamesStay DEF IsDirOn
<1>7. OnFiles(disk', fd_table', {})
  <2>1. SUFFICES ASSUME NEW fd \in FDs, fd_table[fd] # 0
                 PROVE  disk'[fd_table[fd]].kind = "file"
    BY DEF OnFiles
  <2>2. fd_table[fd] \in Addr /\ disk[fd_table[fd]].kind = "file"
    BY <1>2, <2>1 DEF OnFiles, TypeOK
  <2> QED BY <2>2
<1> QED BY <1>5, <1>6, <1>7, ToRest DEF Idle

LEMMA OpenIsFile ==
  ASSUME Ownership, TypeOK, Idle, NEW fd \in FDs, fd_table[fd] # 0
  PROVE  fd_table[fd] \in Addr /\ disk[fd_table[fd]].kind = "file"
<1>1. OnFiles(disk, fd_table, {})
  BY WhereIdle DEF AtRest, Sound
<1> QED BY <1>1 DEF OnFiles, TypeOK

LEMMA OwnNotReady ==
  ASSUME Ownership, NEW fd, NotReady(fd) PROVE Ownership'
  BY RefuseAtRest DEF NotReady

(* A write of another offset, name or pointer leaves the rest as it was.   *)
LEMMA OtherFields ==
  ASSUME NEW blk \in Sized, NEW v
  PROVE  /\ LET e == [blk EXCEPT !.off = v]
            IN  /\ e.type = blk.type /\ e.next = blk.next /\ e.kind = blk.kind
                /\ e.name = blk.name /\ e.ptr = blk.ptr
         /\ LET e == [blk EXCEPT !.name = v]
            IN  /\ e.type = blk.type /\ e.next = blk.next /\ e.kind = blk.kind
                /\ e.ptr = blk.ptr
         /\ LET e == [blk EXCEPT !.ptr = v]
            IN  /\ e.type = blk.type /\ e.next = blk.next /\ e.kind = blk.kind
                /\ e.name = blk.name /\ e.size = blk.size /\ e.off = blk.off
                /\ e.data = blk.data /\ e.ptr = v
  BY DEF Sized, Block

LEMMA OwnOffset ==
  ASSUME Ownership, TypeOK, Idle, UNCHANGED <<todo, fd_table>>, NEW fd \in FDs,
         NEW o, disk' = [disk EXCEPT ![fd_table[fd]].off = o]
  PROVE  Ownership'
<1> DEFINE n == fd_table[fd]
           blk == [disk[n] EXCEPT !.off = o]
<1>1. n \in Addr /\ disk[n] \in Sized /\ disk' = [disk EXCEPT ![n] = blk]
  BY DEF TypeOK
<1>2. /\ blk.type = disk[n].type /\ blk.next = disk[n].next /\ blk.kind = disk[n].kind
      /\ blk.name = disk[n].name /\ blk.ptr = disk[n].ptr
  BY <1>1, OtherFields
<1> HIDE DEF blk, n
<1>3. \A b \in Addr : disk'[b] = IF b = n THEN blk ELSE disk[b]
  BY <1>1 DEF TypeOK
<1> QED BY <1>2, <1>3, OwnRewritten

LEMMA OwnSeek ==
  ASSUME Ownership, TypeOK, NEW fd \in FDs, NEW offset, Seek(fd, offset)
  PROVE  Ownership'
<1>1. CASE \E code : Refuse(code)
  BY <1>1, RefuseAtRest
<1>2. CASE /\ disk' = [disk EXCEPT ![fd_table[fd]].off = offset]
           /\ Return(TFS_SUCCESS)
           /\ UNCHANGED process
  BY <1>2, OwnOffset DEF Return, process
<1> QED BY <1>1, <1>2, OwnNotReady DEF Seek

LEMMA OwnReadByte ==
  ASSUME Ownership, TypeOK, NEW fd \in FDs, ReadByte(fd) PROVE Ownership'
<1>1. CASE \E code : Refuse(code)
  BY <1>1, RefuseAtRest
<1>2. CASE /\ \E o : disk' = [disk EXCEPT ![fd_table[fd]].off = o]
           /\ Idle
           /\ UNCHANGED <<todo, process>>
  BY <1>2, OwnOffset DEF process
<1> QED BY <1>1, <1>2, OwnNotReady DEF ReadByte

LEMMA OwnRename ==
  ASSUME Ownership, TypeOK, NEW fd \in FDs, NEW name, Rename(fd, name)
  PROVE  Ownership'
<1>1. CASE \E code : Refuse(code)
  BY <1>1, RefuseAtRest
<1>2. CASE /\ Ready(fd)
           /\ disk' = [disk EXCEPT ![fd_table[fd]].name = name]
           /\ Return(TFS_SUCCESS)
           /\ UNCHANGED process
  <2>1. fd_table[fd] \in Addr /\ disk[fd_table[fd]].kind = "file"
    BY <1>2, OpenIsFile DEF Ready, Return
  <2> DEFINE n == fd_table[fd]
             blk == [disk[n] EXCEPT !.name = name]
  <2>2. disk[n] \in Sized /\ disk' = [disk EXCEPT ![n] = blk]
    BY <1>2, <2>1 DEF TypeOK
  <2>3. /\ blk.type = disk[n].type /\ blk.next = disk[n].next /\ blk.kind = disk[n].kind
        /\ blk.ptr = disk[n].ptr
    BY <2>2, OtherFields
  <2> HIDE DEF blk, n
  <2>4. \A b \in Addr : disk'[b] = IF b = n THEN blk ELSE disk[b]
    BY <2>2 DEF TypeOK
  <2>5. disk[n].kind = "file"
    BY <2>1 DEF n
  <2> QED BY <1>2, <2>3, <2>4, <2>5, OwnRewritten DEF Return, process
<1> QED BY <1>1, <1>2, OwnNotReady DEF Rename

---------------------------------------------------------------------------
(* A path is looked up. *)

LEMMA OwnPathCall ==
  ASSUME Ownership, TypeOK', NEW call \in Lookups, NEW path, PathCall(call, path),
         call = "openFile" => OpensWell(path)
  PROVE  Ownership'
<1>1. CASE Refuse(ERR_NO_DISK_MOUNTED)
  BY <1>1, RefuseAtRest
<1>2. CASE /\ Begin(<<Walk(call, path, 1, SUPERBLOCK_DISKLOC)>>)
           /\ UNCHANGED <<disk, process>>
  <2> DEFINE w == Walk(call, path, 1, SUPERBLOCK_DISKLOC)
  <2>1. /\ w.op = "walk" /\ w.call = call /\ w.path = path /\ w.at = 1 /\ w.dir = 0
        /\ todo' = <<w>>
    BY <1>2, Ends DEF Walk, Begin
  <2>2. w \in WalkSteps
    BY <2>1 DEF TypeOK, Steps, ScanSteps, WriteSteps, NewSteps, FreeSteps
  <2>3. PICK list \in Lists : AtRest(list)
    BY <1>2, WhereIdle DEF Begin
  <2>4. AtRest(list)' /\ UNCHANGED <<disk, fd_table>>
    BY <1>2, <2>3 DEF AtRest, Sound, process
  <2>5. Leads(disk', w.path, w.at - 1, w.dir)
    BY <2>1, LeadsStart
  <2>6. w.call = "openFile" =>
          /\ Keeps("fdsRoom", ~ FdsFull')
          /\ Keeps("filesOnly", ~ NamesADir(w.path)')
    <3>1. FdsFull' = FdsFull /\ NamesADir(path)' = NamesADir(path)
      BY <2>4 DEF FdsFull, NamesADir, Resolve, Child, Matches
    <3> QED BY <2>1, <3>1 DEF OpensWell, Keeps
  <2>7. todo' = <<w>> \o <<>>
    BY <2>1, Alone
  <2> HIDE DEF w
  <2>8. AtWalk(list, <<>>)'
    BY <2>2, <2>4, <2>5, <2>6, <2>7 DEF AtWalk, LooksUp, Keeps
  <2> QED BY <2>8, Arrive, NoneWaits
<1> QED BY <1>1, <1>2 DEF PathCall

LEMMA OwnRemoveAllOfRoot ==
  ASSUME Ownership, TypeOK, TypeOK', RemoveAllOfRoot, RootStays PROVE Ownership'
<1> DEFINE s == Scan(<<>>, SUPERBLOCK_DISKLOC, disk[SUPERBLOCK_DISKLOC], 1)
<1>1. /\ s.op = "scan" /\ s.path = <<>> /\ s.dir = 0 /\ s.copy = disk[0] /\ s.at = 1
      /\ todo' = <<s>> /\ UNCHANGED <<disk, fd_table>> /\ Idle
  BY Ends DEF Scan, RemoveAllOfRoot, Begin, process
<1>2. s \in ScanSteps
  BY <1>1 DEF TypeOK, Steps, WalkSteps, WriteSteps, NewSteps, FreeSteps
<1>3. PICK list \in Lists : AtRest(list)
  BY <1>1, WhereIdle
<1>4. AtRest(list)'
  BY <1>1, <1>3 DEF AtRest, Sound
<1>5. Leads(disk', s.path, Len(s.path), s.dir)
  BY <1>1, LeadsStart
<1>6. Keeps("rootStays", \A i \in 1 .. Slots : s.copy.ptr[i] = 0)
  BY <1>1, Ends DEF RootStays, Keeps, Empty
<1>7. todo' = <<s>> \o <<>>
  BY <1>1, Alone
<1>8. s.copy = disk'[s.dir]
  BY <1>1
<1> HIDE DEF s
<1>9. AtScan(list, <<>>)'
  BY <1>1, <1>2, <1>4, <1>5, <1>6, <1>7, <1>8 DEF AtScan, Scans, Keeps
<1> QED BY <1>9, Arrive, NoneWaits

(* What a step of a call that is at work on a stack knows. *)
LEMMA OnStack ==
  ASSUME TypeOK, NEW stack \in Stacks, NEW a, todo = <<a>> \o stack
  PROVE  /\ todo # <<>> /\ Head(todo) = a /\ Tail(todo) = stack /\ a \in Steps
         /\ \A steps : Resume(steps) => todo' = steps \o stack
<1>1. todo # <<>> /\ Head(todo) = a /\ Tail(todo) = stack
  BY Tops
<1>2. a \in Steps
  BY <1>1, HeadAndTail DEF TypeOK
<1> QED BY <1>1, <1>2 DEF Resume

LEMMA NextOnStack ==
  ASSUME TypeOK', NEW stack \in Stacks, NEW a, todo' = <<a>> \o stack
  PROVE  a \in Steps
<1>1. todo' # <<>> /\ Head(todo') = a
  BY Tops
<1> QED BY <1>1, HeadAndTail DEF TypeOK

LEMMA WhereWalk ==
  ASSUME Ownership, TypeOK, Doing("walk"), NEW w, w = Head(todo)
  PROVE  \E list \in Lists, stack \in Stacks :
           Waiting(disk, stack, list) /\ w \in WalkSteps /\ LooksUp(w, list, stack)
<1>1. PICK list \in Lists, stack \in Stacks :
        Waiting(disk, stack, list) /\ AtWalk(list, stack)
  BY Where
<1>2. PICK v \in WalkSteps : LooksUp(v, list, stack)
  BY <1>1 DEF AtWalk
<1>3. v = w
  BY <1>2, Tops DEF LooksUp
<1> QED BY <1>1, <1>2, <1>3

LEMMA WalkIs ==
  ASSUME NEW w \in WalkSteps
  PROVE  /\ w.call \in Lookups /\ w.path \in AnyPath /\ w.dir \in Addr
         /\ w.at \in 1 .. Len(w.path) /\ Len(w.path) \in Nat /\ w.at - 1 \in Nat
         /\ w.at \in Nat /\ w.path # <<>>
<1>1. w.call \in Lookups /\ w.path \in AnyPath /\ w.dir \in Addr
      /\ w.at \in 1 .. Len(w.path)
  BY DEF WalkSteps
<1>2. Len(w.path) \in Nat
  BY <1>1 DEF AnyPath
<1> QED BY <1>1, <1>2

(* At rest a directory has inodes, and a pointer of it counts. *)
LEMMA EntryIs ==
  ASSUME TypeOK, NEW list \in Lists, AtRest(list), NEW x \in Addr, IsDirOn(disk, x),
         NEW i \in 1 .. Slots, disk[x].ptr[i] # 0
  PROVE  /\ Counts(disk, {}, x, i) /\ disk[x].ptr[i] \in Addr /\ disk[x].kind # "file"
         /\ disk[disk[x].ptr[i]].type = "INODE"
         /\ disk[disk[x].ptr[i]].kind \in {"file", "dir"}
<1> DEFINE n == disk[x].ptr[i]
<1>1. Owns(disk, {}, {}, list) /\ disk \in Disks
  BY DEF AtRest, Sound, TypeOK, Disks
<1>2. Counts(disk, {}, x, i) /\ n \in Addr
  BY <1>1, DiskFields DEF Counts
<1>3. disk[x].kind # "file"
  BY <1>1, Ends DEF IsDirOn, Owns, Shaped
<1>4. disk[n].type = "INODE"
  BY <1>1, <1>2, <1>3, OneOwnerOf
<1>5. n # 0
  OBVIOUS
<1> HIDE DEF n
<1>6. disk[n].kind # "none"
  BY <1>1, <1>2, <1>4, <1>5, Ends DEF Owns, Shaped
<1>7. disk[n].kind \in Kinds
  BY <1>1, <1>2, Fields DEF Disks
<1> QED BY <1>2, <1>3, <1>4, <1>6, <1>7 DEF n, Kinds

LEMMA HitDir ==
  ASSUME TypeOK, NEW list \in Lists, AtRest(list), NEW w \in WalkSteps,
         Leads(disk, w.path, w.at - 1, w.dir),
         NEW child, Hit(w, child)
  PROVE  /\ child \in Addr /\ child # 0 /\ disk[child].kind \in {"file", "dir"}
         /\ disk[child].name = w.path[w.at]
         /\ IsDirOn(disk, w.dir)
         /\ \E i \in 1 .. Slots : disk[w.dir].ptr[i] = child
         /\ disk[child].kind # "file" => Leads(disk, w.path, w.at, child)
<1>1. w.dir \in Addr /\ w.at - 1 \in Nat /\ (w.at - 1) + 1 = w.at
  BY WalkIs
<1>2. IsDirOn(disk, w.dir)
  BY <1>1, LeadsToDir
<1>3. PICK i \in 1 .. Slots :
        First(Named(disk, w.dir, w.path[w.at]), i) /\ child = disk[w.dir].ptr[i]
  BY DEF Hit, Matches, Named, Name
<1>4. disk[w.dir].ptr[i] # 0 /\ disk[child].name = w.path[w.at]
  BY <1>3 DEF First, Named
<1>5. child \in Addr /\ disk[child].kind \in {"file", "dir"}
  BY <1>1, <1>2, <1>3, <1>4, EntryIs
<1>6. ASSUME disk[child].kind # "file" PROVE Leads(disk, w.path, w.at, child)
  <2>1. Hop(disk, w.dir, w.path[(w.at - 1) + 1], child)
    BY <1>1, <1>3, <1>5, <1>6 DEF Hop
  <2> QED BY <1>1, <1>5, <2>1, LeadsOn
<1> QED BY <1>2, <1>3, <1>4, <1>5, <1>6

LEMMA OwnWalkRefuses ==
  ASSUME Ownership, TypeOK, WalkRefuses PROVE Ownership'
<1>1. PICK list \in Lists : AtRest(list)
  BY WhereWalk DEF WalkRefuses, Readable, LooksUp
<1> QED BY <1>1, FailAtRest DEF WalkRefuses

LEMMA OwnWalkOn ==
  ASSUME Ownership, TypeOK, TypeOK', WalkOn PROVE Ownership'
<1>0. PICK w : w = Head(todo)
  OBVIOUS
<1>1. Doing("walk") /\ UNCHANGED <<disk, process>>
  BY DEF WalkOn, Readable
<1>b. PICK list \in Lists, stack \in Stacks :
        Waiting(disk, stack, list) /\ w \in WalkSteps /\ LooksUp(w, list, stack)
  BY <1>0, <1>1, WhereWalk
<1>2. /\ todo = <<w>> \o stack
      /\ AtRest(list)
      /\ Leads(disk, w.path, w.at - 1, w.dir)
      /\ w.call = "openFile" =>
           /\ Keeps("fdsRoom", ~ FdsFull)
           /\ Keeps("filesOnly", ~ NamesADir(w.path))
      /\ stack # <<>> =>
           /\ w.call \in {"removeDir", "removeAll"}
           /\ \E n \in Addr : Pending(disk, stack[1], n, w.path)
  BY <1>b DEF LooksUp
<1>3. PICK child \in Addr :
        /\ Hit(w, child)
        /\ disk[child].kind # "file"
        /\ Resume(<<Walk(w.call, w.path, w.at + 1, child)>>)
  BY <1>0 DEF WalkOn
<1>a. PICK v : v = Walk(w.call, w.path, w.at + 1, child)
  OBVIOUS
<1>4. v.op = "walk" /\ v.call = w.call /\ v.path = w.path /\ v.at = w.at + 1 /\ v.dir = child
  BY <1>a DEF Walk
<1>5. todo' = <<v>> \o stack
  BY <1>a, <1>2, <1>3, OnStack
<1>6. Leads(disk, w.path, w.at, child) /\ w.at \in Nat
  BY <1>b, <1>2, <1>3, HitDir, WalkIs
<1>7. v \in WalkSteps
  BY <1>4, <1>5, NextOnStack, StepOf
<1>8. Leads(disk', v.path, v.at - 1, v.dir)
  <2>1. v.at - 1 = w.at /\ disk' = disk
    BY <1>1, <1>4, <1>6
  <2> QED BY <1>4, <1>6, <2>1
<1>9. AtRest(list)' /\ Waiting(disk', stack, list)
  BY <1>1, <1>2, <1>b DEF AtRest, Sound, process
<1>10. v.call = "openFile" =>
         /\ Keeps("fdsRoom", ~ FdsFull')
         /\ Keeps("filesOnly", ~ NamesADir(v.path)')
  <2>1. FdsFull' = FdsFull /\ NamesADir(w.path)' = NamesADir(w.path)
    BY <1>1 DEF FdsFull, NamesADir, Resolve, Child, Matches, process
  <2> QED BY <1>2, <1>4, <2>1 DEF Keeps
<1>11. stack # <<>> =>
         /\ v.call \in {"removeDir", "removeAll"}
         /\ \E n \in Addr : Pending(disk', stack[1], n, v.path)
  BY <1>1, <1>2, <1>4
<1>12. AtWalk(list, stack)'
  BY <1>5, <1>7, <1>8, <1>9, <1>10, <1>11 DEF AtWalk, LooksUp, Keeps
<1> QED BY <1>9, <1>12, Arrive

LEMMA OwnOpenFound ==
  ASSUME Ownership, TypeOK, Mindful, OpenFound PROVE Ownership'
<1>0. PICK w : w = Head(todo)
  OBVIOUS
<1>1. Doing("walk") /\ w.at = Len(w.path) /\ w.call = "openFile"
  BY <1>0 DEF OpenFound, Readable, Last
<1>2. PICK list \in Lists, stack \in Stacks : w \in WalkSteps /\ LooksUp(w, list, stack)
  BY <1>0, <1>1, WhereWalk
<1>3. /\ AtRest(list)
      /\ Leads(disk, w.path, w.at - 1, w.dir)
      /\ ~ NamesADir(w.path)
  BY <1>1, <1>2 DEF LooksUp, Mindful, Keeps
<1>4. PICK child \in Addr :
        /\ Hit(w, child)
        /\ \/ \E fd \in FDs :
                /\ NextFd(fd)
                /\ fd_table_index' = fd
                /\ fd_table' = [fd_table EXCEPT ![fd] = child]
                /\ Finish(fd)
                /\ UNCHANGED <<disk, mounted>>
           \/ FdsFull /\ Fail(ERR_OUT_OF_FDS)
           \/ FdsFull /\ Die
  BY <1>0 DEF OpenFound
<1>5. disk[child].kind = "file"
  <2>1. SUFFICES ASSUME disk[child].kind # "file" PROVE FALSE
    OBVIOUS
  <2>2. Len(w.path) \in Nat
    BY <1>2, WalkIs
  <2>3. /\ child # 0 /\ disk[child].kind \in {"file", "dir"}
        /\ Leads(disk, w.path, Len(w.path), child)
    BY <1>1, <1>2, <1>3, <1>4, <2>1, HitDir
  <2>4. Resolve(w.path) = child
    BY <2>2, <2>3, ResolveIs
  <2> QED BY <1>3, <2>1, <2>3, <2>4 DEF NamesADir
<1>6. CASE \E fd \in FDs :
             /\ fd_table' = [fd_table EXCEPT ![fd] = child]
             /\ Finish(fd)
             /\ UNCHANGED <<disk, mounted>>
  <2>1. Owns(disk', {}, {}, list) /\ DirNames(disk') /\ OnFiles(disk, fd_table, {})
    BY <1>3, <1>6 DEF AtRest, Sound
  <2>2. OnFiles(disk', fd_table', {})
    BY <1>5, <1>6, <2>1 DEF OnFiles, TypeOK
  <2>3. todo' = <<>>
    BY <1>6 DEF Finish
  <2> QED BY <2>1, <2>2, <2>3, ToRest
<1> QED BY <1>3, <1>4, <1>6, FailAtRest, DieAtRest

(* The entry a nested call of tfs_removeAll finds is the one its caller is *)
(* at: no other directory there has the name.                              *)
LEMMA Target ==
  ASSUME TypeOK, NEW list \in Lists, NEW stack \in Stacks, Waiting(disk, stack, list),
         NEW w \in WalkSteps, LooksUp(w, list, stack), w.at = Len(w.path), stack # <<>>,
         NEW i \in 1 .. Slots, NEW child, disk[w.dir].ptr[i] = child,
         child # 0, disk[child].kind = "dir", disk[child].name = w.path[w.at]
  PROVE  /\ w.dir = stack[1].dir /\ i = stack[1].at
         /\ Pending(disk, stack[1], child, w.path)
<1>0. PICK r, path : r = stack[1] /\ path = w.path
  OBVIOUS
<1>1. /\ 1 \in 1 .. Len(stack) /\ r \in ScanSteps /\ r.dir \in Addr
      /\ r.path \in AnyPath /\ Len(r.path) \in Nat
  BY <1>0, StackTop, StackFacts
<1>2. r.at \in 1 .. Slots /\ Leads(disk, r.path, Len(r.path), r.dir)
  BY <1>0, <1>1 DEF Waiting, WaitsFor
<1>a. AtRest(list) /\ Leads(disk, path, w.at - 1, w.dir)
  BY <1>0 DEF LooksUp
<1>b. PICK n \in Addr : Pending(disk, r, n, path)
  BY <1>0 DEF LooksUp
<1>3. /\ disk[r.dir].ptr[r.at] = n /\ n # 0 /\ disk[n].kind = "dir"
      /\ path = Append(r.path, disk[n].name)
  BY <1>b DEF Pending
<1>4. /\ w.at - 1 = Len(r.path) /\ path[w.at] = disk[n].name
      /\ \A j \in 1 .. Len(r.path) : path[j] = r.path[j]
  BY <1>0, <1>1, <1>3 DEF AnyPath
<1>5. w.dir = r.dir
  BY <1>1, <1>2, <1>4, <1>a, LeadsOne
<1>6. IsDirOn(disk, r.dir)
  BY <1>1, <1>2, LeadsToDir
<1>7. i = r.at
  <2>1. DirNames(disk)
    BY <1>a DEF AtRest, Sound
  <2>2. /\ disk[r.dir].ptr[i] # 0 /\ disk[disk[r.dir].ptr[i]].kind = "dir"
        /\ disk[disk[r.dir].ptr[i]].name = path[w.at]
    BY <1>0, <1>5
  <2>3. /\ disk[r.dir].ptr[r.at] # 0 /\ disk[disk[r.dir].ptr[r.at]].kind = "dir"
        /\ disk[disk[r.dir].ptr[r.at]].name = path[w.at]
    BY <1>3, <1>4
  <2> QED BY <1>1, <1>2, <1>6, <2>1, <2>2, <2>3, Zenon DEF DirNames
<1>8. child = n
  BY <1>3, <1>5, <1>7
<1> QED BY <1>0, <1>5, <1>7, <1>8, <1>b

LEMMA OwnDirFound ==
  ASSUME Ownership, TypeOK, TypeOK', DirFound PROVE Ownership'
<1>0. PICK w : w = Head(todo)
  OBVIOUS
<1>1. Doing("walk") /\ w.at = Len(w.path) /\ UNCHANGED <<disk, process>>
  BY <1>0 DEF DirFound, Readable, Last
<1>2. PICK list \in Lists, stack \in Stacks :
        Waiting(disk, stack, list) /\ w \in WalkSteps /\ LooksUp(w, list, stack)
  BY <1>0, <1>1, WhereWalk
<1>3. /\ AtRest(list) /\ todo = <<w>> \o stack
      /\ Leads(disk, w.path, w.at - 1, w.dir)
      /\ stack # <<>> => \E n \in Addr : Pending(disk, stack[1], n, w.path)
  BY <1>2 DEF LooksUp
<1>4. PICK child \in Addr :
        /\ Hit(w, child)
        /\ disk[child].kind # "file"
        /\ \/ \E code : Finish(code)
           \/ /\ Empty(disk[child].ptr) = 1 .. Slots
              /\ Resume(<<FreeBody(child), UnlinkDir(child, w.dir)>>)
           \/ Resume(<<Scan(w.path, child, disk[child], 1)>>)
  BY <1>0 DEF DirFound
<1>5. /\ child # 0 /\ disk[child].kind = "dir" /\ disk[child].name = w.path[w.at]
      /\ IsDirOn(disk, w.dir) /\ Leads(disk, w.path, w.at, child)
  BY <1>2, <1>3, <1>4, HitDir
<1>6. PICK i \in 1 .. Slots : disk[w.dir].ptr[i] = child
  BY <1>2, <1>3, <1>4, HitDir
<1>7. /\ w.path \in AnyPath /\ Len(w.path) \in Nat /\ w.dir \in Addr /\ w.at \in Nat
      /\ w.path # <<>>
  BY <1>2, WalkIs
<1>8. stack # <<>> => /\ w.dir = stack[1].dir /\ i = stack[1].at
                      /\ Pending(disk, stack[1], child, w.path)
  BY <1>1, <1>2, <1>5, <1>6, Target
<1>9. AtRest(list)' /\ Waiting(disk', stack, list)
  BY <1>1, <1>2, <1>3 DEF AtRest, Sound, process
<1>10. CASE \E code : Finish(code)
  BY <1>1, <1>3, <1>10, FailAtRest DEF Fail
<1>11. CASE /\ Empty(disk[child].ptr) = 1 .. Slots
            /\ Resume(<<FreeBody(child), UnlinkDir(child, w.dir)>>)
  <2>1. todo' = <<FreeBody(child), UnlinkDir(child, w.dir)>> \o stack
    BY <1>3, <1>11, OnStack
  <2>2. Removes(child, w.dir, i, stack)'
    BY <1>1, <1>5, <1>6, <1>7, <1>8 DEF Removes, InDir
  <2>3. \A j \in 1 .. Slots : disk'[child].ptr[j] = 0
    BY <1>1, <1>11 DEF Empty
  <2>4. disk'[child].kind = "dir"
    BY <1>1, <1>5
  <2>5. AtRemoveDir(list, stack)'
    BY <1>7, <1>9, <2>1, <2>2, <2>3, <2>4 DEF AtRemoveDir, DirBody
  <2> QED BY <1>9, <2>5, Arrive
<1>12. CASE Resume(<<Scan(w.path, child, disk[child], 1)>>)
  <2>0. PICK s : s = Scan(w.path, child, disk[child], 1)
    OBVIOUS
  <2>1. /\ s.op = "scan" /\ s.path = w.path /\ s.dir = child /\ s.copy = disk[child]
        /\ s.at = 1
    BY <2>0 DEF Scan
  <2>2. todo' = <<s>> \o stack
    BY <1>3, <1>12, <2>0, OnStack
  <2>3. s \in ScanSteps
    BY <2>1, <2>2, NextOnStack, StepOf
  <2>4. Leads(disk', s.path, Len(s.path), s.dir)
    BY <1>1, <1>5, <2>1
  <2>5. s.copy = disk'[s.dir] /\ s.dir # SUPERBLOCK_DISKLOC
    BY <1>1, <1>5, <2>1, Ends
  <2>6. stack # <<>> => Pending(disk', stack[1], s.dir, s.path)
    BY <1>1, <1>8, <2>1
  <2>7. Scans(s, list, stack)'
    BY <1>9, <2>1, <2>2, <2>4, <2>5, <2>6 DEF Scans
  <2>8. AtScan(list, stack)'
    BY <2>3, <2>7 DEF AtScan
  <2> QED BY <1>9, <2>8, Arrive
<1> QED BY <1>4, <1>10, <1>11, <1>12

LEMMA OwnNotFound ==
  ASSUME Ownership, TypeOK, TypeOK', NotFound PROVE Ownership'
<1>0. PICK w : w = Head(todo)
  OBVIOUS
<1>1. Doing("walk") /\ w.at = Len(w.path) /\ UNCHANGED <<disk, process>> /\ NoHit(w)
  BY <1>0 DEF NotFound, Readable, Last
<1>2. PICK list \in Lists, stack \in Stacks : w \in WalkSteps /\ LooksUp(w, list, stack)
  BY <1>0, <1>1, WhereWalk
<1>3. PICK kind : /\ \/ kind = "file" /\ w.call = "openFile"
                     \/ kind = "dir" /\ w.call = "createDir"
                  /\ Resume(<<Create(kind, Name(w), w.dir)>>)
  BY <1>0 DEF NotFound
<1>4. /\ stack = <<>> /\ AtRest(list) /\ todo = <<w>> \o stack
      /\ Leads(disk, w.path, w.at - 1, w.dir)
      /\ kind = "file" => Keeps("fdsRoom", ~ FdsFull)
  BY <1>2, <1>3 DEF LooksUp
<1>5. PICK c : c = Create(kind, Name(w), w.dir)
  OBVIOUS
<1>6. c.op = "create" /\ c.kind = kind /\ c.name = Name(w) /\ c.dir = w.dir
  BY <1>5 DEF Create
<1>7. todo' = <<c>> \o <<>>
  BY <1>3, <1>4, <1>5, OnStack
<1>8. todo' = <<c>>
  BY <1>7, Alone
<1>9. c \in NewSteps
  BY <1>4, <1>6, <1>7, NextOnStack, StepOf DEF NewSteps
<1>10. InDir(c.dir)'
  BY <1>1, <1>2, <1>4, <1>6, WalkIs, LeadsToDir DEF InDir
<1>11. AtRest(list)'
  BY <1>1, <1>4 DEF AtRest, Sound, process
<1>12. Named(disk', c.dir, c.name) = {}
  BY <1>1, <1>6 DEF NoHit, Matches, Named
<1>13. c.kind = "file" => Keeps("fdsRoom", ~ FdsFull')
  BY <1>1, <1>4, <1>6 DEF Keeps, FdsFull, process
<1>14. AtCreate(list)'
  BY <1>6, <1>8, <1>9, <1>10, <1>11, <1>12, <1>13 DEF AtCreate, Creates, Keeps
<1> QED BY <1>14, Arrive, NoneWaits

---------------------------------------------------------------------------
(* Writes, block by block. *)

WithPtrs(d, p, q) == [d EXCEPT ![p].ptr = q]
WithPtr(d, p, k, v) == [d EXCEPT ![p].ptr[k] = v]

LEMMA PtrsWrite ==
  ASSUME NEW d \in Disks, NEW p \in Addr, NEW q, NEW e, e = WithPtrs(d, p, q)
  PROVE  /\ \A b \in Addr : Alike(d[b], e[b]) /\ e[b].next = d[b].next
         /\ e[p].ptr = q
         /\ \A b \in Addr \ {p} : e[b] = d[b]
<1> DEFINE blk == [d[p] EXCEPT !.ptr = q]
<1>1. d[p] \in Sized /\ e = [d EXCEPT ![p] = blk]
  BY DEF Disks, WithPtrs
<1>2. /\ blk.type = d[p].type /\ blk.next = d[p].next /\ blk.kind = d[p].kind
      /\ blk.name = d[p].name /\ blk.size = d[p].size /\ blk.off = d[p].off
      /\ blk.data = d[p].data /\ blk.ptr = q
  BY <1>1, OtherFields
<1> HIDE DEF blk
<1>3. \A b \in Addr : e[b] = IF b = p THEN blk ELSE d[b]
  BY <1>1 DEF Disks
<1> QED BY <1>2, <1>3 DEF Alike

LEMMA PtrWrite ==
  ASSUME NEW d \in Disks, NEW p \in Addr, NEW k \in 1 .. Slots, NEW v,
         NEW e, e = WithPtr(d, p, k, v)
  PROVE  /\ \A b \in Addr : Alike(d[b], e[b]) /\ e[b].next = d[b].next
         /\ e[p].ptr[k] = v
         /\ \A b \in Addr, i \in 1 .. Slots :
              b # p \/ i # k => e[b].ptr[i] = d[b].ptr[i]
<1>0. PICK q : q = [d[p].ptr EXCEPT ![k] = v]
  OBVIOUS
<1>1. d[p].ptr \in Ptrs /\ e = WithPtrs(d, p, q)
  BY <1>0, DiskFields DEF WithPtr, WithPtrs
<1>2. q[k] = v /\ \A i \in 1 .. Slots : i # k => q[i] = d[p].ptr[i]
  BY <1>0, <1>1 DEF Ptrs
<1>3. /\ \A b \in Addr : Alike(d[b], e[b]) /\ e[b].next = d[b].next
      /\ e[p].ptr = q
      /\ \A b \in Addr \ {p} : e[b] = d[b]
  BY <1>1, PtrsWrite
<1> QED BY <1>2, <1>3

LEMMA HeadWrite ==
  ASSUME NEW d \in Disks, NEW m, NEW e, e = WithHead(d, m)
  PROVE  /\ \A b \in Addr : Alike(d[b], e[b]) /\ e[b].ptr = d[b].ptr
         /\ \A b \in Addr \ {0} : e[b] = d[b]
         /\ e[0].next = m /\ SameTree(d, e)
<1>1. /\ \A b \in Addr : Alike(d[b], e[b]) /\ e[b].ptr = d[b].ptr
      /\ \A b \in Addr \ {0} : e[b] = d[b]
      /\ e[0].next = m
  <2> DEFINE blk == [d[0] EXCEPT !.next = m]
  <2>1. d[0] \in Sized /\ e = [d EXCEPT ![0] = blk]
    BY Ends DEF Disks, WithHead
  <2>2. /\ blk.type = d[0].type /\ blk.next = m /\ blk.kind = d[0].kind
        /\ blk.name = d[0].name /\ blk.size = d[0].size /\ blk.off = d[0].off
        /\ blk.data = d[0].data /\ blk.ptr = d[0].ptr
    BY <2>1 DEF Sized, Block
  <2> HIDE DEF blk
  <2>3. \A b \in Addr : e[b] = IF b = 0 THEN blk ELSE d[b]
    BY <2>1 DEF Disks
  <2> QED BY <2>2, <2>3, Ends DEF Alike
<1> QED BY <1>1 DEF SameTree, Alike

LEMMA BlockWrite ==
  ASSUME NEW d \in Disks, NEW n \in Addr, NEW blk, NEW e, e = [d EXCEPT ![n] = blk]
  PROVE  e[n] = blk /\ \A b \in Addr \ {n} : e[b] = d[b]
  BY DEF Disks

(* The same tree has the same names, directories and files. *)
LEMMA TreeStays ==
  ASSUME NEW d \in Disks, NEW e, SameTree(d, e)
  PROVE  /\ DirNames(d) => DirNames(e)
         /\ \A x \in Addr : IsDirOn(d, x) <=> IsDirOn(e, x)
         /\ \A x \in Addr : \A name : Named(e, x, name) = Named(d, x, name)
         /\ \A fds \in [FDs -> Addr] : \A coming :
              OnFiles(d, fds, coming) => OnFiles(e, fds, coming)
<1>1. \A b \in Addr : e[b].kind = d[b].kind /\ e[b].name = d[b].name /\ e[b].ptr = d[b].ptr
  BY DEF SameTree
<1>2. \A x \in Addr : IsDirOn(d, x) <=> IsDirOn(e, x)
  BY <1>1 DEF IsDirOn
<1>3. \A x \in Addr, i \in 1 .. Slots : d[x].ptr[i] \in Addr
  BY DiskFields
<1>4. DirNames(d) => DirNames(e)
  BY <1>1, <1>2, <1>3, NamesStay
<1>5. \A x \in Addr : \A name : Named(e, x, name) = Named(d, x, name)
  BY <1>1, <1>3 DEF Named
<1>6. \A fds \in [FDs -> Addr] : \A coming :
        OnFiles(d, fds, coming) => OnFiles(e, fds, coming)
  BY <1>1 DEF OnFiles
<1> QED BY <1>2, <1>4, <1>5, <1>6

---------------------------------------------------------------------------
(* A new inode. *)

LEMMA OwnPopInode ==
  ASSUME Ownership, TypeOK, TypeOK', PopInode PROVE Ownership'
<1>0. Doing("create")
  BY DEF PopInode
<1>1. PICK list \in Lists : AtCreate(list)
  BY <1>0, Where
<1>b. PICK c \in NewSteps :
        /\ todo = <<c>> /\ InDir(c.dir)
        /\ Creates(c, list) \/ WritesInode(c, list) \/ Links(c, list)
  BY <1>1 DEF AtCreate
<1>c. c.op = "create"
  BY <1>0, <1>b DEF Doing
<1>a. todo = <<c>> /\ InDir(c.dir) /\ Creates(c, list)
  BY <1>b, <1>c DEF WritesInode, Links
<1>2. /\ todo = <<c>>
      /\ InDir(c.dir)
      /\ AtRest(list)
      /\ Named(disk, c.dir, c.name) = {}
      /\ c.kind = "file" => Keeps("fdsRoom", ~ FdsFull)
  BY <1>a DEF Creates
<1>3. /\ Head(todo) = c /\ c.op = "create" /\ todo = <<c>> \o <<>>
      /\ \A steps : Resume(steps) => todo' = steps \o <<>>
  BY <1>0, <1>2, Alone, OnStack, NoneWaits DEF Doing
<1>4. /\ Owns(disk, {}, {}, list) /\ DirNames(disk) /\ OnFiles(disk, fd_table, {})
      /\ disk \in Disks /\ fd_table \in [FDs -> Addr] /\ c.dir \in Addr
  BY <1>2 DEF AtRest, Sound, TypeOK, Disks, InDir
<1>5. PICK b : b = FreePtr
  OBVIOUS
<1>6. CASE b = 0
  BY <1>2, <1>5, <1>6, FailAtRest DEF PopInode
<1>7. CASE b # 0
  <2>1. disk' = [disk EXCEPT ![0].next = disk[disk[0].next].next] /\ b = disk[0].next
    BY <1>5, <1>7, Ends DEF PopInode, Fail, Popped, FreePtr
  <2>2. list # <<>> /\ b \in Addr
    BY <1>4, <1>7, <2>1, ListFacts, DiskFields, Ends DEF Owns
  <2>3. PICK rest : rest = Tail(list)
    OBVIOUS
  <2>4. /\ rest \in Lists /\ Owns(disk', {}, {b}, rest) /\ disk'[b].type = "FREE"
    BY <1>4, <2>1, <2>2, <2>3, Pop DEF WithHead
  <2>5. SameTree(disk, disk')
    BY <1>4, <2>1, HeadWrite DEF WithHead
  <2>6. /\ DirNames(disk') /\ OnFiles(disk', fd_table, {}) /\ IsDirOn(disk', c.dir)
        /\ Named(disk', c.dir, c.name) = {}
    BY <1>2, <1>4, <2>5, TreeStays DEF InDir
  <2>7. b # c.dir
    <3>1. disk'[b].kind = "none"
      BY <1>7, <2>2, <2>4, Ends DEF Owns, Shaped
    <3> QED BY <1>7, <2>6, <3>1, Ends DEF IsDirOn
  <2>8. CASE /\ c.kind = "file"
             /\ FdsFull
             /\ Finish(ERR_OUT_OF_FDS)
             /\ UNCHANGED process
    <3>1. ~ LosesNone
      BY <1>2, <2>8 DEF Keeps, LosesNone
    <3>2. Owns(disk', {}, {}, rest)
      BY <2>4, <3>1, Lose
    <3>3. OnFiles(disk', fd_table', {}) /\ todo' = <<>>
      BY <2>6, <2>8 DEF process, Finish
    <3> QED BY <2>4, <2>6, <3>2, <3>3, ToRest
  <2>9. ASSUME NEW code, Resume(<<NewInode(c.kind, c.name, c.dir, b, code)>>),
               OnFiles(disk', fd_table', IF c.kind = "file" THEN {b} ELSE {})
        PROVE  Ownership'
    <3>1. PICK v : v = NewInode(c.kind, c.name, c.dir, b, code)
      OBVIOUS
    <3>2. /\ v.op = "newInode" /\ v.kind = c.kind /\ v.name = c.name /\ v.dir = c.dir
          /\ v.blk = b
      BY <3>1 DEF NewInode
    <3>3. todo' = <<v>> \o <<>> /\ todo' = <<v>>
      BY <1>3, <2>9, <3>1, Alone
    <3>4. v \in NewSteps
      BY <3>2, <3>3, NextOnStack, NoneWaits, StepOf DEF NewSteps
    <3>5. InDir(v.dir)'
      BY <1>4, <2>6, <3>2 DEF InDir
    <3>6. v.blk \notin {SUPERBLOCK_DISKLOC, v.dir}
      BY <1>7, <2>7, <3>2, Ends
    <3>7. Sound({}, {v.blk}, IF v.kind = "file" THEN {v.blk} ELSE {}, rest)'
      BY <2>4, <2>6, <2>9, <3>2, Settled
    <3>8. disk'[v.blk].type = "FREE" /\ Named(disk', v.dir, v.name) = {}
      BY <2>4, <2>6, <3>2
    <3>9. AtCreate(rest)'
      BY <3>2, <3>3, <3>4, <3>5, <3>6, <3>7, <3>8 DEF AtCreate, Creates, WritesInode, Links
    <3> QED BY <2>4, <3>9, Arrive, NoneWaits
  <2>10. CASE /\ c.kind = "dir"
              /\ Resume(<<NewInode(c.kind, c.name, c.dir, b, TFS_SUCCESS)>>)
              /\ UNCHANGED process
    BY <2>6, <2>9, <2>10 DEF process
  <2>11. CASE /\ c.kind = "file"
              /\ \E fd \in FDs :
                   /\ fd_table' = [fd_table EXCEPT ![fd] = b]
                   /\ Resume(<<NewInode(c.kind, c.name, c.dir, b, fd)>>)
    <3>1. OnFiles(disk', fd_table', {b})
      BY <1>4, <2>6, <2>11 DEF OnFiles
    <3> QED BY <2>9, <2>11, <3>1
  <2> QED BY <1>3, <1>5, <1>7, <2>8, <2>10, <2>11 DEF PopInode
<1> QED BY <1>6, <1>7

LEMMA OwnWriteInode ==
  ASSUME Ownership, TypeOK, TypeOK', WriteInode PROVE Ownership'
<1>0. Doing("newInode") /\ UNCHANGED process
  BY DEF WriteInode
<1>1. PICK list \in Lists : AtCreate(list)
  BY <1>0, Where
<1>b. PICK c \in NewSteps :
        /\ todo = <<c>> /\ InDir(c.dir)
        /\ Creates(c, list) \/ WritesInode(c, list) \/ Links(c, list)
  BY <1>1 DEF AtCreate
<1>c. c.op = "newInode"
  BY <1>0, <1>b DEF Doing
<1>a. todo = <<c>> /\ InDir(c.dir) /\ WritesInode(c, list)
  BY <1>b, <1>c DEF Creates, Links
<1>2. /\ todo = <<c>>
      /\ InDir(c.dir)
      /\ c.blk \notin {SUPERBLOCK_DISKLOC, c.dir}
      /\ Sound({}, {c.blk}, IF c.kind = "file" THEN {c.blk} ELSE {}, list)
      /\ disk[c.blk].type = "FREE"
      /\ Named(disk, c.dir, c.name) = {}
  BY <1>a DEF WritesInode
<1>3. /\ Head(todo) = c /\ c.op = "newInode" /\ todo = <<c>> \o <<>> /\ c \in Steps
      /\ \A steps : Resume(steps) => todo' = steps \o <<>>
  BY <1>0, <1>2, Alone, OnStack, NoneWaits DEF Doing
<1>4. PICK b, dir : b = c.blk /\ dir = c.dir
  OBVIOUS
<1>5. b \in Addr /\ dir \in Addr /\ c.kind \in {"file", "dir"} /\ b # 0 /\ b # dir
  BY <1>2, <1>3, <1>4, StepOf, Ends
<1>6. /\ Owns(disk, {}, {b}, list) /\ DirNames(disk) /\ disk[b].type = "FREE"
      /\ OnFiles(disk, fd_table, IF c.kind = "file" THEN {b} ELSE {})
      /\ disk \in Disks /\ fd_table \in [FDs -> Addr] /\ IsDirOn(disk, dir)
      /\ Named(disk, dir, c.name) = {}
  BY <1>2, <1>4 DEF Sound, TypeOK, Disks, InDir
<1>7. PICK blk : blk = Inode(c.kind, c.name)
  OBVIOUS
<1>8. /\ blk.type = "INODE" /\ blk.kind = c.kind /\ blk.name = c.name
      /\ \A j \in 1 .. Slots : blk.ptr[j] = 0
  BY <1>7 DEF Inode, Blank
<1>9. disk' = [disk EXCEPT ![b] = blk] /\ Resume(<<Link(b, dir, c.code)>>)
  BY <1>3, <1>4, <1>7 DEF WriteInode
<1>10. disk'[b] = blk /\ \A x \in Addr \ {b} : disk'[x] = disk[x]
  BY <1>5, <1>6, <1>9 DEF Disks
<1>11. disk[b].kind = "none"
  BY <1>5, <1>6, Ends DEF Owns, Shaped
<1>12. Owns(disk', {}, {b}, list)
  BY <1>5, <1>6, <1>8, <1>10, <1>11, Remake
<1>13. \A x \in Addr, i \in 1 .. Slots :
         disk[x].ptr[i] # 0 => disk[x].ptr[i] \in Addr \ {b}
  BY <1>6, DiskFields, OneOwnerOf DEF Counts
<1>14. DirNames(disk')
  BY <1>6, <1>8, <1>10, <1>13, NamesStay DEF IsDirOn
<1>15. OnFiles(disk', fd_table', {})
  <2>1. SUFFICES ASSUME NEW fd \in FDs, fd_table[fd] # 0
                 PROVE  disk'[fd_table[fd]].kind = "file"
    BY <1>0 DEF OnFiles, process
  <2>2. fd_table[fd] \in Addr
    BY <1>6
  <2>3. CASE fd_table[fd] = b
    BY <1>6, <1>8, <1>10, <1>11, <2>1, <2>3 DEF OnFiles
  <2>4. CASE fd_table[fd] # b
    BY <1>6, <1>10, <2>1, <2>2, <2>4 DEF OnFiles
  <2> QED BY <2>3, <2>4
<1>16. PICK v : v = Link(b, dir, c.code)
  OBVIOUS
<1>17. v.op = "link" /\ v.blk = b /\ v.dir = dir
  BY <1>16 DEF Link
<1>18. todo' = <<v>> \o <<>> /\ todo' = <<v>>
  BY <1>3, <1>9, <1>16, Alone
<1>19. v \in NewSteps
  BY <1>17, <1>18, NextOnStack, NoneWaits, StepOf DEF NewSteps
<1>20. InDir(v.dir)'
  BY <1>5, <1>6, <1>10, <1>17 DEF InDir, IsDirOn
<1>21. Sound({}, {v.blk}, {}, list)'
  BY <1>12, <1>14, <1>15, <1>17, Settled
<1>22. Named(disk', v.dir, disk'[v.blk].name) = {}
  BY <1>5, <1>6, <1>8, <1>10, <1>13, <1>17 DEF Named
<1>23. AtCreate(list)'
  BY <1>5, <1>8, <1>10, <1>17, <1>18, <1>19, <1>20, <1>21, <1>22, Ends DEF AtCreate, Creates, WritesInode, Links
<1> QED BY <1>23, Arrive, NoneWaits

LEMMA OwnLinkInode ==
  ASSUME Ownership, TypeOK, LinkInode PROVE Ownership'
<1>0. Doing("link") /\ UNCHANGED process
  BY DEF LinkInode
<1>1. PICK list \in Lists : AtCreate(list)
  BY <1>0, Where
<1>b. PICK c \in NewSteps :
        /\ todo = <<c>> /\ InDir(c.dir)
        /\ Creates(c, list) \/ WritesInode(c, list) \/ Links(c, list)
  BY <1>1 DEF AtCreate
<1>c. c.op = "link"
  BY <1>0, <1>b DEF Doing
<1>a. todo = <<c>> /\ InDir(c.dir) /\ Links(c, list)
  BY <1>b, <1>c DEF Creates, WritesInode
<1>2. /\ todo = <<c>>
      /\ InDir(c.dir)
      /\ c.blk \notin {SUPERBLOCK_DISKLOC, c.dir}
      /\ Sound({}, {c.blk}, {}, list)
      /\ disk[c.blk].type = "INODE"
      /\ \A i \in 1 .. Slots : disk[c.blk].ptr[i] = 0
      /\ Named(disk, c.dir, disk[c.blk].name) = {}
  BY <1>a DEF Links
<1>3. Head(todo) = c /\ c.op = "link" /\ c \in Steps
  BY <1>0, <1>2, Alone, OnStack, NoneWaits DEF Doing
<1>4. PICK b, p : b = c.blk /\ p = c.dir
  OBVIOUS
<1>5. b \in Addr /\ p \in Addr /\ b # 0 /\ b # p
  BY <1>2, <1>3, <1>4, StepOf, Ends
<1>6. /\ Owns(disk, {}, {b}, list) /\ DirNames(disk) /\ disk[b].type = "INODE"
      /\ OnFiles(disk, fd_table, {})
      /\ disk \in Disks /\ fd_table \in [FDs -> Addr] /\ IsDirOn(disk, p)
      /\ Named(disk, p, disk[b].name) = {}
      /\ \A i \in 1 .. Slots : disk[b].ptr[i] = 0
  BY <1>2, <1>4 DEF Sound, TypeOK, Disks, InDir
<1>7. PICK k \in 1 .. Slots :
        First(Empty(disk[p].ptr), k) /\ disk' = [disk EXCEPT ![p].ptr[k] = b]
  <2>1. Empty(disk[p].ptr) # {}
    BY <1>5, <1>6, RoomInDir DEF Empty
  <2> QED BY <1>3, <1>4, <2>1 DEF LinkInode
<1>8. disk[p].ptr[k] = 0 /\ todo' = <<>>
  BY <1>7 DEF First, Empty, LinkInode, Finish
<1>9. /\ \A x \in Addr : Alike(disk[x], disk'[x]) /\ disk'[x].next = disk[x].next
      /\ disk'[p].ptr[k] = b
      /\ \A x \in Addr, i \in 1 .. Slots :
           x # p \/ i # k => disk'[x].ptr[i] = disk[x].ptr[i]
  <2>1. disk' = WithPtr(disk, p, k, b) /\ disk \in Disks
    BY <1>6, <1>7 DEF WithPtr
  <2> QED BY <1>5, <2>1, PtrWrite
<1>10. \A x \in Addr : /\ disk'[x].type = disk[x].type /\ disk'[x].kind = disk[x].kind
                       /\ disk'[x].name = disk[x].name /\ disk'[x].next = disk[x].next
  BY <1>9 DEF Alike
<1>11. disk[p].kind \notin {"file"} /\ (p # 0 => disk[p].kind = "dir")
  BY <1>6, Ends DEF IsDirOn, Owns, Shaped
<1>12. Shaped(disk')
  <2>1. Shaped(disk)
    BY <1>6 DEF Owns
  <2>2. ASSUME NEW x \in Addr \ {0}
        PROVE  /\ disk'[x].type \in {"FREE", "INODE", "FILEEX"}
               /\ disk'[x].kind # "none" <=> disk'[x].type = "INODE"
               /\ disk'[x].kind = "none" => \A i \in 1 .. Slots : disk'[x].ptr[i] = 0
               /\ disk'[x].kind = "file" => Gapless(disk'[x].ptr)
    <3>1. CASE x = p
      BY <1>10, <1>11, <2>1, <3>1, Ends DEF Shaped
    <3>2. CASE x # p
      BY <1>9, <1>10, <2>1, <3>2, Ends DEF Shaped, Gapless
    <3> QED BY <3>1, <3>2
  <2> QED BY <1>10, <2>1, <2>2, Ends DEF Shaped
<1>13. \A y \in Addr, j \in 1 .. Slots : ~ (y = p /\ j = k) =>
         /\ Counts(disk', {}, y, j) <=> Counts(disk, {}, y, j)
         /\ Counts(disk, {}, y, j) => disk'[y].ptr[j] = disk[y].ptr[j]
  BY <1>9 DEF Counts
<1>14. ~ Counts(disk, {}, p, k) /\ Counts(disk', {}, p, k)
  BY <1>5, <1>8, <1>9 DEF Counts
<1>15. Owns(disk', {}, {}, list)
  BY <1>5, <1>6, <1>9, <1>10, <1>11, <1>12, <1>13, <1>14, Attach
<1>16. DirNames(disk')
  <2>0. SUFFICES ASSUME NEW x \in Addr, NEW i \in 1 .. Slots, NEW j \in 1 .. Slots,
                        IsDirOn(disk', x),
                        disk'[x].ptr[i] # 0, disk'[disk'[x].ptr[i]].kind = "dir",
                        disk'[x].ptr[j] # 0, disk'[disk'[x].ptr[j]].kind = "dir",
                        disk'[disk'[x].ptr[i]].name = disk'[disk'[x].ptr[j]].name
                 PROVE  i = j
    BY DEF DirNames
  <2>1. IsDirOn(disk, x) /\ disk[x].ptr[i] \in Addr /\ disk[x].ptr[j] \in Addr
    BY <1>6, <1>10, <2>0, DiskFields DEF IsDirOn
  <2>2. CASE x # p \/ (i # k /\ j # k)
    <3>1. disk'[x].ptr[i] = disk[x].ptr[i] /\ disk'[x].ptr[j] = disk[x].ptr[j]
      BY <1>9, <2>2
    <3> QED BY <1>6, <1>10, <2>0, <2>1, <3>1 DEF DirNames
  <2>3. ASSUME NEW m \in 1 .. Slots, m # k, disk'[p].ptr[m] # 0
        PROVE  disk'[disk'[p].ptr[m]].name # disk'[b].name
    <3>1. disk'[p].ptr[m] = disk[p].ptr[m] /\ disk[p].ptr[m] \in Addr
      BY <1>5, <1>6, <1>9, <2>3, DiskFields
    <3> QED BY <1>5, <1>6, <1>10, <2>3, <3>1 DEF Named
  <2> QED BY <1>9, <2>0, <2>2, <2>3
<1>17. OnFiles(disk', fd_table', {})
  BY <1>0, <1>6, <1>10 DEF OnFiles, process
<1> QED BY <1>8, <1>15, <1>16, <1>17, ToRest

---------------------------------------------------------------------------
(* The mount check: the walk from w stops with a verdict, or goes on. *)

CheckStep(d, f, w) ==
  IF w.work = <<>> THEN IF w.seen = DOMAIN d THEN "ok" ELSE "bad"
  ELSE LET v == Head(w.work)
       IN  IF Nowhere(v) THEN f[Pass(w)]
           ELSE IF ~ HeaderOK(d[v.blk], v.as) THEN "bad"
           ELSE IF v.depth > Cardinality(DOMAIN d) THEN "overflow"
           ELSE IF ~ SizeOK(d[v.blk], v.as) THEN "bad"
           ELSE f[WalkStep(d, w)]

Acceptable(d, v) ==
  HeaderOK(d[v.blk], v.as) /\ ~ (v.depth > Cardinality(DOMAIN d)) /\ SizeOK(d[v.blk], v.as)
WalkStops(d, w) ==
  w.work = <<>> \/ (~ Nowhere(Head(w.work)) /\ ~ Acceptable(d, Head(w.work)))
Verdict(d, w) == CheckStep(d, [v \in {} |-> v], w)
Goes(d, w) == IF Nowhere(Head(w.work)) THEN Pass(w) ELSE WalkStep(d, w)

LEMMA StopsOrGoes ==
  ASSUME NEW d, NEW f, NEW w
  PROVE  CheckStep(d, f, w) = IF WalkStops(d, w) THEN Verdict(d, w) ELSE f[Goes(d, w)]
  BY DEF CheckStep, WalkStops, Verdict, Goes, Acceptable

LEMMA GoesOnWalks ==
  ASSUME NEW d \in [Addr -> Block], NEW w \in Walks, w.work # <<>>
  PROVE  Goes(d, w) \in Walks
<1> DEFINE v == Head(w.work)
           refs == References(d[v.blk], v.as)
           new == [i \in DOMAIN refs |->
                    [blk |-> refs[i].blk, as |-> refs[i].as, depth |-> v.depth + 1]]
<1>1. w.work \in Seq(Visit) /\ w.seen \in SUBSET Addr /\ w = [work |-> w.work, seen |-> w.seen]
  BY DEF Walks
<1>2. v \in Visit /\ Tail(w.work) \in Seq(Visit)
  BY <1>1
<1>3. v.blk \in Addr /\ v.depth \in Nat
  BY <1>2 DEF Visit
<1>4. Pass(w) \in Walks
  BY <1>1, <1>2 DEF Pass, Walks
<1>5. d[v.blk] \in Block
  BY <1>3
<1>6. DOMAIN refs = 1 .. Slots + 1
  BY DEF References
<1>7. ASSUME NEW i \in 1 .. Slots + 1
      PROVE  refs[i].blk \in Addr /\ refs[i].as \in BlockTypes
  <2>1. /\ refs[i].blk = Ref(d[v.blk], v.as, i - 1)
        /\ refs[i].as = RefAs(d[v.blk], i - 1)
    BY DEF References
  <2>2. RefAs(d[v.blk], i - 1) \in BlockTypes
    BY DEF RefAs, BlockTypes
  <2>3. 0 \in Addr /\ d[v.blk].next \in Addr /\ d[v.blk].ptr \in [1 .. Slots -> Addr]
    BY <1>5, Results DEF Block
  <2>4. i - 1 # 0 => i - 1 \in 1 .. Slots
    BY Bounds
  <2>5. Ref(d[v.blk], v.as, i - 1) \in Addr
    <3>1. CASE i - 1 = 0
      <4>1. Ref(d[v.blk], v.as, i - 1) \in {d[v.blk].next, 0}
        BY <3>1 DEF Ref
      <4> QED BY <2>3, <4>1
    <3>2. CASE i - 1 # 0
      <4>1. Ref(d[v.blk], v.as, i - 1) \in {d[v.blk].ptr[i - 1], 0}
        BY <3>2 DEF Ref
      <4> QED BY <2>3, <2>4, <3>2, <4>1
    <3> QED BY <3>1, <3>2
  <2> QED BY <2>1, <2>2, <2>5
<1>8. new \in Seq(Visit)
  <2>1. \A i \in 1 .. Slots + 1 :
          [blk |-> refs[i].blk, as |-> refs[i].as, depth |-> v.depth + 1] \in Visit
    BY <1>3, <1>7 DEF Visit
  <2> HIDE DEF refs, v
  <2>2. new \in [1 .. Slots + 1 -> Visit]
    BY <1>6, <2>1
  <2>3. Slots + 1 \in Nat
    BY Bounds
  <2> HIDE DEF new
  <2> QED BY <2>2, <2>3, AsSequence
<1>9. WalkStep(d, w) = [work |-> new \o Tail(w.work), seen |-> w.seen \cup {v.blk}]
  BY DEF WalkStep
<1> HIDE DEF new
<1>10. new \o Tail(w.work) \in Seq(Visit)
  BY <1>2, <1>8, Concatenation
<1>11. WalkStep(d, w) \in Walks
  BY <1>1, <1>3, <1>9, <1>10 DEF Walks
<1> QED BY <1>4, <1>11 DEF Goes

(* The walks from w to where they stop. *)
Course(d, w, n, s) ==
  /\ s[0] = w
  /\ \A i \in 0 .. n - 1 : ~ WalkStops(d, s[i]) /\ s[i + 1] = Goes(d, s[i])
  /\ WalkStops(d, s[n])
Outcomes(d, w) ==
  {v \in {"ok", "bad", "overflow"} :
     \E n \in Nat : \E s \in [0 .. n -> Walks] :
       Course(d, w, n, s) /\ v = Verdict(d, s[n])}

LEMMA OutcomeStopped ==
  ASSUME NEW d, NEW w \in Walks, WalkStops(d, w)
  PROVE  Outcomes(d, w) = {Verdict(d, w)}
<1>1. Verdict(d, w) \in {"ok", "bad", "overflow"}
  BY DEF Verdict, CheckStep, WalkStops, Acceptable
<1>2. ASSUME NEW v \in Outcomes(d, w) PROVE v = Verdict(d, w)
  <2>1. PICK n \in Nat : \E s \in [0 .. n -> Walks] :
          Course(d, w, n, s) /\ v = Verdict(d, s[n])
    BY DEF Outcomes
  <2>2. PICK s \in [0 .. n -> Walks] : Course(d, w, n, s) /\ v = Verdict(d, s[n])
    BY <2>1
  <2>3. n # 0 => 0 \in 0 .. n - 1
    OBVIOUS
  <2>4. n = 0
    BY <2>2, <2>3 DEF Course
  <2> QED BY <2>2, <2>4 DEF Course
<1>3. Verdict(d, w) \in Outcomes(d, w)
  <2> DEFINE s == [i \in 0 .. 0 |-> w]
  <2>1. s \in [0 .. 0 -> Walks] /\ s[0] = w
    OBVIOUS
  <2>2. 0 .. 0 - 1 = {}
    OBVIOUS
  <2>3. Course(d, w, 0, s)
    BY <2>1, <2>2 DEF Course
  <2> HIDE DEF s
  <2>4. 0 \in Nat
    OBVIOUS
  <2> QED BY <1>1, <2>1, <2>3, <2>4 DEF Outcomes
<1> QED BY <1>2, <1>3

LEMMA OutcomeGoes ==
  ASSUME NEW d, NEW w \in Walks, ~ WalkStops(d, w), Goes(d, w) \in Walks
  PROVE  Outcomes(d, w) = Outcomes(d, Goes(d, w))
<1> DEFINE x == Goes(d, w)
<1>1. ASSUME NEW v \in Outcomes(d, w) PROVE v \in Outcomes(d, x)
  <2>1. PICK n \in Nat : \E s \in [0 .. n -> Walks] :
          Course(d, w, n, s) /\ v = Verdict(d, s[n])
    BY DEF Outcomes
  <2>2. PICK s \in [0 .. n -> Walks] : Course(d, w, n, s) /\ v = Verdict(d, s[n])
    BY <2>1
  <2>3. n # 0
    BY <2>2 DEF Course
  <2> DEFINE m == n - 1
             t == [i \in 0 .. m |-> s[i + 1]]
  <2>4. m \in Nat /\ m + 1 = n /\ \A i \in 0 .. m : i + 1 \in 0 .. n
    BY <2>3
  <2>5. t \in [0 .. m -> Walks]
    BY <2>4
  <2>6. t[0] = x
    BY <2>2, <2>3, <2>4 DEF Course
  <2>7. \A i \in 0 .. m - 1 :
          /\ i + 1 \in 0 .. n - 1 /\ i \in 0 .. m /\ i + 1 \in 0 .. m
          /\ t[i] = s[i + 1] /\ t[i + 1] = s[(i + 1) + 1]
    BY <2>4
  <2>8. t[m] = s[n]
    BY <2>4
  <2> HIDE DEF m, t, x
  <2>9. Course(d, x, m, t)
    BY <2>2, <2>6, <2>7, <2>8 DEF Course
  <2>10. v \in {"ok", "bad", "overflow"}
    BY DEF Outcomes
  <2> QED BY <2>2, <2>4, <2>5, <2>8, <2>9, <2>10 DEF Outcomes
<1>2. ASSUME NEW v \in Outcomes(d, x) PROVE v \in Outcomes(d, w)
  <2>1. PICK n \in Nat : \E s \in [0 .. n -> Walks] :
          Course(d, x, n, s) /\ v = Verdict(d, s[n])
    BY DEF Outcomes
  <2>2. PICK s \in [0 .. n -> Walks] : Course(d, x, n, s) /\ v = Verdict(d, s[n])
    BY <2>1
  <2> DEFINE m == n + 1
             t == [i \in 0 .. m |-> IF i = 0 THEN w ELSE s[i - 1]]
  <2>4. m \in Nat /\ m - 1 = n /\ \A i \in 0 .. m : i # 0 => i - 1 \in 0 .. n
    OBVIOUS
  <2>5. t \in [0 .. m -> Walks]
    BY <2>4
  <2>6. t[0] = w /\ t[m] = s[n]
    BY <2>4
  <2>7. \A i \in 0 .. m - 1 : ~ WalkStops(d, t[i]) /\ t[i + 1] = Goes(d, t[i])
    <3>1. TAKE i \in 0 .. m - 1
    <3>2. t[i + 1] = s[i]
      BY <2>4
    <3>3. CASE i = 0
      BY <2>2, <2>6, <3>2, <3>3 DEF Course
    <3>4. CASE i # 0
      <4>1. i - 1 \in 0 .. n - 1 /\ t[i] = s[i - 1] /\ (i - 1) + 1 = i
        BY <3>4
      <4> HIDE DEF t, m
      <4> QED BY <2>2, <3>2, <4>1 DEF Course
    <3> QED BY <3>3, <3>4
  <2> HIDE DEF m, t, x
  <2>9. Course(d, w, m, t)
    BY <2>2, <2>6, <2>7 DEF Course
  <2>10. v \in {"ok", "bad", "overflow"}
    BY DEF Outcomes
  <2> QED BY <2>2, <2>4, <2>5, <2>6, <2>9, <2>10 DEF Outcomes
<1> QED BY <1>1, <1>2

LEMMA CheckRuns ==
  ASSUME NEW d \in [Addr -> Block]
  PROVE  \E f : /\ MountCheck(d) = f[StartWalk]
                /\ \A w \in Walks : f[w] = CheckStep(d, f, w)
<1> DEFINE g == [w \in Walks |-> CHOOSE v : v \in Outcomes(d, w)]
           f == CHOOSE h : h = [w \in Walks |-> CheckStep(d, h, w)]
<1>1. ASSUME NEW w \in Walks PROVE g[w] = CheckStep(d, g, w)
  <2>1. CASE WalkStops(d, w)
    BY <2>1, OutcomeStopped, StopsOrGoes
  <2>2. CASE ~ WalkStops(d, w)
    <3>1. w.work # <<>>
      BY <2>2 DEF WalkStops
    <3>2. Goes(d, w) \in Walks
      BY <3>1, GoesOnWalks
    <3>3. g[w] = g[Goes(d, w)]
      BY <2>2, <3>2, OutcomeGoes
    <3> HIDE DEF g
    <3> QED BY <2>2, <3>3, StopsOrGoes
  <2> QED BY <2>1, <2>2
<1>2. g = [w \in Walks |-> CheckStep(d, g, w)]
  <2>1. [w \in Walks |-> g[w]] = g
    OBVIOUS
  <2> HIDE DEF g
  <2> QED BY <1>1, <2>1
<1> HIDE DEF g
<1>3. f = [w \in Walks |-> CheckStep(d, f, w)]
  BY <1>2
<1>4. MountCheck(d) = f[StartWalk]
  BY DEF MountCheck, CheckStep
<1> HIDE DEF f
<1>5. \A w \in Walks : f[w] = CheckStep(d, f, w)
  BY <1>3
<1> QED BY <1>4, <1>5

---------------------------------------------------------------------------
(* A disk on which each block is what the references to it say, and a      *)
(* reference to a block is the only one.                                   *)

To(d, b, i) == Ref(d[b], d[b].type, i)

Coherent(d) ==
  /\ d \in [Addr -> Block]
  /\ d[0].type = "SUPERBLOCK"
  /\ \A b \in Addr : HeaderOK(d[b], d[b].type) /\ SizeOK(d[b], d[b].type)
  /\ \A b \in Addr, i \in 0 .. Slots :
       To(d, b, i) # 0 => d[To(d, b, i)].type = RefAs(d[b], i)
  /\ \A b, c \in Addr, i, j \in 0 .. Slots :
       To(d, b, i) # 0 /\ To(d, b, i) = To(d, c, j) => b = c /\ i = j
  /\ \A S \in SUBSET Addr :
       0 \in S /\ (\A b \in S, i \in 0 .. Slots : To(d, b, i) \in S) => S = Addr

(* Of the walk: what it still has to visit it has not seen, and what it    *)
(* has seen leads to what it has seen or still has to visit.               *)
ToVisit(w, k) == k \in 1 .. Len(w.work) /\ ~ Nowhere(w.work[k])
HasOwner(d, w, c) == \E b \in w.seen, i \in 0 .. Slots : To(d, b, i) = c

GoesWell(d, w) ==
  /\ \A k \in Nat : ToVisit(w, k) =>
       LET v == w.work[k]
       IN  /\ v.blk \notin w.seen
           /\ v.as = d[v.blk].type
           /\ v.depth <= Cardinality(w.seen) + 1
           /\ v.blk # 0 => HasOwner(d, w, v.blk)
  /\ \A k, l \in Nat :
       ToVisit(w, k) /\ ToVisit(w, l) /\ w.work[k].blk = w.work[l].blk => k = l
  /\ \A b \in w.seen, i \in 0 .. Slots :
       \/ To(d, b, i) \in w.seen \cup {0}
       \/ \E k \in Nat : ToVisit(w, k) /\ w.work[k].blk = To(d, b, i)
  /\ \A c \in w.seen : c # 0 => HasOwner(d, w, c)
  /\ 0 \in w.seen \/ \E k \in Nat : ToVisit(w, k) /\ w.work[k].blk = 0

Values(s) == {s[i] : i \in DOMAIN s}

LEMMA WalkFields ==
  ASSUME NEW w \in Walks
  PROVE  /\ w.work \in Seq(Visit) /\ w.seen \in SUBSET Addr
         /\ Len(w.work) \in Nat
         /\ \A k \in 1 .. Len(w.work) :
              /\ w.work[k] \in Visit
              /\ w.work[k].blk \in Addr /\ w.work[k].depth \in Nat
         /\ w.work # <<>> => 1 \in 1 .. Len(w.work) /\ Head(w.work) = w.work[1]
<1>1. w.work \in Seq(Visit) /\ w.seen \in SUBSET Addr
  BY DEF Walks
<1>2. \A k \in 1 .. Len(w.work) : w.work[k] \in Visit
  BY <1>1
<1>3. w.work # <<>> => 1 \in 1 .. Len(w.work) /\ Head(w.work) = w.work[1]
  BY <1>1
<1> QED BY <1>1, <1>2, <1>3 DEF Visit

LEMMA PassFields ==
  ASSUME NEW w \in Walks, w.work # <<>>, NEW x, x = Pass(w)
  PROVE  /\ x.seen = w.seen /\ Len(x.work) = Len(w.work) - 1
         /\ \A k \in 1 .. Len(x.work) :
              k + 1 \in 1 .. Len(w.work) /\ x.work[k] = w.work[k + 1]
<1>1. w.work \in Seq(Visit) /\ w = [work |-> w.work, seen |-> w.seen]
  BY DEF Walks
<1>2. x.work = Tail(w.work) /\ x.seen = w.seen
  BY <1>1 DEF Pass
<1>3. /\ Len(Tail(w.work)) = Len(w.work) - 1 /\ Len(w.work) \in Nat
      /\ \A k \in 1 .. Len(w.work) - 1 : Tail(w.work)[k] = w.work[k + 1]
  BY <1>1
<1> QED BY <1>2, <1>3

LEMMA Joined ==
  ASSUME NEW V, NEW s \in Seq(V), NEW t \in Seq(V), NEW n, n = Len(s)
  PROVE  /\ Len(s \o t) = n + Len(t)
         /\ \A k \in 1 .. n : (s \o t)[k] = s[k]
         /\ \A k \in 1 .. n + Len(t) : k > n => (s \o t)[k] = t[k - n]
  OBVIOUS

LEMMA StepFields ==
  ASSUME NEW d, NEW w \in Walks, w.work # <<>>, NEW v, v = Head(w.work),
         NEW x, x = WalkStep(d, w), v.as = d[v.blk].type
  PROVE  /\ x.seen = w.seen \cup {v.blk}
         /\ Len(x.work) = Len(w.work) + Slots
         /\ \A i \in 0 .. Slots :
              /\ i + 1 \in 1 .. Len(x.work)
              /\ x.work[i + 1] = [blk |-> To(d, v.blk, i), as |-> RefAs(d[v.blk], i),
                                  depth |-> v.depth + 1]
         /\ \A k \in 1 .. Len(x.work) : k > Slots + 1 =>
              k - Slots \in 2 .. Len(w.work) /\ x.work[k] = w.work[k - Slots]
         /\ \A k \in 2 .. Len(w.work) :
              k + Slots \in 1 .. Len(x.work) /\ x.work[k + Slots] = w.work[k]
<1> DEFINE refs == References(d[v.blk], v.as)
           new == [i \in DOMAIN refs |->
                    [blk |-> refs[i].blk, as |-> refs[i].as, depth |-> v.depth + 1]]
           old == Tail(w.work)
<1>1. w.work \in Seq(Visit) /\ Slots \in Nat
  BY Bounds DEF Walks
<1>2. /\ Len(old) = Len(w.work) - 1 /\ Len(w.work) \in Nat /\ Len(w.work) >= 1
      /\ \A k \in 1 .. Len(w.work) - 1 : old[k] = w.work[k + 1]
      /\ old \in Seq(Visit)
  BY <1>1
<1>3. DOMAIN refs = 1 .. Slots + 1
  BY DEF References
<1>4. \A i \in 0 .. Slots :
        new[i + 1] = [blk |-> To(d, v.blk, i), as |-> RefAs(d[v.blk], i), depth |-> v.depth + 1]
  <2>1. TAKE i \in 0 .. Slots
  <2>2. i + 1 \in 1 .. Slots + 1 /\ (i + 1) - 1 = i
    BY <1>1
  <2>3. refs[i + 1] = [blk |-> Ref(d[v.blk], v.as, i), as |-> RefAs(d[v.blk], i)]
    BY <2>2 DEF References
  <2> HIDE DEF refs
  <2> QED BY <1>3, <2>2, <2>3 DEF To
<1>5. x = [work |-> new \o old, seen |-> w.seen \cup {v.blk}]
  BY DEF WalkStep
<1>6. new \in [1 .. Slots + 1 -> Values(new)] /\ Slots + 1 \in Nat
  <2> HIDE DEF refs
  <2> QED BY <1>1, <1>3 DEF Values
<1> HIDE DEF new, old, refs
<1>7. new \in Seq(Values(new)) /\ Len(new) = Slots + 1
  BY <1>6, AsSequence
<1> DEFINE V == Values(new) \cup Visit
<1>13. new \in Seq(V) /\ old \in Seq(V)
  <2>1. new \in [1 .. Slots + 1 -> V]
    BY <1>6
  <2>2. old \in [1 .. Len(old) -> Visit]
    BY <1>2
  <2>3. old \in [1 .. Len(old) -> V] /\ Len(old) \in Nat
    BY <1>2, <2>2
  <2> HIDE DEF V
  <2>4. new \in Seq(V)
    BY <1>6, <2>1, AsSequence
  <2> DEFINE n == Len(old)
  <2>5. n \in Nat /\ old \in [1 .. n -> V]
    BY <2>3
  <2> HIDE DEF n
  <2>6. old \in Seq(V)
    BY <2>5, AsSequence
  <2> QED BY <2>4, <2>6
<1> HIDE DEF V
<1>8. /\ Len(new \o old) = Len(w.work) + Slots
      /\ \A k \in 1 .. Slots + 1 : (new \o old)[k] = new[k]
      /\ \A k \in 1 .. Len(new \o old) : k > Slots + 1 => (new \o old)[k] = old[k - (Slots + 1)]
  <2>1. /\ Len(new \o old) = (Slots + 1) + Len(old)
        /\ \A k \in 1 .. Slots + 1 : (new \o old)[k] = new[k]
        /\ \A k \in 1 .. (Slots + 1) + Len(old) : k > Slots + 1 =>
             (new \o old)[k] = old[k - (Slots + 1)]
    BY <1>7, <1>13, Joined
  <2> DEFINE m == Len(old)
             n == Len(w.work)
  <2>4. Slots \in Nat /\ n \in Nat /\ m = n - 1
    BY <1>1, <1>2
  <2> HIDE DEF m, n
  <2>5. (Slots + 1) + m = n + Slots
    BY <2>4
  <2>2. (Slots + 1) + Len(old) = Len(w.work) + Slots
    BY <2>5 DEF m, n
  <2>3. Len(new \o old) = Len(w.work) + Slots
    BY <2>1, <2>2
  <2> QED BY <2>1, <2>3
<1>9. x.work = new \o old /\ x.seen = w.seen \cup {v.blk}
  BY <1>5
<1>10. \A i \in 0 .. Slots : i + 1 \in 1 .. Slots + 1 /\ i + 1 \in 1 .. Len(w.work) + Slots
  BY <1>1, <1>2
<1>11. ASSUME NEW k \in 1 .. Len(x.work), k > Slots + 1
       PROVE  k - Slots \in 2 .. Len(w.work) /\ x.work[k] = w.work[k - Slots]
  <2>1. /\ k - Slots \in 2 .. Len(w.work)
        /\ k - (Slots + 1) \in 1 .. Len(w.work) - 1
        /\ (k - (Slots + 1)) + 1 = k - Slots
    BY <1>1, <1>2, <1>8, <1>9, <1>11
  <2>2. x.work[k] = old[k - (Slots + 1)]
    BY <1>8, <1>9, <1>11
  <2> QED BY <1>2, <2>1, <2>2
<1>12. ASSUME NEW k \in 2 .. Len(w.work)
       PROVE  k + Slots \in 1 .. Len(x.work) /\ x.work[k + Slots] = w.work[k]
  <2>1. k + Slots \in 1 .. Len(x.work) /\ k + Slots > Slots + 1 /\ (k + Slots) - Slots = k
    BY <1>1, <1>2, <1>8, <1>9
  <2> QED BY <1>11, <2>1
<1> QED BY <1>4, <1>8, <1>9, <1>10, <1>11, <1>12

LEMMA WellPasses ==
  ASSUME NEW d, NEW w \in Walks, w.work # <<>>, GoesWell(d, w), Nowhere(Head(w.work))
  PROVE  GoesWell(d, Pass(w))
<1> DEFINE x == Pass(w)
<1>1. /\ x.seen = w.seen /\ Len(x.work) = Len(w.work) - 1
      /\ \A k \in 1 .. Len(x.work) :
           k + 1 \in 1 .. Len(w.work) /\ x.work[k] = w.work[k + 1]
      /\ Len(w.work) \in Nat
  BY PassFields, WalkFields
<1> HIDE DEF x
<1>2. \A k \in Nat : ToVisit(x, k) => k + 1 \in Nat /\ ToVisit(w, k + 1) /\ x.work[k] = w.work[k + 1]
  BY <1>1 DEF ToVisit
<1>3. ASSUME NEW k \in Nat, ToVisit(w, k)
      PROVE  \E l \in Nat : ToVisit(x, l) /\ x.work[l] = w.work[k]
  <2>1. k # 1
    BY <1>3, WalkFields DEF ToVisit
  <2>2. k - 1 \in Nat /\ k - 1 \in 1 .. Len(x.work) /\ (k - 1) + 1 = k
    BY <1>1, <1>3, <2>1 DEF ToVisit
  <2> QED BY <1>1, <1>3, <2>2 DEF ToVisit
<1>4. \A c : HasOwner(d, w, c) => HasOwner(d, x, c)
  BY <1>1 DEF HasOwner
<1>5. ASSUME NEW k \in Nat, ToVisit(x, k)
      PROVE  LET v == x.work[k]
             IN  /\ v.blk \notin x.seen
                 /\ v.as = d[v.blk].type
                 /\ v.depth <= Cardinality(x.seen) + 1
                 /\ v.blk # 0 => HasOwner(d, x, v.blk)
  <2> DEFINE v == w.work[k + 1]
  <2>1. k + 1 \in Nat /\ ToVisit(w, k + 1) /\ x.work[k] = v
    BY <1>2, <1>5
  <2>2. /\ v.blk \notin w.seen
        /\ v.as = d[v.blk].type
        /\ v.depth <= Cardinality(w.seen) + 1
        /\ v.blk # 0 => HasOwner(d, w, v.blk)
    BY <2>1, Zenon DEF GoesWell
  <2> HIDE DEF v
  <2> QED BY <1>1, <1>4, <2>1, <2>2
<1>6. ASSUME NEW k \in Nat, NEW l \in Nat, ToVisit(x, k), ToVisit(x, l), x.work[k].blk = x.work[l].blk
      PROVE  k = l
  <2>1. k + 1 = l + 1
    BY <1>2, <1>6, Zenon DEF GoesWell
  <2> QED BY <2>1
<1>7. ASSUME NEW b \in x.seen, NEW i \in 0 .. Slots
      PROVE  \/ To(d, b, i) \in x.seen \cup {0}
             \/ \E k \in Nat : ToVisit(x, k) /\ x.work[k].blk = To(d, b, i)
  <2>1. \/ To(d, b, i) \in w.seen \cup {0}
        \/ \E k \in Nat : ToVisit(w, k) /\ w.work[k].blk = To(d, b, i)
    BY <1>1 DEF GoesWell
  <2> QED BY <1>1, <1>3, <2>1
<1>8. \A c \in x.seen : c # 0 => HasOwner(d, x, c)
  BY <1>1, <1>4 DEF GoesWell
<1>9. 0 \in x.seen \/ \E k \in Nat : ToVisit(x, k) /\ x.work[k].blk = 0
  BY <1>1, <1>3 DEF GoesWell
<1> HIDE DEF GoesWell
<1>10. GoesWell(d, x)
  BY <1>5, <1>6, <1>7, <1>8, <1>9, Zenon DEF GoesWell
<1> QED BY <1>10 DEF x

LEMMA WellSteps ==
  ASSUME NEW d, Coherent(d), NEW w \in Walks, w.work # <<>>, GoesWell(d, w),
         NEW v, v = Head(w.work), ~ Nowhere(v),
         NEW x, x = WalkStep(d, w)
  PROVE  /\ GoesWell(d, x) /\ v.blk \in Addr /\ v.blk \notin w.seen
         /\ HeaderOK(d[v.blk], v.as) /\ SizeOK(d[v.blk], v.as)
         /\ v.depth <= Cardinality(w.seen) + 1
         /\ x.seen = w.seen \cup {v.blk} /\ Len(x.work) = Len(w.work) + Slots
<1> DEFINE b == v.blk
<1>1. /\ w.seen \in SUBSET Addr /\ Len(w.work) \in Nat /\ Slots \in Nat
      /\ 1 \in 1 .. Len(w.work) /\ v = w.work[1] /\ b \in Addr /\ v.depth \in Nat
  BY WalkFields, Bounds
<1>2. ToVisit(w, 1) /\ 1 \in Nat
  BY <1>1 DEF ToVisit
<1>3. /\ b \notin w.seen /\ v.as = d[b].type
      /\ v.depth <= Cardinality(w.seen) + 1
      /\ b # 0 => HasOwner(d, w, b)
  BY <1>1, <1>2, Zenon DEF GoesWell
<1>4. /\ x.seen = w.seen \cup {b}
      /\ Len(x.work) = Len(w.work) + Slots
      /\ \A i \in 0 .. Slots :
           /\ i + 1 \in 1 .. Len(x.work)
           /\ x.work[i + 1] = [blk |-> To(d, b, i), as |-> RefAs(d[b], i),
                               depth |-> v.depth + 1]
      /\ \A k \in 1 .. Len(x.work) : k > Slots + 1 =>
           k - Slots \in 2 .. Len(w.work) /\ x.work[k] = w.work[k - Slots]
      /\ \A k \in 2 .. Len(w.work) :
           k + Slots \in 1 .. Len(x.work) /\ x.work[k + Slots] = w.work[k]
  BY <1>3, StepFields
<1>17. \A a, c \in Addr, i, j \in 0 .. Slots :
         To(d, a, i) # 0 /\ To(d, a, i) = To(d, c, j) => a = c /\ i = j
  BY DEF Coherent
<1>18. b \in Addr
  BY <1>1
<1> HIDE DEF b
<1>5. Cardinality(x.seen) = Cardinality(w.seen) + 1 /\ Cardinality(w.seen) \in Nat
  <2>1. IsFiniteSet(w.seen)
    <3>1. IsFiniteSet(Addr)
      BY Bounds, FS_Interval DEF Addr
    <3> QED BY <1>1, <3>1, FS_Subset
  <2> QED BY <1>3, <1>4, <2>1, FS_AddElement, FS_CardinalityType
<1>6. \A c : HasOwner(d, w, c) => HasOwner(d, x, c)
  BY <1>4 DEF HasOwner
<1>7. ASSUME NEW i \in 0 .. Slots, To(d, b, i) # 0
      PROVE  /\ ~ HasOwner(d, w, To(d, b, i))
             /\ To(d, b, i) \notin x.seen
             /\ d[To(d, b, i)].type = RefAs(d[b], i)
  <2>1. ~ HasOwner(d, w, To(d, b, i))
    <3>1. SUFFICES ASSUME NEW c \in w.seen, NEW j \in 0 .. Slots, To(d, c, j) = To(d, b, i)
                   PROVE  FALSE
      BY Zenon DEF HasOwner
    <3>2. c = b
      <4>1. c \in Addr
        BY <1>1
      <4> QED BY <1>7, <1>17, <1>18, <3>1, <4>1
    <3> QED BY <1>3, <3>2
  <2>2. To(d, b, i) # b
    BY <1>3, <1>7, <2>1
  <2>3. To(d, b, i) \notin w.seen
    BY <1>7, <2>1, Zenon DEF GoesWell
  <2> QED BY <1>1, <1>4, <1>7, <2>1, <2>2, <2>3 DEF Coherent
<1>8. \A i \in 0 .. Slots : RefAs(d[b], i) # "SUPERBLOCK"
  BY DEF RefAs
(* An entry is one of the new references or was there.                     *)
<1>9. ASSUME NEW k \in Nat, ToVisit(x, k)
      PROVE  \/ \E i \in 0 .. Slots : /\ k = i + 1 /\ x.work[k].blk = To(d, b, i)
                                      /\ x.work[k].as = RefAs(d[b], i)
                                      /\ x.work[k].depth = v.depth + 1
                                      /\ To(d, b, i) # 0
             \/ \E l \in Nat : /\ k = l + Slots /\ l # 1 /\ ToVisit(w, l)
                               /\ x.work[k] = w.work[l]
  <2>1. k \in 1 .. Len(x.work) /\ ~ Nowhere(x.work[k])
    BY <1>9 DEF ToVisit
  <2>2. CASE k > Slots + 1
    <3> DEFINE l == k - Slots
    <3>1. l \in 2 .. Len(w.work) /\ x.work[k] = w.work[l]
      BY <1>4, <2>1, <2>2
    <3>2. k = l + Slots /\ l # 1 /\ l \in Nat /\ l \in 1 .. Len(w.work)
      BY <1>1, <3>1
    <3> HIDE DEF l
    <3> QED BY <2>1, <3>1, <3>2 DEF ToVisit
  <2>3. CASE ~ (k > Slots + 1)
    <3> DEFINE i == k - 1
    <3>1. i \in 0 .. Slots /\ k = i + 1
      BY <1>1, <2>1, <2>3
    <3> HIDE DEF i
    <3>2. x.work[k] = [blk |-> To(d, b, i), as |-> RefAs(d[b], i), depth |-> v.depth + 1]
      BY <1>4, <3>1
    <3>3. To(d, b, i) # 0
      BY <1>8, <2>1, <3>1, <3>2 DEF Nowhere
    <3> QED BY <3>1, <3>2, <3>3
  <2> QED BY <2>2, <2>3
<1>10. ASSUME NEW k \in Nat, ToVisit(x, k)
       PROVE  LET y == x.work[k]
              IN  /\ y.blk \notin x.seen
                  /\ y.as = d[y.blk].type
                  /\ y.depth <= Cardinality(x.seen) + 1
                  /\ y.blk # 0 => HasOwner(d, x, y.blk)
  <2>1. CASE \E i \in 0 .. Slots : /\ k = i + 1 /\ x.work[k].blk = To(d, b, i)
                                   /\ x.work[k].as = RefAs(d[b], i)
                                   /\ x.work[k].depth = v.depth + 1
                                   /\ To(d, b, i) # 0
    <3>1. PICK i \in 0 .. Slots : /\ x.work[k].blk = To(d, b, i)
                                  /\ x.work[k].as = RefAs(d[b], i)
                                  /\ x.work[k].depth = v.depth + 1
                                  /\ To(d, b, i) # 0
      BY <2>1
    <3>2. HasOwner(d, x, To(d, b, i))
      BY <1>4 DEF HasOwner
    <3>3. v.depth + 1 <= Cardinality(x.seen) + 1
      BY <1>1, <1>3, <1>5
    <3> QED BY <1>7, <3>1, <3>2, <3>3
  <2>2. CASE \E l \in Nat : /\ k = l + Slots /\ l # 1 /\ ToVisit(w, l)
                            /\ x.work[k] = w.work[l]
    <3>1. PICK l \in Nat : l # 1 /\ ToVisit(w, l) /\ x.work[k] = w.work[l]
      BY <2>2
    <3>2. /\ w.work[l].blk \notin w.seen
          /\ w.work[l].as = d[w.work[l].blk].type
          /\ w.work[l].depth <= Cardinality(w.seen) + 1
          /\ w.work[l].blk # 0 => HasOwner(d, w, w.work[l].blk)
      BY <3>1, Zenon DEF GoesWell
    <3>3. w.work[l].blk # b
      BY <1>1, <1>2, <3>1, Zenon DEF GoesWell, b
    <3>4. w.work[l].depth \in Nat
      BY <3>1, WalkFields DEF ToVisit
    <3>5. w.work[l].depth <= Cardinality(x.seen) + 1
      BY <1>5, <3>2, <3>4
    <3> QED BY <1>4, <1>6, <3>1, <3>2, <3>3, <3>5
  <2> QED BY <1>9, <1>10, <2>1, <2>2
<1>11. ASSUME NEW k \in Nat, NEW l \in Nat, ToVisit(x, k), ToVisit(x, l),
              x.work[k].blk = x.work[l].blk
       PROVE  k = l
  <2> DEFINE New(m, i) == /\ m = i + 1 /\ x.work[m].blk = To(d, b, i) /\ To(d, b, i) # 0
             Old(m, i) == /\ m = i + Slots /\ ToVisit(w, i) /\ x.work[m] = w.work[i]
  <2>1. (\E i \in 0 .. Slots : New(k, i)) \/ \E i \in Nat : Old(k, i)
    BY <1>9, <1>11, Zenon
  <2>2. (\E i \in 0 .. Slots : New(l, i)) \/ \E i \in Nat : Old(l, i)
    BY <1>9, <1>11, Zenon
  <2>3. ASSUME NEW m, NEW n, NEW i \in 0 .. Slots, New(m, i), NEW j \in Nat, Old(n, j)
        PROVE  x.work[m].blk # x.work[n].blk
    <3>1. x.work[n].blk # 0 => HasOwner(d, w, x.work[n].blk)
      BY <2>3, Zenon DEF GoesWell
    <3> QED BY <1>7, <2>3, <3>1
  <2>4. ASSUME NEW i \in 0 .. Slots, New(k, i), NEW j \in 0 .. Slots, New(l, j) PROVE k = l
    <3>1. To(d, b, i) = To(d, b, j) /\ To(d, b, i) # 0
      BY <1>11, <2>4
    <3>2. i = j
      BY <1>17, <1>18, <3>1
    <3> QED BY <2>4, <3>2
  <2>5. ASSUME NEW i \in Nat, Old(k, i), NEW j \in Nat, Old(l, j) PROVE k = l
    <3>1. i = j
      BY <1>11, <2>5, Zenon DEF GoesWell
    <3> QED BY <2>5, <3>1
  <2> HIDE DEF New, Old
  <2> QED BY <1>11, <2>1, <2>2, <2>3, <2>4, <2>5
<1>12. ASSUME NEW c \in x.seen, NEW i \in 0 .. Slots
       PROVE  \/ To(d, c, i) \in x.seen \cup {0}
              \/ \E k \in Nat : ToVisit(x, k) /\ x.work[k].blk = To(d, c, i)
  <2>1. CASE c = b
    <3>1. SUFFICES ASSUME To(d, b, i) # 0
                   PROVE  \E k \in Nat : ToVisit(x, k) /\ x.work[k].blk = To(d, c, i)
      BY <2>1
    <3>2. /\ i + 1 \in 1 .. Len(x.work) /\ i + 1 \in Nat
          /\ x.work[i + 1] = [blk |-> To(d, b, i), as |-> RefAs(d[b], i), depth |-> v.depth + 1]
      BY <1>4
    <3>3. ToVisit(x, i + 1)
      BY <3>1, <3>2 DEF ToVisit, Nowhere
    <3> QED BY <2>1, <3>2, <3>3
  <2>2. CASE c # b
    <3>1. c \in w.seen
      BY <1>4, <2>2
    <3>2. \/ To(d, c, i) \in w.seen \cup {0}
          \/ \E k \in Nat : ToVisit(w, k) /\ w.work[k].blk = To(d, c, i)
      BY <3>1, Zenon DEF GoesWell
    <3>3. CASE To(d, c, i) \in w.seen \cup {0}
      BY <1>4, <3>3
    <3>4. ASSUME NEW k \in Nat, ToVisit(w, k), w.work[k].blk = To(d, c, i)
          PROVE  \/ To(d, c, i) \in x.seen \cup {0}
                 \/ \E l \in Nat : ToVisit(x, l) /\ x.work[l].blk = To(d, c, i)
      <4>1. CASE k = 1
        BY <1>1, <1>4, <3>4, <4>1 DEF b
      <4>2. CASE k # 1
        <5>1. k \in 2 .. Len(w.work) /\ ~ Nowhere(w.work[k])
          BY <1>1, <3>4, <4>2 DEF ToVisit
        <5>2. k + Slots \in 1 .. Len(x.work) /\ x.work[k + Slots] = w.work[k] /\ k + Slots \in Nat
          BY <1>1, <1>4, <5>1
        <5> QED BY <3>4, <5>1, <5>2 DEF ToVisit
      <4> QED BY <4>1, <4>2
    <3> QED BY <3>2, <3>3, <3>4
  <2> QED BY <2>1, <2>2
<1>13. \A c \in x.seen : c # 0 => HasOwner(d, x, c)
  <2>1. TAKE c \in x.seen
  <2>2. c = b \/ c \in w.seen
    BY <1>4
  <2> QED BY <1>3, <1>6, <2>2, Zenon DEF GoesWell
<1>14. 0 \in x.seen \/ \E k \in Nat : ToVisit(x, k) /\ x.work[k].blk = 0
  <2>1. 0 \in w.seen \/ \E k \in Nat : ToVisit(w, k) /\ w.work[k].blk = 0
    BY Zenon DEF GoesWell
  <2>2. ASSUME NEW k \in Nat, ToVisit(w, k), w.work[k].blk = 0
        PROVE  0 \in x.seen \/ \E l \in Nat : ToVisit(x, l) /\ x.work[l].blk = 0
    <3>1. CASE k = 1
      BY <1>1, <1>4, <2>2, <3>1 DEF b
    <3>2. CASE k # 1
      <4>1. k \in 2 .. Len(w.work) /\ ~ Nowhere(w.work[k])
        BY <1>1, <2>2, <3>2 DEF ToVisit
      <4>2. k + Slots \in 1 .. Len(x.work) /\ x.work[k + Slots] = w.work[k] /\ k + Slots \in Nat
        BY <1>1, <1>4, <4>1
      <4> QED BY <2>2, <4>1, <4>2 DEF ToVisit
    <3> QED BY <3>1, <3>2
  <2> QED BY <1>4, <2>1, <2>2
<1>15. GoesWell(d, x)
  BY <1>10, <1>11, <1>12, <1>13, <1>14, Zenon DEF GoesWell
<1>16. HeaderOK(d[b], v.as) /\ SizeOK(d[b], v.as)
  BY <1>1, <1>3 DEF Coherent
<1> QED BY <1>1, <1>3, <1>4, <1>15, <1>16 DEF b

LEMMA WellStarts ==
  ASSUME NEW d, Coherent(d)
  PROVE  StartWalk \in Walks /\ GoesWell(d, StartWalk)
<1> DEFINE w == StartWalk
           v == [blk |-> 0, as |-> "SUPERBLOCK", depth |-> 1]
<1>1. w = [work |-> <<v>>, seen |-> {}]
  BY DEF StartWalk, SUPERBLOCK_DISKLOC
<1>2. v \in Visit
  BY Results DEF Visit, BlockTypes
<1>3. w \in Walks
  BY <1>1, <1>2 DEF Walks
<1>4. w.seen = {} /\ Len(w.work) = 1 /\ w.work[1] = v
  BY <1>1
<1>5. \A k \in Nat : ToVisit(w, k) => k = 1
  BY <1>4 DEF ToVisit
<1>6. ToVisit(w, 1)
  BY <1>4 DEF ToVisit, Nowhere
<1>7. Cardinality({}) = 0
  BY FS_EmptySet
<1> HIDE DEF w
<1>8. \A k \in Nat : ToVisit(w, k) =>
        LET y == w.work[k]
        IN  /\ y.blk \notin w.seen
            /\ y.as = d[y.blk].type
            /\ y.depth <= Cardinality(w.seen) + 1
            /\ y.blk # 0 => HasOwner(d, w, y.blk)
  BY <1>4, <1>5, <1>7 DEF Coherent
<1>9. /\ \A k, l \in Nat :
           ToVisit(w, k) /\ ToVisit(w, l) /\ w.work[k].blk = w.work[l].blk => k = l
      /\ \A b \in w.seen, i \in 0 .. Slots :
           \/ To(d, b, i) \in w.seen \cup {0}
           \/ \E k \in Nat : ToVisit(w, k) /\ w.work[k].blk = To(d, b, i)
      /\ \A c \in w.seen : c # 0 => HasOwner(d, w, c)
      /\ 0 \in w.seen \/ \E k \in Nat : ToVisit(w, k) /\ w.work[k].blk = 0
  BY <1>4, <1>5, <1>6
<1>10. GoesWell(d, w)
  BY <1>8, <1>9, Zenon DEF GoesWell
<1> QED BY <1>3, <1>10 DEF w

Remaining(w) == (NumBlocks - Cardinality(w.seen)) * (Slots + 2) + Len(w.work)

LEMMA OneLess ==
  ASSUME NEW n \in Nat, NEW c \in Nat, c < n, NEW k \in Nat, NEW m \in Nat
  PROVE  /\ (n - c) * (k + 2) + m \in Nat
         /\ (n - (c + 1)) * (k + 2) + (m + k) = (n - c) * (k + 2) + m - 2
<1>1. PICK a \in Nat : a = n - (c + 1)
  OBVIOUS
<1>2. n - c = a + 1
  BY <1>1
<1>3. (a + 1) * (k + 2) = a * (k + 2) + (k + 2)
  OBVIOUS
<1>4. PICK p \in Nat : p = a * (k + 2)
  OBVIOUS
<1>5. (n - c) * (k + 2) = p + (k + 2)
  BY <1>2, <1>3, <1>4
<1>6. (n - (c + 1)) * (k + 2) = p
  BY <1>1, <1>4
<1> QED BY <1>5, <1>6

LEMMA SizeFacts ==
  ASSUME NEW w \in Walks
  PROVE  /\ Cardinality(w.seen) \in 0 .. NumBlocks
         /\ \A b \in Addr : b \notin w.seen => Cardinality(w.seen) < NumBlocks
         /\ Remaining(w) \in Nat
<1>1. w.seen \in SUBSET Addr /\ Len(w.work) \in Nat
  BY WalkFields
<1>2. IsFiniteSet(Addr) /\ Cardinality(Addr) = NumBlocks
  BY Bounds, FS_Interval DEF Addr
<1>3. IsFiniteSet(w.seen) /\ Cardinality(w.seen) \in Nat /\ Cardinality(w.seen) <= NumBlocks
  BY <1>1, <1>2, FS_Subset, FS_CardinalityType
<1>4. \A b \in Addr : b \notin w.seen => Cardinality(w.seen) < NumBlocks
  <2>1. ASSUME NEW b \in Addr, b \notin w.seen PROVE Cardinality(w.seen) # NumBlocks
    BY <1>1, <1>2, <2>1, FS_Subset
  <2> QED BY <1>3, <2>1, Bounds
<1>5. Remaining(w) \in Nat
  <2> DEFINE c == Cardinality(w.seen)
             p == (NumBlocks - c) * (Slots + 2)
  <2>1. PICK a \in Nat : a = NumBlocks - c
    BY <1>3, Bounds
  <2>2. a * (Slots + 2) \in Nat
    BY Bounds
  <2>3. p \in Nat
    BY <2>1, <2>2
  <2> HIDE DEF p
  <2>4. p + Len(w.work) \in Nat
    BY <1>1, <2>3
  <2> QED BY <2>4 DEF Remaining, p
<1> QED BY <1>3, <1>4, <1>5, Bounds

(* The check accepts such a disk: the walk comes to every block, once.     *)
LEMMA CoherentPasses ==
  ASSUME NEW d, Coherent(d)
  PROVE  MountCheck(d) = "ok"
<1>1. d \in [Addr -> Block] /\ DOMAIN d = Addr
  BY DEF Coherent
<1>2. PICK f : /\ MountCheck(d) = f[StartWalk]
               /\ \A w \in Walks : f[w] = CheckStep(d, f, w)
  BY <1>1, CheckRuns
<1> DEFINE Bad == {w \in Walks : GoesWell(d, w) /\ f[w] # "ok"}
           T == {Remaining(w) : w \in Bad}
<1>3. ASSUME NEW w \in Walks, GoesWell(d, w), w.work = <<>> PROVE f[w] = "ok"
  <2>1. \A k \in Nat : ~ ToVisit(w, k)
    BY <1>3, WalkFields DEF ToVisit
  <2>2. 0 \in w.seen
    BY <1>3, <2>1, Zenon DEF GoesWell
  <2>3. \A b \in w.seen, i \in 0 .. Slots : To(d, b, i) \in w.seen \cup {0}
    BY <1>3, <2>1, Zenon DEF GoesWell
  <2>4. w.seen \in SUBSET Addr
    BY WalkFields
  <2>5. \A b \in w.seen, i \in 0 .. Slots : To(d, b, i) \in w.seen
    BY <2>2, <2>3
  <2>6. w.seen = Addr
    BY <2>2, <2>4, <2>5, Zenon DEF Coherent
  <2> QED BY <1>1, <1>2, <1>3, <2>6 DEF CheckStep
<1>4. ASSUME NEW w \in Bad PROVE \E x \in Bad : Remaining(x) < Remaining(w)
  <2>1. w \in Walks /\ GoesWell(d, w) /\ f[w] # "ok" /\ w.work # <<>>
    BY <1>3
  <2> DEFINE v == Head(w.work)
             m == Len(w.work)
  <2>2. Goes(d, w) \in Walks
    BY <1>1, <2>1, GoesOnWalks
  <2>3. Remaining(w) \in Nat /\ m \in Nat /\ m >= 1
    BY <2>1, SizeFacts, WalkFields
  <2>4. CASE Nowhere(v)
    <3> DEFINE x == Pass(w)
    <3>1. x \in Walks /\ f[w] = f[x]
      BY <1>2, <2>1, <2>2, <2>4 DEF Goes, CheckStep
    <3>2. GoesWell(d, x)
      BY <2>1, <2>4, WellPasses
    <3>3. x.seen = w.seen /\ Len(x.work) = m - 1
      BY <2>1, PassFields
    <3>4. Remaining(x) \in Nat
      BY <3>1, SizeFacts
    <3> HIDE DEF x
    <3> DEFINE p == (NumBlocks - Cardinality(w.seen)) * (Slots + 2)
    <3>5. Remaining(w) = p + m /\ Remaining(x) = p + (m - 1)
      BY <3>3 DEF Remaining
    <3>6. p \in Int
      BY <2>1, SizeFacts, Bounds
    <3> HIDE DEF p, m
    <3>7. Remaining(x) < Remaining(w)
      BY <2>3, <3>5, <3>6
    <3> QED BY <2>1, <3>1, <3>2, <3>7
  <2>5. CASE ~ Nowhere(v)
    <3> DEFINE x == WalkStep(d, w)
               c == Cardinality(w.seen)
    <3>1. /\ GoesWell(d, x) /\ v.blk \in Addr /\ v.blk \notin w.seen
          /\ HeaderOK(d[v.blk], v.as) /\ SizeOK(d[v.blk], v.as)
          /\ v.depth <= c + 1
          /\ x.seen = w.seen \cup {v.blk} /\ Len(x.work) = m + Slots
      BY <2>1, <2>5, WellSteps
    <3>2. c \in Nat /\ c < NumBlocks
      BY <2>1, <3>1, SizeFacts
    <3>3. Cardinality(DOMAIN d) = NumBlocks
      BY <1>1, Bounds, FS_Interval DEF Addr
    <3>4. v.depth \in Nat
      BY <2>1, WalkFields
    <3>5. ~ (v.depth > Cardinality(DOMAIN d))
      BY <3>1, <3>2, <3>3, <3>4, Bounds
    <3>6. x \in Walks /\ f[w] = f[x]
      BY <1>2, <2>1, <2>2, <2>5, <3>1, <3>5 DEF Goes, CheckStep
    <3>7. Cardinality(x.seen) = c + 1
      <4>1. IsFiniteSet(w.seen)
        <5>1. IsFiniteSet(Addr)
          BY Bounds, FS_Interval DEF Addr
        <5>2. w.seen \in SUBSET Addr
          BY <2>1, WalkFields
        <5> QED BY <5>1, <5>2, FS_Subset
      <4> QED BY <3>1, <4>1, FS_AddElement
    <3> HIDE DEF x, c
    <3>8. /\ Remaining(w) = (NumBlocks - c) * (Slots + 2) + m
          /\ Remaining(x) = (NumBlocks - (c + 1)) * (Slots + 2) + (m + Slots)
      BY <3>1, <3>7 DEF Remaining, c
    <3> HIDE DEF m
    <3>9. Remaining(x) = Remaining(w) - 2
      BY <2>3, <3>2, <3>8, Bounds, OneLess
    <3>10. Remaining(x) < Remaining(w)
      BY <2>3, <3>9
    <3> QED BY <2>1, <3>1, <3>6, <3>10
  <2> QED BY <2>4, <2>5
<1>5. Bad = {}
  <2>1. SUFFICES ASSUME Bad # {} PROVE FALSE
    OBVIOUS
  <2>2. T \in SUBSET Nat /\ T # {}
    BY <2>1, SizeFacts
  <2> HIDE DEF T
  <2>3. PICK n \in T : \A k \in T : n <= k
    BY <2>2, LeastNumber
  <2>4. PICK w \in Bad : n = Remaining(w)
    BY <2>3 DEF T
  <2>5. PICK x \in Bad : Remaining(x) < Remaining(w)
    BY <1>4, <2>4
  <2>6. Remaining(x) \in T /\ Remaining(x) \in Nat /\ n \in Nat
    BY <2>2, <2>5 DEF T
  <2> HIDE DEF Bad
  <2> QED BY <2>3, <2>4, <2>5, <2>6
<1>6. StartWalk \in Walks /\ GoesWell(d, StartWalk)
  BY WellStarts
<1> QED BY <1>2, <1>5, <1>6

=============================================================================
