----------------------------- MODULE HeapProofs -----------------------------
(***************************************************************************)
(* Proofs about Heap, for every size of the region, of the header and of   *)
(* the requests.  Two lemmas carry them: cutting a block and taking one in *)
(* keep the region tiled and leave the other blocks as they were.          *)
(***************************************************************************)
EXTENDS Heap, TLAPS

(* What cutting block b of blk to n bytes leaves.                          *)
Cut(blk, r, b, n) ==
  /\ DOMAIN blk \subseteq DOMAIN r
  /\ ~r[b].free
  /\ r[b].magic = blk[b].magic
  /\ n <= r[b].size
  /\ \A c \in DOMAIN blk \ {b} : /\ r[c].size = blk[c].size
                                /\ r[c].next = blk[c].next
                                /\ r[c].free = blk[c].free
                                /\ r[c].magic = blk[c].magic
  /\ \A c \in DOMAIN r \ DOMAIN blk : r[c].free /\ r[c].magic

(* What remains when block b of blk has taken in its successor.            *)
Joined(blk, r, b) ==
  LET gone == blk[b].next
  IN /\ DOMAIN r = DOMAIN blk \ {gone}
     /\ gone # b /\ gone \in DOMAIN blk /\ gone # 0
     /\ r[b].size = blk[b].size + HDR + blk[gone].size
     /\ r[b].next = blk[gone].next
     /\ r[b].free = blk[b].free
     /\ r[b].magic = blk[b].magic
     /\ \A c \in DOMAIN r \ {b} : /\ r[c].size = blk[c].size
                                 /\ r[c].next = blk[c].next
                                 /\ r[c].free = blk[c].free
                                 /\ r[c].magic = blk[c].magic

(* A header has the fields of a header.                                    *)
LEMMA HeaderFields ==
  ASSUME NEW blk, Blocks(blk), NEW b \in DOMAIN blk
  PROVE  /\ b \in Int /\ 0 <= b /\ b < HeapTotal
         /\ blk[b] = [size |-> blk[b].size, next |-> blk[b].next, prev |-> blk[b].prev,
                      free |-> blk[b].free, magic |-> blk[b].magic]
         /\ blk[b].size \in 0 .. HeapTotal
         /\ blk[b].next \in Address \cup {Nil}
         /\ blk[b].prev \in Address \cup {Nil}
         /\ blk[b].free \in BOOLEAN
         /\ blk[b].magic \in BOOLEAN
  BY HeapAssumption DEF Blocks, Header, Address

(* A block ends inside the region.                                         *)
LEMMA EndsInside ==
  ASSUME NEW blk, Blocks(blk), TiledBy(blk), NEW b \in DOMAIN blk
  PROVE  End(blk, b) <= HeapTotal
  <1>1. CASE blk[b].next = Nil
    BY <1>1, HeapAssumption DEF TiledBy, NextLinked
  <1>2. CASE blk[b].next # Nil
    BY <1>2, HeapAssumption DEF TiledBy, NextLinked, Blocks, Address
  <1> QED BY <1>1, <1>2

LEMMA SplitSound ==
  ASSUME NEW blk, Blocks(blk), TiledBy(blk), NEW b \in DOMAIN blk,
         NEW n \in Nat, n <= blk[b].size,
         blk[b].size - n - HDR >= HDR + Slack
  PROVE  LET r == SplitBlock(blk, b, n)
         IN Blocks(r) /\ TiledBy(r) /\ Cut(blk, r, b, n)
  <1> DEFINE r == SplitBlock(blk, b, n)
             rest == blk[b].size - n - HDR
             new == b + HDR + n
             after == blk[b].next
  <1>0. /\ HDR \in Nat /\ HDR > 0 /\ Slack \in Nat /\ HeapTotal \in Nat /\ Nil \notin Int
        /\ b \in Int /\ 0 <= b /\ blk[b].size \in Nat
    BY HeapAssumption, HeaderFields
  <1>1. rest \in 0 .. HeapTotal /\ new \in Address /\ End(blk, b) = new + HDR + rest
    BY <1>0, EndsInside DEF Address, End, Payload
  <1>2. new \notin DOMAIN blk /\ new > b
    BY <1>0, <1>1 DEF TiledBy, Apart
  <1>3. r = [c \in DOMAIN blk \cup {new} |->
             CASE c = new -> [size |-> rest, next |-> after, prev |-> b,
                              free |-> TRUE, magic |-> TRUE]
               [] c = b -> [blk[b] EXCEPT !.size = n, !.free = FALSE, !.next = new]
               [] c = after -> [blk[c] EXCEPT !.prev = new]
               [] OTHER -> blk[c]]
    BY <1>0, <1>1 DEF SplitBlock
  <1>4. after = Nil \/ (after \in DOMAIN blk /\ after = End(blk, b) /\ blk[after].prev = b)
    BY DEF TiledBy, NextLinked
  <1>5. after # b /\ after # new
    BY <1>0, <1>1, <1>2, <1>4 DEF End, Payload
  <1>6. DOMAIN r = DOMAIN blk \cup {new}
    BY <1>3
  <1>7. r[new] = [size |-> rest, next |-> after, prev |-> b, free |-> TRUE, magic |-> TRUE]
    <2> HIDE DEF r, rest, new, after
    <2> QED BY <1>2, <1>3, <1>5
  <1>8. /\ r[b] \in Header
        /\ r[b].size = n /\ r[b].next = new /\ r[b].prev = blk[b].prev
        /\ ~r[b].free /\ r[b].magic = blk[b].magic
    <2>1. r[b] = [blk[b] EXCEPT !.size = n, !.free = FALSE, !.next = new]
      <3> HIDE DEF r, rest, new, after
      <3> QED BY <1>2, <1>3, <1>5
    <2>2. blk[b] \in Header /\ n \in 0 .. HeapTotal /\ new \in Address \cup {Nil}
      BY <1>0, <1>1, HeaderFields DEF Blocks
    <2> HIDE DEF r, new
    <2>3. r[b] \in Header
      BY <2>1, <2>2 DEF Header
    <2>4. /\ r[b].size = n /\ r[b].next = new /\ r[b].prev = blk[b].prev
          /\ r[b].free = FALSE /\ r[b].magic = blk[b].magic
      BY <2>1, <2>2 DEF Header
    <2> QED BY <2>3, <2>4
  <1>9. \A c \in DOMAIN blk \ {b} :
          /\ r[c] \in Header
          /\ r[c].size = blk[c].size /\ r[c].next = blk[c].next
          /\ r[c].prev = IF c = after THEN new ELSE blk[c].prev
          /\ r[c].free = blk[c].free /\ r[c].magic = blk[c].magic
    <2> TAKE c \in DOMAIN blk \ {b}
    <2>0. blk[c] \in Header /\ new \in Address
      BY <1>1 DEF Blocks
    <2> HIDE DEF r, rest, new, after
    <2>1. CASE c = after
      <3>1. r[c] = [blk[c] EXCEPT !.prev = new]
        BY <2>1, <1>2, <1>3, <1>5
      <3> QED BY <2>0, <2>1, <3>1 DEF Header
    <2>2. CASE c # after
      BY <2>0, <2>2, <1>2, <1>3
    <2> QED BY <2>1, <2>2
  <1>10. Blocks(r)
    <2>1. \A c \in DOMAIN r : r[c] \in Header
      <3> TAKE c \in DOMAIN r
      <3>1. CASE c = new
        BY <3>1, <1>0, <1>1, <1>7, HeaderFields DEF Header, Address
      <3>2. CASE c = b
        BY <3>2, <1>8
      <3>3. CASE c \in DOMAIN blk \ {b}
        BY <3>3, <1>9
      <3> QED BY <3>1, <3>2, <3>3, <1>6
    <2>2. r = [c \in DOMAIN r |-> r[c]]
      BY <1>3, <1>6
    <2>3. DOMAIN r \subseteq Address
      BY <1>1, <1>6 DEF Blocks
    <2> HIDE DEF r
    <2> QED BY <2>1, <2>2, <2>3 DEF Blocks
  <1>11. TiledBy(r)
    <2> HIDE DEF r
    <2>0. 0 \in DOMAIN r
      BY <1>6 DEF TiledBy
    <2>1. \A c \in DOMAIN r : PrevLinked(r, c)
      <3> TAKE c \in DOMAIN r
      <3>1. CASE c = new
        BY <3>1, <1>0, <1>2, <1>6, <1>7, <1>8 DEF PrevLinked
      <3>2. CASE c = b
        <4>1. CASE b = 0
          BY <4>1, <3>2, <1>8 DEF PrevLinked, TiledBy
        <4>2. CASE b # 0
          <5>1. blk[b].prev \in DOMAIN blk /\ blk[blk[b].prev].next = b
            BY <4>2 DEF TiledBy, PrevLinked
          <5>2. blk[b].prev # b
            BY <5>1, <1>5
          <5> QED BY <5>1, <5>2, <4>2, <3>2, <1>6, <1>8, <1>9 DEF PrevLinked
        <4> QED BY <4>1, <4>2
      <3>3. CASE c \in DOMAIN blk \ {b} /\ c = after
        BY <3>3, <1>0, <1>1, <1>2, <1>4, <1>6, <1>7, <1>9 DEF PrevLinked
      <3>4. CASE c \in DOMAIN blk \ {b} /\ c # after
        <4>1. PrevLinked(blk, c) /\ r[c].prev = blk[c].prev
          BY <3>4, <1>9 DEF TiledBy
        <4>2. c # 0 => blk[c].prev # b
          BY <4>1, <3>4 DEF PrevLinked
        <4> QED BY <4>1, <4>2, <3>4, <1>6, <1>9 DEF PrevLinked
      <3> QED BY <3>1, <3>2, <3>3, <3>4, <1>6
    <2>2. \A c \in DOMAIN r : NextLinked(r, c)
      <3> TAKE c \in DOMAIN r
      <3>1. CASE c = new
        <4>1. End(r, new) = End(blk, b)
          BY <1>0, <1>1, <1>7 DEF End, Payload
        <4>2. CASE after = Nil
          BY <4>1, <4>2, <3>1, <1>7 DEF TiledBy, NextLinked
        <4>3. CASE after # Nil
          BY <4>1, <4>3, <3>1, <1>4, <1>5, <1>6, <1>7, <1>9 DEF NextLinked
        <4> QED BY <4>2, <4>3
      <3>2. CASE c = b
        BY <3>2, <1>0, <1>1, <1>6, <1>7, <1>8 DEF NextLinked, End, Payload, Address
      <3>3. CASE c \in DOMAIN blk \ {b}
        <4>1. NextLinked(blk, c) /\ End(r, c) = End(blk, c) /\ r[c].next = blk[c].next
          BY <3>3, <1>9 DEF TiledBy, End
        <4>2. CASE blk[c].next = Nil
          BY <4>1, <4>2 DEF NextLinked
        <4>3. CASE blk[c].next # Nil
          <5>1. End(blk, c) \in DOMAIN blk /\ blk[End(blk, c)].prev = c
            BY <4>1, <4>3 DEF NextLinked
          <5>2. End(blk, c) # after
            BY <5>1, <3>3, <1>4, HeapAssumption DEF Blocks, Address
          <5>3. CASE End(blk, c) = b
            BY <5>1, <5>3, <4>1, <1>6, <1>8 DEF NextLinked
          <5>4. CASE End(blk, c) # b
            BY <5>1, <5>2, <5>4, <4>1, <1>6, <1>9 DEF NextLinked
          <5> QED BY <5>3, <5>4
        <4> QED BY <4>2, <4>3
      <3> QED BY <3>1, <3>2, <3>3, <1>6
    <2>3. \A c \in DOMAIN r : Apart(r, c)
      <3> SUFFICES ASSUME NEW c \in DOMAIN r, NEW d \in DOMAIN r, c < d
                   PROVE  End(r, c) <= d
        BY DEF Apart
      <3>0. \A x, y \in DOMAIN blk : x < y => End(blk, x) <= y
        BY DEF TiledBy, Apart
      <3>1. \A x \in DOMAIN blk : x \in Int /\ blk[x].size \in Nat
        BY HeaderFields
      <3>2. End(r, new) = End(blk, b) /\ End(r, b) = new
        BY <1>0, <1>1, <1>7, <1>8 DEF End, Payload
      <3>3. \A x \in DOMAIN blk \ {b} : End(r, x) = End(blk, x)
        BY <1>9 DEF End
      <3>4. new \in Int /\ new < End(blk, b)
        BY <1>0, <1>1 DEF Address
      <3>5. CASE c = new
        BY <3>5, <3>0, <3>1, <3>2, <1>0, <1>2, <1>6, <3>4
      <3>6. CASE c = b
        <4>1. CASE d = new
          BY <4>1, <3>6, <3>2, <3>4
        <4>2. CASE d \in DOMAIN blk
          <5>1. End(blk, b) <= d /\ d \in Int
            BY <4>2, <3>6, <3>0, <3>1
          <5> HIDE DEF new
          <5> QED BY <5>1, <3>2, <3>4, <3>6, <1>0 DEF End, Payload
        <4> QED BY <4>1, <4>2, <1>6
      <3>7. CASE c \in DOMAIN blk \ {b}
        <4>1. CASE d = new
          <5>1. c < b
            <6>1. CASE c > b
              BY <6>1, <4>1, <3>0, <3>1, <3>4, <3>7, <1>0 DEF End, Payload
            <6> QED BY <6>1, <3>1, <3>7, <1>0
          <5> QED BY <5>1, <4>1, <3>0, <3>1, <3>3, <3>4, <3>7, <1>0, <1>2 DEF End, Payload
        <4>2. CASE d \in DOMAIN blk
          BY <4>2, <3>0, <3>3, <3>7
        <4> QED BY <4>1, <4>2, <1>6
      <3> QED BY <3>5, <3>6, <3>7, <1>6
    <2> QED BY <2>0, <2>1, <2>2, <2>3 DEF TiledBy
  <1>12. Cut(blk, r, b, n)
    <2> HIDE DEF r
    <2> QED BY <1>0, <1>6, <1>7, <1>8, <1>9 DEF Cut
  <1> QED BY <1>10, <1>11, <1>12

LEMMA CarveSound ==
  ASSUME NEW blk, Blocks(blk), TiledBy(blk), NEW b \in DOMAIN blk,
         NEW n \in Nat, n <= blk[b].size
  PROVE  LET r == Carve(blk, b, n)
         IN Blocks(r) /\ TiledBy(r) /\ Cut(blk, r, b, n)
  <1> DEFINE t == [blk EXCEPT ![b].free = FALSE]
  <1>0. \A c \in DOMAIN blk : blk[c] \in Header
    BY DEF Blocks
  <1>1. /\ DOMAIN t = DOMAIN blk
        /\ t = [c \in DOMAIN t |-> t[c]]
        /\ t[b] \in Header
        /\ t[b].free = FALSE
        /\ \A c \in DOMAIN blk : /\ c # b => t[c] = blk[c]
                                 /\ t[c].size = blk[c].size /\ t[c].next = blk[c].next
                                 /\ t[c].prev = blk[c].prev /\ t[c].magic = blk[c].magic
    BY <1>0 DEF Header, Blocks
  <1>2. Blocks(t) /\ TiledBy(t) /\ Cut(blk, t, b, n)
    <2> HIDE DEF t
    <2>1. Blocks(t)
      BY <1>0, <1>1 DEF Blocks
    <2>2. \A c \in DOMAIN t : End(t, c) = End(blk, c)
      BY <1>1 DEF End
    <2>3. TiledBy(t)
      <3>1. \A c \in DOMAIN t : PrevLinked(t, c)
        BY <1>1 DEF TiledBy, PrevLinked
      <3>2. \A c \in DOMAIN t : NextLinked(t, c)
        BY <1>1, <2>2 DEF TiledBy, NextLinked
      <3>3. \A c \in DOMAIN t : Apart(t, c)
        BY <1>1, <2>2 DEF TiledBy, Apart
      <3> QED BY <1>1, <3>1, <3>2, <3>3 DEF TiledBy
    <2>4. Cut(blk, t, b, n)
      BY <1>1 DEF Cut
    <2> QED BY <2>1, <2>3, <2>4
  <1>3. CASE Carve(blk, b, n) = t
    BY <1>2, <1>3
  <1>4. CASE Carve(blk, b, n) # t
    <2>1. Carve(blk, b, n) = SplitBlock(blk, b, n)
      BY <1>4 DEF Carve
    <2>2. ~(blk[b].size - n - HDR < HDR + Slack)
      BY <1>4, <2>1 DEF SplitBlock
    <2>3. blk[b].size - n - HDR >= HDR + Slack
      BY <2>2, HeapAssumption, HeaderFields
    <2> QED BY <2>1, <2>3, SplitSound
  <1> QED BY <1>3, <1>4

LEMMA AbsorbSound ==
  ASSUME NEW blk, Blocks(blk), TiledBy(blk), NEW b \in DOMAIN blk, blk[b].next # Nil
  PROVE  LET r == Absorb(blk, b)
         IN Blocks(r) /\ TiledBy(r) /\ Joined(blk, r, b)
  <1> DEFINE r == Absorb(blk, b)
             gone == blk[b].next
             after == blk[gone].next
             sum == blk[b].size + HDR + blk[gone].size
  <1>0. /\ HDR \in Nat /\ HDR > 0 /\ HeapTotal \in Nat /\ Nil \notin Int
        /\ \A c \in DOMAIN blk : /\ blk[c] \in Header
                                 /\ c \in Int /\ 0 <= c /\ blk[c].size \in Nat
                                 /\ c < End(blk, c)
                                 /\ End(blk, c) \in Int /\ End(blk, c) <= HeapTotal
    BY HeapAssumption, HeaderFields, EndsInside DEF Blocks, End, Payload
  <1>1. gone \in DOMAIN blk /\ gone = End(blk, b) /\ gone > b /\ blk[gone].prev = b
    BY <1>0 DEF TiledBy, NextLinked
  <1>2. after = Nil \/ (after \in DOMAIN blk /\ after = End(blk, gone)
                       /\ after > gone /\ blk[after].prev = gone)
    BY <1>0, <1>1 DEF TiledBy, NextLinked
  <1>3. /\ r = [c \in DOMAIN blk \ {gone} |->
                  CASE c = b -> [blk[b] EXCEPT !.size = @ + HDR + blk[gone].size, !.next = after]
                    [] c = after -> [blk[c] EXCEPT !.prev = b]
                    [] OTHER -> blk[c]]
    BY DEF Absorb
  <1>d. DOMAIN r = DOMAIN blk \ {gone}
    BY DEF Absorb
  <1>4. sum \in 0 .. HeapTotal /\ b + HDR + sum = End(blk, gone)
    BY <1>0, <1>1 DEF End, Payload
  <1>5. after # b
    BY <1>0, <1>1, <1>2
  <1>6. /\ r[b] \in Header
        /\ r[b].size = sum /\ r[b].next = after /\ r[b].prev = blk[b].prev
        /\ r[b].free = blk[b].free /\ r[b].magic = blk[b].magic
    <2>1. r[b] = [blk[b] EXCEPT !.size = @ + HDR + blk[gone].size, !.next = after]
      <3> HIDE DEF r, gone, after
      <3> QED BY <1>1, <1>3, <1>5, <1>0
    <2>2. blk[b] \in Header /\ after \in Address \cup {Nil} /\ sum \in 0 .. HeapTotal
      BY <1>1, <1>4, HeaderFields DEF Blocks
    <2> HIDE DEF r, after, gone
    <2>3. r[b] \in Header
      BY <2>1, <2>2 DEF Header
    <2>4. /\ r[b].size = sum /\ r[b].next = after /\ r[b].prev = blk[b].prev
          /\ r[b].free = blk[b].free /\ r[b].magic = blk[b].magic
      BY <2>1, <2>2 DEF Header
    <2> QED BY <2>3, <2>4
  <1>7. \A c \in DOMAIN r \ {b} :
          /\ r[c] \in Header
          /\ r[c].size = blk[c].size /\ r[c].next = blk[c].next
          /\ r[c].prev = IF c = after THEN b ELSE blk[c].prev
          /\ r[c].free = blk[c].free /\ r[c].magic = blk[c].magic
    <2> TAKE c \in DOMAIN r \ {b}
    <2>0. blk[c] \in Header /\ b \in Address /\ c \in DOMAIN blk \ {gone} /\ c # b
      BY <1>0, <1>d DEF Blocks
    <2> HIDE DEF r, gone, after
    <2>1. CASE c = after
      <3>1. r[c] = [blk[c] EXCEPT !.prev = b]
        BY <2>0, <2>1, <1>3, <1>5
      <3> QED BY <2>0, <2>1, <3>1 DEF Header
    <2>2. CASE c # after
      BY <2>0, <2>2, <1>3
    <2> QED BY <2>1, <2>2
  <1>8. b \in DOMAIN r /\ \A c \in DOMAIN r : c \in DOMAIN blk /\ c # gone
    BY <1>0, <1>1, <1>d
  <1> HIDE DEF r
  <1>9. Blocks(r)
    <2>1. r = [c \in DOMAIN r |-> r[c]]
      BY <1>3, <1>d
    <2> QED BY <2>1, <1>d, <1>6, <1>7 DEF Blocks
  <1>10. TiledBy(r)
    <2>0. 0 \in DOMAIN r
      BY <1>0, <1>1, <1>d DEF TiledBy
    <2>1. \A c \in DOMAIN r : PrevLinked(r, c)
      <3> TAKE c \in DOMAIN r
      <3>0. PrevLinked(blk, c) /\ c \in DOMAIN blk /\ c # gone
        BY <1>8 DEF TiledBy
      <3>1. CASE c = b
        <4>1. CASE b = 0
          BY <4>1, <3>0, <3>1, <1>6 DEF PrevLinked
        <4>2. CASE b # 0
          <5> DEFINE q == blk[b].prev
          <5>1. q \in DOMAIN blk /\ blk[q].next = b
            BY <4>2, <3>0, <3>1 DEF PrevLinked
          <5>2. q # gone /\ q # b
            BY <5>1, <1>0, <1>1, <1>2, <1>5
          <5> QED BY <5>1, <5>2, <4>2, <3>1, <1>d, <1>6, <1>7 DEF PrevLinked
        <4> QED BY <4>1, <4>2
      <3>2. CASE c # b /\ c = after
        BY <3>2, <1>0, <1>1, <1>2, <1>6, <1>7, <1>8 DEF PrevLinked
      <3>3. CASE c # b /\ c # after
        <4>1. r[c].prev = blk[c].prev
          BY <3>3, <1>7
        <4>2. c # 0 => blk[c].prev # b /\ blk[c].prev # gone
          BY <3>0, <3>3 DEF PrevLinked
        <4> QED BY <4>1, <4>2, <3>0, <3>3, <1>d, <1>7 DEF PrevLinked
      <3> QED BY <3>1, <3>2, <3>3
    <2>2. \A c \in DOMAIN r : NextLinked(r, c)
      <3> TAKE c \in DOMAIN r
      <3>0. NextLinked(blk, c) /\ c \in DOMAIN blk /\ c # gone
        BY <1>8 DEF TiledBy
      <3>1. CASE c = b
        <4>1. End(r, b) = End(blk, gone)
          BY <1>4, <1>6 DEF End, Payload
        <4>2. CASE after = Nil
          BY <4>1, <4>2, <3>1, <1>1, <1>6 DEF TiledBy, NextLinked
        <4>3. CASE after # Nil
          BY <4>1, <4>3, <3>1, <1>0, <1>1, <1>2, <1>d, <1>5, <1>6, <1>7 DEF NextLinked
        <4> QED BY <4>2, <4>3
      <3>2. CASE c # b
        <4>1. End(r, c) = End(blk, c) /\ r[c].next = blk[c].next
          BY <3>2, <1>7 DEF End
        <4>2. CASE blk[c].next = Nil
          BY <4>1, <4>2, <3>0 DEF NextLinked
        <4>3. CASE blk[c].next # Nil
          <5> DEFINE e == End(blk, c)
          <5>1. e \in DOMAIN blk /\ blk[e].prev = c
            BY <4>3, <3>0 DEF NextLinked
          <5>2. e # gone /\ e # after
            BY <5>1, <3>0, <3>2, <1>0, <1>1, <1>2
          <5>3. r[e].prev = c /\ e \in DOMAIN r
            BY <5>1, <5>2, <1>d, <1>6, <1>7
          <5> QED BY <5>3, <4>1, <4>3, <3>0 DEF NextLinked
        <4> QED BY <4>2, <4>3
      <3> QED BY <3>1, <3>2
    <2>3. \A c \in DOMAIN r : Apart(r, c)
      <3> SUFFICES ASSUME NEW c \in DOMAIN r, NEW d \in DOMAIN r, c < d
                   PROVE  End(r, c) <= d
        BY DEF Apart
      <3>0. \A x, y \in DOMAIN blk : x < y => End(blk, x) <= y
        BY DEF TiledBy, Apart
      <3>1. CASE c = b
        <4>1. End(r, b) = End(blk, gone)
          BY <1>4, <1>6 DEF End, Payload
        <4>2. gone < d
          BY <3>0, <3>1, <1>0, <1>1, <1>8
        <4> QED BY <4>1, <4>2, <3>0, <3>1, <1>1, <1>8
      <3>2. CASE c # b
        <4>1. End(r, c) = End(blk, c)
          BY <3>2, <1>7 DEF End
        <4> QED BY <4>1, <3>0, <1>8
      <3> QED BY <3>1, <3>2
    <2> QED BY <2>0, <2>1, <2>2, <2>3 DEF TiledBy
  <1>11. Joined(blk, r, b)
    <2>1. gone # 0
      BY <1>0, <1>1
    <2>2. gone # b /\ gone \in DOMAIN blk
      BY <1>0, <1>1
    <2>3. \A c \in DOMAIN r \ {b} : /\ r[c].size = blk[c].size /\ r[c].next = blk[c].next
                                     /\ r[c].free = blk[c].free /\ r[c].magic = blk[c].magic
      BY <1>7
    <2> QED BY <2>1, <2>2, <2>3, <1>d, <1>6 DEF Joined
  <1> QED BY <1>9, <1>10, <1>11 DEF r

-----------------------------------------------------------------------------
(* The region is still tiled when headers change only in free and magic.   *)
LEMMA SameShape ==
  ASSUME NEW blk, TiledBy(blk), NEW t, DOMAIN t = DOMAIN blk,
         \A c \in DOMAIN blk : /\ t[c].size = blk[c].size
                              /\ t[c].next = blk[c].next
                              /\ t[c].prev = blk[c].prev
  PROVE  TiledBy(t)
  <1>1. \A c \in DOMAIN t : End(t, c) = End(blk, c)
    BY DEF End
  <1>2. \A c \in DOMAIN t : PrevLinked(t, c)
    BY DEF TiledBy, PrevLinked
  <1>3. \A c \in DOMAIN t : NextLinked(t, c)
    BY <1>1 DEF TiledBy, NextLinked
  <1>4. \A c \in DOMAIN t : Apart(t, c)
    BY <1>1 DEF TiledBy, Apart
  <1> QED BY <1>2, <1>3, <1>4 DEF TiledBy

(* Every block but b, which is being handed over, is owned as it should be.*)
OwnedBut(blk, f, b) ==
  /\ \A p \in DOMAIN f : Owns(blk, f, p) /\ BlockOf(f[p].raw) # b
  /\ \A p, q \in DOMAIN f : f[p].raw = f[q].raw => p = q
  /\ \A c \in DOMAIN blk \ {b} :
       ~blk[c].free => \/ ~blk[c].magic
                       \/ \E p \in DOMAIN f : f[p].raw = Payload(c)

(* t differs from blk in the header of b alone.                            *)
SameBut(blk, t, b) ==
  /\ DOMAIN t = DOMAIN blk
  /\ \A c \in DOMAIN blk \ {b} : /\ t[c].size = blk[c].size
                                /\ t[c].free = blk[c].free
                                /\ t[c].magic = blk[c].magic

LEMMA OwnedButFree ==
  ASSUME NEW blk, NEW f, Owned(blk, f), NEW b \in DOMAIN blk, blk[b].free
  PROVE  OwnedBut(blk, f, b)
  BY DEF Owned, OwnedBut, Owns

LEMMA OwnedButDropped ==
  ASSUME NEW blk, Blocks(blk), NEW f, Pointers(f), Owned(blk, f), NEW p \in DOMAIN f
  PROVE  /\ OwnedBut(blk, Drop(f, p), BlockOf(f[p].raw))
         /\ Pointers(Drop(f, p))
  <1> DEFINE g == Drop(f, p)
  <1>1. /\ DOMAIN g = DOMAIN f \ {p}
        /\ g = [q \in DOMAIN g |-> g[q]]
        /\ \A q \in DOMAIN g : g[q] = f[q]
    BY DEF Drop
  <1>2. \A q \in DOMAIN f : f[q].raw \in Int
    BY DEF Pointers, Address
  <1>3. HDR \in Int /\ \A c \in DOMAIN blk : c \in Int
    BY HeapAssumption DEF Blocks, Address
  <1> HIDE DEF g
  <1>4. Pointers(g)
    BY <1>1 DEF Pointers
  <1>5. \A q \in DOMAIN g : Owns(blk, g, q) /\ BlockOf(g[q].raw) # BlockOf(f[p].raw)
    BY <1>1, <1>2, <1>3 DEF Owned, Owns, BlockOf
  <1>6. \A c \in DOMAIN blk \ {BlockOf(f[p].raw)} :
          ~blk[c].free => \/ ~blk[c].magic
                          \/ \E q \in DOMAIN g : g[q].raw = Payload(c)
    BY <1>1, <1>2, <1>3 DEF Owned, BlockOf, Payload
  <1>7. \A q, s \in DOMAIN g : g[q].raw = g[s].raw => q = s
    BY <1>1 DEF Owned
  <1> QED BY <1>4, <1>5, <1>6, <1>7 DEF OwnedBut, g

LEMMA OwnedButSame ==
  ASSUME NEW blk, NEW f, NEW b, OwnedBut(blk, f, b), NEW t, SameBut(blk, t, b)
  PROVE  OwnedBut(t, f, b)
  BY DEF OwnedBut, Owns, SameBut, End

LEMMA OwnedButCut ==
  ASSUME NEW blk, NEW f, NEW b, OwnedBut(blk, f, b), NEW r, NEW n, Cut(blk, r, b, n)
  PROVE  OwnedBut(r, f, b)
  BY DEF OwnedBut, Owns, Cut, End

LEMMA OwnedButJoined ==
  ASSUME NEW blk, NEW f, NEW b, OwnedBut(blk, f, b), NEW r, Joined(blk, r, b),
         blk[blk[b].next].free
  PROVE  OwnedBut(r, f, b)
  BY DEF OwnedBut, Owns, Joined, End

(* A block that is free, or whose magic is bad, need not be owned.         *)
LEMMA OwnedWithout ==
  ASSUME NEW blk, NEW f, NEW b, OwnedBut(blk, f, b), blk[b].free \/ ~blk[b].magic
  PROVE  Owned(blk, f)
  BY DEF OwnedBut, Owned

(* Pointers into different blocks are different, and so are their extents. *)
LEMMA ApartInBlocks ==
  ASSUME NEW blk, Blocks(blk), TiledBy(blk),
         NEW x \in DOMAIN blk, NEW y \in DOMAIN blk, x # y,
         NEW p \in Int, NEW q \in Int, NEW m \in Int, NEW n \in Int,
         Payload(x) <= p, p + m <= End(blk, x),
         Payload(y) <= q, q + n <= End(blk, y)
  PROVE  p + m <= q \/ q + n <= p
  <1>1. /\ HDR \in Int /\ HDR > 0 /\ x \in Int /\ y \in Int
        /\ End(blk, x) \in Int /\ End(blk, y) \in Int
    BY HeapAssumption, HeaderFields DEF End, Payload
  <1>2. x < y => End(blk, x) <= y
    BY DEF TiledBy, Apart
  <1>3. y < x => End(blk, y) <= x
    BY DEF TiledBy, Apart
  <1> QED BY <1>1, <1>2, <1>3 DEF Payload

(* Handing block b over as pointer p makes everything owned again.         *)
LEMMA GrantOwned ==
  ASSUME NEW blk, Blocks(blk), TiledBy(blk), NEW f, Pointers(f),
         NEW b \in DOMAIN blk, OwnedBut(blk, f, b), ~blk[b].free,
         NEW p \in Int, NEW n \in Requests, NEW al \in BOOLEAN,
         Payload(b) <= p, p + n <= End(blk, b),
         ~al => p = Payload(b) /\ blk[b].magic
  PROVE  LET g == Hold(f, p, Payload(b), n, al)
         IN p \notin DOMAIN f /\ Pointers(g) /\ Owned(blk, g)
  <1> DEFINE g == Hold(f, p, Payload(b), n, al)
  <1>0. /\ HDR \in Int /\ HDR > 0 /\ HeapTotal \in Int
        /\ Requests \subseteq Int /\ \A m \in Requests : m >= 1
        /\ \A c \in DOMAIN blk : c \in Int /\ 0 <= c /\ End(blk, c) \in Int
        /\ \A q \in DOMAIN f : /\ q \in Int /\ f[q].raw \in Int /\ f[q].want \in Int
                               /\ f[q].want >= 1
    <2>1. \A c \in DOMAIN blk : c \in Int /\ 0 <= c /\ End(blk, c) \in Int
      BY HeapAssumption, HeaderFields DEF End, Payload
    <2> QED BY <2>1, HeapAssumption DEF Pointers, Address
  <1>1. /\ p \in Address /\ Payload(b) \in Address
    BY <1>0, EndsInside DEF Address, Payload
  <1>2. p \notin DOMAIN f
    <2> SUFFICES ASSUME p \in DOMAIN f PROVE FALSE
      OBVIOUS
    <2>1. /\ BlockOf(f[p].raw) \in DOMAIN blk /\ BlockOf(f[p].raw) # b
          /\ f[p].raw <= p /\ p + f[p].want <= End(blk, BlockOf(f[p].raw))
      BY DEF OwnedBut, Owns
    <2>2. Payload(BlockOf(f[p].raw)) = f[p].raw
      BY <1>0 DEF Payload, BlockOf
    <2> DEFINE c == BlockOf(f[p].raw)
    <2>3. /\ c \in DOMAIN blk /\ c # b /\ Payload(c) <= p /\ p + f[p].want <= End(blk, c)
          /\ n \in Int /\ f[p].want \in Int
      BY <1>0, <2>1, <2>2
    <2> HIDE DEF c
    <2>4. p + n <= p \/ p + f[p].want <= p
      BY <2>3, ApartInBlocks
    <2> QED BY <2>4, <1>0
  <1>3. /\ DOMAIN g = DOMAIN f \cup {p}
        /\ g = [q \in DOMAIN g |-> g[q]]
        /\ g[p] = [raw |-> Payload(b), want |-> n, aligned |-> al]
        /\ \A q \in DOMAIN f : g[q] = f[q]
    BY <1>2 DEF Hold
  <1> HIDE DEF g
  <1>4. Pointers(g)
    BY <1>1, <1>3 DEF Pointers
  <1>5. BlockOf(Payload(b)) = b
    BY <1>0 DEF Payload, BlockOf
  <1>6. \A q \in DOMAIN g : Owns(blk, g, q)
    <2>1. Owns(blk, g, p)
      BY <1>3, <1>5 DEF Owns
    <2>2. \A q \in DOMAIN f : Owns(blk, g, q)
      BY <1>3 DEF Owns, OwnedBut
    <2> QED BY <2>1, <2>2, <1>3
  <1>7. \A q, s \in DOMAIN g : g[q].raw = g[s].raw => q = s
    BY <1>3, <1>5 DEF OwnedBut
  <1>8. \A c \in DOMAIN blk :
          ~blk[c].free => \/ ~blk[c].magic
                          \/ \E q \in DOMAIN g : g[q].raw = Payload(c)
    BY <1>3 DEF OwnedBut
  <1> QED BY <1>2, <1>4, <1>6, <1>7, <1>8 DEF Owned, g

-----------------------------------------------------------------------------
(* Rounding never loses a byte of a request that does not wrap.            *)
LEMMA RoundUpCovers ==
  ASSUME NEW n \in 1 .. WordSize - 4
  PROVE  RoundUp(n) \in Nat /\ n <= RoundUp(n)
  BY HeapAssumption DEF RoundUp

(* An address is moved forward by less than the alignment.                 *)
LEMMA AlignUpNear ==
  ASSUME NEW a \in Int, NEW al \in Nat \ {0}
  PROVE  AlignUp(a, al) \in Int /\ a <= AlignUp(a, al) /\ AlignUp(a, al) < a + al
  <1>1. a % al \in Int /\ 0 <= a % al /\ a % al < al
    OBVIOUS
  <1>2. CASE a % al = 0
    BY <1>2 DEF AlignUp
  <1>3. CASE a % al # 0
    BY <1>1, <1>3 DEF AlignUp
  <1> QED BY <1>2, <1>3

(* A free block has its magic, and the block being merged is free.         *)
FreeIntact(blk) == \A b \in DOMAIN blk : blk[b].free => blk[b].magic
MergingFree == merging # Nil => block[merging].free

(* The second block is not free beside a free first one, unless one of     *)
(* them is being merged.  Further on free blocks may lie side by side, but *)
(* then a block in use precedes them, whose release takes them all in.     *)
FrontMerged(blk, m) ==
  (blk[0].free /\ blk[0].next # Nil /\ m # 0 /\ m # blk[0].next)
    => ~blk[blk[0].next].free

IInv == /\ TypeOK /\ Tiled /\ BlocksOwned
        /\ FreeIntact(block) /\ MergingFree /\ FrontMerged(block, merging)

LEMMA InitIInv == Init => IInv
  <1> SUFFICES ASSUME Init PROVE IInv
    OBVIOUS
  <1>0. HDR \in Nat /\ HDR > 0 /\ HeapTotal \in Nat /\ HeapTotal > HDR /\ Nil \notin Int
    BY HeapAssumption
  <1> DEFINE h == [size |-> HeapTotal - HDR, next |-> Nil, prev |-> Nil,
                   free |-> TRUE, magic |-> TRUE]
  <1>1. /\ block = [b \in {0} |-> h] /\ DOMAIN block = {0} /\ block[0] = h
        /\ h \in Header
        /\ merging = Nil /\ DOMAIN live = {} /\ live = [p \in {} |-> 0]
        /\ lost = {}
    BY <1>0 DEF Init, Header
  <1>2. Blocks(block)
    BY <1>0, <1>1 DEF Blocks, Address
  <1>3. Pointers(live)
    BY <1>1 DEF Pointers
  <1>4. Tiled
    BY <1>0, <1>1 DEF Tiled, TiledBy, PrevLinked, NextLinked, Apart, End, Payload
  <1>5. BlocksOwned
    BY <1>1 DEF BlocksOwned, Owned
  <1>6. FreeIntact(block) /\ MergingFree /\ FrontMerged(block, merging)
    BY <1>1 DEF FreeIntact, MergingFree, FrontMerged
  <1> QED BY <1>1, <1>2, <1>3, <1>4, <1>5, <1>6 DEF IInv, TypeOK

LEMMA FrontCut ==
  ASSUME NEW blk, TiledBy(blk), NEW b \in DOMAIN blk, NEW n, NEW r, Cut(blk, r, b, n),
         FrontMerged(blk, Nil), FreeIntact(blk), 0 # Nil, Nil \notin DOMAIN blk
  PROVE  FrontMerged(r, Nil) /\ FreeIntact(r)
  <1>1. FreeIntact(r)
    BY DEF FreeIntact, Cut
  <1>2. FrontMerged(r, Nil)
    <2> SUFFICES ASSUME r[0].free, r[0].next # Nil PROVE ~r[r[0].next].free
      BY DEF FrontMerged
    <2>1. 0 \in DOMAIN blk \ {b} /\ r[0].next = blk[0].next /\ blk[0].free
      BY DEF Cut, TiledBy
    <2>2. blk[0].next \in DOMAIN blk
      BY <2>1 DEF TiledBy, NextLinked
    <2> QED BY <2>1, <2>2 DEF Cut, FrontMerged
  <1> QED BY <1>1, <1>2

LEMMA FrontJoined ==
  ASSUME NEW blk, TiledBy(blk), NEW b \in DOMAIN blk, NEW r, Joined(blk, r, b), ~blk[b].free,
         FrontMerged(blk, Nil), FreeIntact(blk), 0 # Nil, Nil \notin DOMAIN blk
  PROVE  FrontMerged(r, Nil) /\ FreeIntact(r)
  <1>1. FreeIntact(r)
    BY DEF FreeIntact, Joined
  <1>2. FrontMerged(r, Nil)
    <2> SUFFICES ASSUME r[0].free, r[0].next # Nil PROVE ~r[r[0].next].free
      BY DEF FrontMerged
    <2>1. 0 # b /\ 0 \in DOMAIN r /\ r[0].next = blk[0].next /\ blk[0].free
      BY DEF Joined, TiledBy
    <2>2. blk[0].next \in DOMAIN blk /\ blk[blk[0].next].prev = 0 /\ ~blk[blk[0].next].free
      BY <2>1 DEF TiledBy, NextLinked, FrontMerged
    <2>3. blk[b].next # blk[0].next
      <3>1. blk[b].next # Nil => blk[blk[b].next].prev = b
        BY DEF TiledBy, NextLinked
      <3> QED BY <3>1, <2>1, <2>2 DEF Joined
    <2> QED BY <2>1, <2>2, <2>3 DEF Joined
  <1> QED BY <1>1, <1>2

-----------------------------------------------------------------------------
(* What IInv says of the state, spelt out.                                 *)
LEMMA IInvFacts ==
  ASSUME IInv
  PROVE  /\ Blocks(block) /\ TiledBy(block) /\ Pointers(live) /\ Owned(block, live)
         /\ FreeIntact(block) /\ FrontMerged(block, merging)
         /\ lost \subseteq AlignedOf(live)
         /\ 0 # Nil /\ Nil \notin DOMAIN block /\ 0 \in DOMAIN block
         /\ HDR \in Int /\ HDR > 0
         /\ merging # Nil => merging \in DOMAIN block /\ block[merging].free
         /\ \A b \in DOMAIN block : b \in Int /\ block[b].size \in Int
         /\ \A p \in DOMAIN live : /\ p \in Int /\ live[p].raw \in Int
                                  /\ live[p].want \in Requests /\ live[p].aligned \in BOOLEAN
                                  /\ Payload(BlockOf(live[p].raw)) = live[p].raw
  <1>1. /\ Blocks(block) /\ TiledBy(block) /\ Pointers(live) /\ Owned(block, live)
        /\ FreeIntact(block) /\ FrontMerged(block, merging)
        /\ merging \in DOMAIN block \cup {Nil} /\ MergingFree
        /\ lost \subseteq AlignedOf(live)
    BY DEF IInv, TypeOK, Tiled, BlocksOwned
  <1>2. HDR \in Int /\ HDR > 0 /\ 0 # Nil /\ Address \subseteq Int /\ Nil \notin Int
    BY HeapAssumption DEF Address
  <1>3. \A b \in DOMAIN block : b \in Int /\ block[b].size \in Int
    BY <1>1, <1>2, HeaderFields, HeapAssumption
  <1>4. \A p \in DOMAIN live : /\ p \in Int /\ live[p].raw \in Int
                             /\ live[p].want \in Requests /\ live[p].aligned \in BOOLEAN
    BY <1>1, <1>2 DEF Pointers
  <1>5. \A p \in DOMAIN live : Payload(BlockOf(live[p].raw)) = live[p].raw
    BY <1>2, <1>4 DEF Payload, BlockOf
  <1> QED BY <1>1, <1>2, <1>3, <1>4, <1>5 DEF MergingFree, TiledBy

(* The lost pointers stay what they are when another is held or dropped.   *)
LEMMA LostHeld ==
  ASSUME NEW f, NEW p, NEW raw, NEW n, NEW al, lost \subseteq AlignedOf(f), p \notin lost
  PROVE  lost \subseteq AlignedOf(Hold(f, p, raw, n, al))
  BY DEF AlignedOf, Hold

LEMMA LostDropped ==
  ASSUME NEW f, NEW p, lost \subseteq AlignedOf(f), p \notin lost
  PROVE  lost \subseteq AlignedOf(Drop(f, p))
  BY DEF AlignedOf, Drop

(* kmalloc's way through a free block it has found, up to the pointer p    *)
(* the caller gets: al if kmalloc_aligned moved it forward.                *)
Taken(b, size, p, al) ==
  IF al THEN StoreRaw(Carve(block, b, size), b, p) ELSE Carve(block, b, size)

LEMMA TakeBlock ==
  ASSUME IInv, Idle, NEW size \in Nat, NEW b \in FindFreeBlock(size),
         NEW n \in Requests, NEW al \in BOOLEAN, NEW p \in Int,
         Payload(b) <= p, p + n <= Payload(b) + size, ~al => p = Payload(b)
  PROVE  LET r == Taken(b, size, p, al)
             g == Hold(live, p, Payload(b), n, al)
         IN /\ Blocks(r) /\ TiledBy(r) /\ Pointers(g) /\ Owned(r, g)
            /\ FreeIntact(r) /\ FrontMerged(r, Nil) /\ p \notin DOMAIN live
            /\ lost \subseteq AlignedOf(g)
            /\ DOMAIN block \subseteq DOMAIN r
            /\ ~r[b].free
            /\ \A c \in DOMAIN block \ {b} : /\ r[c].free = block[c].free
                                            /\ r[c].magic = block[c].magic
  <1> DEFINE c == Carve(block, b, size)
             r == Taken(b, size, p, al)
  <1>0. /\ b \in DOMAIN block /\ block[b].free /\ block[b].magic /\ size <= block[b].size
    BY IInvFacts DEF FindFreeBlock, Fits
  <1>1. Blocks(c) /\ TiledBy(c) /\ Cut(block, c, b, size)
    BY <1>0, IInvFacts, CarveSound
  <1> HIDE DEF c
  <1>2. OwnedBut(c, live, b) /\ FrontMerged(c, Nil) /\ FreeIntact(c)
    <2>1. OwnedBut(block, live, b)
      BY <1>0, IInvFacts, OwnedButFree
    <2>2. OwnedBut(c, live, b)
      BY <1>1, <2>1, OwnedButCut
    <2>3. FrontMerged(c, Nil) /\ FreeIntact(c)
      BY <1>0, <1>1, IInvFacts, FrontCut DEF Idle
    <2> QED BY <2>2, <2>3
  <1>3. /\ b \in DOMAIN c /\ ~c[b].free /\ c[b].magic /\ size <= c[b].size
    BY <1>0, <1>1 DEF Cut
  <1>4. /\ Blocks(r) /\ TiledBy(r) /\ SameBut(c, r, b) /\ r[b].size = c[b].size
        /\ r[b].free = c[b].free
        /\ FreeIntact(r) /\ FrontMerged(r, Nil) /\ (~al => r[b].magic)
    <2> DEFINE m == [c EXCEPT ![b].magic = FALSE]
    <2>1. CASE r = c
      BY <1>1, <1>2, <1>3, <2>1 DEF SameBut
    <2>2. CASE r # c
      <3>1. r = m /\ al
        BY <2>2 DEF Taken, StoreRaw, c
      <3>2. \A d \in DOMAIN c : c[d] \in Header
        BY <1>1 DEF Blocks
      <3>3. /\ DOMAIN m = DOMAIN c
            /\ m = [d \in DOMAIN m |-> m[d]]
            /\ m[b] \in Header
            /\ \A d \in DOMAIN c : /\ d # b => m[d] = c[d]
                                  /\ m[d].size = c[d].size /\ m[d].next = c[d].next
                                  /\ m[d].prev = c[d].prev /\ m[d].free = c[d].free
        BY <1>1, <1>3, <3>2 DEF Header, Blocks
      <3> HIDE DEF m
      <3>4. Blocks(m)
        BY <1>1, <3>2, <3>3 DEF Blocks
      <3>5. TiledBy(m)
        BY <1>1, <3>3, SameShape
      <3>6. SameBut(c, m, b)
        BY <3>3 DEF SameBut
      <3>7. FreeIntact(m) /\ FrontMerged(m, Nil)
        <4>1. FreeIntact(m)
          BY <1>2, <1>3, <3>3 DEF FreeIntact
        <4>2. 0 \in DOMAIN c /\ (c[0].next # Nil => c[0].next \in DOMAIN c)
          BY <1>1 DEF TiledBy, NextLinked
        <4> QED BY <4>1, <4>2, <1>2, <3>3 DEF FrontMerged
      <3> QED BY <3>1, <3>3, <3>4, <3>5, <3>6, <3>7, <1>3
    <2> QED BY <2>1, <2>2
  <1> HIDE DEF r
  <1>5. OwnedBut(r, live, b)
    BY <1>2, <1>4, OwnedButSame
  <1>6. b \in DOMAIN r /\ ~r[b].free /\ p + n <= End(r, b)
    <2>1. b \in DOMAIN r /\ ~r[b].free /\ r[b].size \in Int /\ size <= r[b].size /\ b \in Int
      BY <1>3, <1>4, HeaderFields, HeapAssumption DEF SameBut
    <2>2. n \in Int /\ HDR \in Int
      BY HeapAssumption
    <2> QED BY <2>1, <2>2 DEF End, Payload
  <1> DEFINE g == Hold(live, p, Payload(b), n, al)
  <1>7. p \notin DOMAIN live /\ Pointers(g) /\ Owned(r, g)
    BY <1>4, <1>5, <1>6, IInvFacts, GrantOwned
  <1>8. /\ DOMAIN block \subseteq DOMAIN r
        /\ \A d \in DOMAIN block \ {b} : r[d].free = block[d].free /\ r[d].magic = block[d].magic
    BY <1>1, <1>4 DEF Cut, SameBut
  <1>9. lost \subseteq AlignedOf(g)
    <2>1. p \notin lost
      BY <1>7, IInvFacts DEF AlignedOf
    <2> QED BY <2>1, IInvFacts, LostHeld
  <1> QED BY <1>4, <1>6, <1>7, <1>8, <1>9 DEF r

(* The parts of IInv, put together after a step.                           *)
LEMMA IInvFrom ==
  ASSUME Blocks(block)', TiledBy(block)', Pointers(live)', Owned(block, live)',
         FreeIntact(block)', FrontMerged(block, merging)',
         merging' = Nil \/ (merging' \in DOMAIN block' /\ block'[merging'].free),
         lost' \subseteq AlignedOf(live')
  PROVE  IInv'
  BY DEF IInv, TypeOK, Tiled, BlocksOwned, MergingFree

LEMMA KmallocKeeps ==
  ASSUME IInv, NEW n \in Requests, Kmalloc(n)
  PROVE  IInv'
  <1>1. CASE UNCHANGED vars
    BY <1>1 DEF vars, IInv, TypeOK, Tiled, BlocksOwned, MergingFree
  <1>2. CASE ~UNCHANGED vars
    <2> DEFINE size == RoundUp(n)
    <2>1. PICK b \in FindFreeBlock(size) :
            /\ block' = Carve(block, b, size)
            /\ live' = Hold(live, Payload(b), Payload(b), n, FALSE)
            /\ merging' = merging /\ lost' = lost
      BY <1>2 DEF Kmalloc
    <2>2. size \in Nat /\ n <= size /\ n \in Int
      BY RoundUpCovers, HeapAssumption
    <2> HIDE DEF size
    <2>3. Payload(b) \in Int /\ Payload(b) + n <= Payload(b) + size
      BY <2>2, IInvFacts DEF FindFreeBlock, Fits, Payload
    <2>4. Idle /\ merging' = Nil
      BY <2>1 DEF Kmalloc, Idle
    <2> DEFINE p == Payload(b)
    <2>5. /\ block' = Taken(b, size, p, FALSE) /\ live' = Hold(live, p, Payload(b), n, FALSE)
          /\ p \in Int /\ Payload(b) <= p /\ p + n <= Payload(b) + size /\ p = Payload(b)
      BY <2>1, <2>3 DEF Taken
    <2> HIDE DEF p
    <2> QED BY <2>1, <2>2, <2>4, <2>5, TakeBlock, IInvFrom
  <1> QED BY <1>1, <1>2

LEMMA KmallocAlignedKeeps ==
  ASSUME IInv, NEW n \in Requests, NEW al \in Aligns, KmallocAligned(n, al)
  PROVE  IInv'
  <1>1. CASE UNCHANGED vars
    BY <1>1 DEF vars, IInv, TypeOK, Tiled, BlocksOwned, MergingFree
  <1>2. CASE ~UNCHANGED vars
    <2> DEFINE size == RoundUp(n + al + 4)
    <2>1. PICK b \in FindFreeBlock(size) :
            /\ block' = StoreRaw(Carve(block, b, size), b, AlignUp(Payload(b), al))
            /\ live' = Hold(live, AlignUp(Payload(b), al), Payload(b), n, TRUE)
            /\ merging' = merging /\ lost' = lost
      BY <1>2 DEF KmallocAligned
    <2> DEFINE p == AlignUp(Payload(b), al)
    <2>2. size \in Nat /\ n + al + 4 <= size /\ n \in Int /\ al \in Nat \ {0}
      <3>1. n + al + 4 \in 1 .. WordSize - 4 /\ n \in Int /\ al \in Nat \ {0}
        BY HeapAssumption
      <3> QED BY <3>1, RoundUpCovers
    <2> HIDE DEF size
    <2>3. Payload(b) \in Int
      BY IInvFacts DEF FindFreeBlock, Fits, Payload
    <2>4. p \in Int /\ Payload(b) <= p /\ p < Payload(b) + al
      BY <2>2, <2>3, AlignUpNear
    <2> HIDE DEF p
    <2>5. p + n <= Payload(b) + size
      BY <2>2, <2>3, <2>4
    <2>6. Idle /\ merging' = Nil
      BY <2>1 DEF KmallocAligned, Idle
    <2>7. block' = Taken(b, size, p, TRUE) /\ live' = Hold(live, p, Payload(b), n, TRUE)
      BY <2>1 DEF Taken, p
    <2>8. lost' = lost
      BY <2>1
    <2> QED BY <2>2, <2>4, <2>5, <2>6, <2>7, <2>8, TakeBlock, IInvFrom
  <1> QED BY <1>1, <1>2

(* Freeing the block of pointer p, which its caller gives up.              *)
LEMMA FreeRawKeeps ==
  ASSUME NEW blk, Blocks(blk), TiledBy(blk), NEW f, Pointers(f), Owned(blk, f),
         FreeIntact(blk), FrontMerged(blk, Nil), Idle, Nil \notin DOMAIN blk,
         NEW p \in DOMAIN f, FreeRaw(blk, f[p].raw), live' = Drop(f, p),
         lost \subseteq AlignedOf(f), p \notin lost, lost' = lost
  PROVE  IInv'
  <1> DEFINE b == BlockOf(f[p].raw)
             u == [blk EXCEPT ![b].free = TRUE]
  <1>1. OwnedBut(blk, live', b) /\ Pointers(live')
    BY OwnedButDropped
  <1>2. b \in DOMAIN blk /\ ~blk[b].free
    BY DEF Owned, Owns
  <1>l. lost' \subseteq AlignedOf(live')
    BY LostDropped
  <1>3. CASE ~blk[b].magic
    <2>1. block' = blk /\ merging' = Nil
      BY <1>3 DEF FreeRaw, Idle
    <2>2. Owned(blk, live')
      BY <1>1, <1>3, OwnedWithout
    <2> QED BY <1>1, <1>l, <2>1, <2>2, IInvFrom
  <1>4. CASE blk[b].magic
    <2>1. block' = u /\ merging' = b
      BY <1>2, <1>4 DEF FreeRaw
    <2>2. \A d \in DOMAIN blk : blk[d] \in Header
      BY DEF Blocks
    <2>3. /\ DOMAIN u = DOMAIN blk
          /\ u = [d \in DOMAIN u |-> u[d]]
          /\ u[b] \in Header /\ u[b].free = TRUE
          /\ \A d \in DOMAIN blk : /\ d # b => u[d] = blk[d]
                                  /\ u[d].size = blk[d].size /\ u[d].next = blk[d].next
                                  /\ u[d].prev = blk[d].prev /\ u[d].magic = blk[d].magic
      BY <1>2, <2>2 DEF Header, Blocks
    <2> HIDE DEF u
    <2>4. Blocks(u)
      BY <2>2, <2>3 DEF Blocks
    <2>5. TiledBy(u)
      BY <2>3, SameShape
    <2>6. Owned(u, live')
      <3>1. SameBut(blk, u, b)
        BY <2>3 DEF SameBut
      <3>2. OwnedBut(u, live', b)
        BY <1>1, <3>1, OwnedButSame
      <3> QED BY <2>3, <3>2, OwnedWithout
    <2>7. FreeIntact(u)
      BY <1>4, <2>3 DEF FreeIntact
    <2>8. FrontMerged(u, b)
      <3>1. 0 \in DOMAIN blk /\ (blk[0].next # Nil => blk[0].next \in DOMAIN blk)
        BY DEF TiledBy, NextLinked
      <3>2. CASE blk[0].next # Nil /\ 0 # b /\ blk[0].next # b
        BY <2>3, <3>1, <3>2 DEF FrontMerged, Idle, TiledBy
      <3>3. CASE ~(blk[0].next # Nil /\ 0 # b /\ blk[0].next # b)
        BY <2>3, <3>1, <3>3 DEF FrontMerged
      <3> QED BY <3>2, <3>3
    <2> QED BY <1>1, <1>2, <1>l, <2>1, <2>3, <2>4, <2>5, <2>6, <2>7, <2>8, IInvFrom
  <1> QED BY <1>3, <1>4

LEMMA KfreeKeeps ==
  ASSUME IInv, NEW p \in DOMAIN live, Kfree(p)
  PROVE  IInv'
  BY IInvFacts, FreeRawKeeps DEF Kfree, Idle

LEMMA KfreeOfAlignedKeeps ==
  ASSUME IInv, NEW p \in DOMAIN live, KfreeOfAligned(p)
  PROVE  IInv'
  <1>1. lost' \subseteq AlignedOf(live')
    BY IInvFacts DEF KfreeOfAligned, AlignedOf
  <1>2. block' = block /\ merging' = merging /\ live' = live
    BY DEF KfreeOfAligned
  <1> QED BY <1>1, <1>2, IInvFacts, IInvFrom

LEMMA MergeNextKeeps ==
  ASSUME IInv, MergeNext
  PROVE  IInv'
  <1> DEFINE m == merging
             r == Absorb(block, m)
  <1>1. /\ m # Nil /\ m \in DOMAIN block /\ block[m].free
        /\ block[m].next # Nil /\ block[block[m].next].free
        /\ block' = r /\ merging' = m /\ live' = live /\ lost' = lost
    BY IInvFacts DEF MergeNext, Idle, NextFree
  <1>2. Blocks(r) /\ TiledBy(r) /\ Joined(block, r, m)
    BY <1>1, IInvFacts, AbsorbSound
  <1> HIDE DEF r
  <1>3. m \in DOMAIN r /\ r[m].free
    BY <1>1, <1>2 DEF Joined
  <1>4. Owned(r, live)
    <2>1. OwnedBut(block, live, m)
      BY <1>1, IInvFacts, OwnedButFree
    <2>2. OwnedBut(r, live, m)
      BY <1>1, <1>2, <2>1, OwnedButJoined
    <2> QED BY <1>3, <2>2, OwnedWithout
  <1>5. FreeIntact(r)
    BY <1>1, <1>2, IInvFacts DEF FreeIntact, Joined
  <1>6. FrontMerged(r, m)
    <2> SUFFICES ASSUME r[0].free, r[0].next # Nil, m # 0, m # r[0].next
                 PROVE  ~r[r[0].next].free
      BY DEF FrontMerged
    <2>1. 0 \in DOMAIN r /\ r[0].next = block[0].next /\ block[0].free
      BY <1>2 DEF Joined, TiledBy
    <2>2. /\ block[0].next \in DOMAIN block /\ ~block[block[0].next].free
      BY <2>1, IInvFacts DEF TiledBy, NextLinked, FrontMerged
    <2> QED BY <1>1, <1>2, <2>1, <2>2 DEF Joined
  <1> QED BY <1>1, <1>2, <1>3, <1>4, <1>5, <1>6, IInvFacts, IInvFrom

LEMMA MergePrevKeeps ==
  ASSUME IInv, MergePrev
  PROVE  IInv'
  <1> DEFINE m == merging
             q == block[m].prev
             r == Absorb(block, q)
  <1>1. /\ m # Nil /\ m \in DOMAIN block /\ block[m].free
        /\ ~NextFree(block, m) /\ q # Nil /\ block[q].free
        /\ block' = r /\ merging' = Nil /\ live' = live /\ lost' = lost
    BY IInvFacts DEF MergePrev, Idle, PrevFree
  <1>2. m # 0 /\ q \in DOMAIN block /\ block[q].next = m
    BY <1>1, IInvFacts DEF TiledBy, PrevLinked
  <1>3. Blocks(r) /\ TiledBy(r) /\ Joined(block, r, q)
    BY <1>1, <1>2, IInvFacts, AbsorbSound
  <1> HIDE DEF r
  <1>4. q \in DOMAIN r /\ r[q].free
    BY <1>1, <1>2, <1>3 DEF Joined
  <1>5. Owned(r, live)
    <2>1. OwnedBut(block, live, q)
      BY <1>1, <1>2, IInvFacts, OwnedButFree
    <2>2. OwnedBut(r, live, q)
      BY <1>1, <1>2, <1>3, <2>1, OwnedButJoined
    <2> QED BY <1>4, <2>2, OwnedWithout
  <1>6. FreeIntact(r)
    BY <1>1, <1>2, <1>3, IInvFacts DEF FreeIntact, Joined
  <1>7. FrontMerged(r, Nil)
    <2> SUFFICES ASSUME r[0].free, r[0].next # Nil PROVE ~r[r[0].next].free
      BY DEF FrontMerged
    <2>1. 0 \in DOMAIN r
      BY <1>3 DEF TiledBy
    <2>2. CASE q = 0
      <3>1. r[0].next = block[m].next /\ ~block[block[m].next].free
        BY <1>1, <1>2, <1>3, <2>2 DEF Joined, NextFree
      <3>2. block[m].next \in DOMAIN block /\ block[block[m].next].prev = m
        BY <1>1, <3>1, IInvFacts DEF TiledBy, NextLinked
      <3>3. block[m].next # q /\ block[m].next # m
        BY <1>1, <1>2, <3>1
      <3> QED BY <1>2, <1>3, <3>1, <3>2, <3>3 DEF Joined
    <2>3. CASE q # 0
      <3>1. r[0].next = block[0].next /\ block[0].free
        BY <1>3, <2>1, <2>3 DEF Joined
      <3>2. block[0].next \in DOMAIN block /\ block[block[0].next].prev = 0
        BY <3>1, IInvFacts DEF TiledBy, NextLinked
      <3>3. m # block[0].next
        BY <2>3, <3>2
      <3>4. ~block[block[0].next].free
        BY <1>2, <3>1, <3>3, IInvFacts DEF FrontMerged
      <3> QED BY <1>1, <1>2, <1>3, <3>1, <3>2, <3>3, <3>4 DEF Joined
    <2> QED BY <2>2, <2>3
  <1> QED BY <1>1, <1>3, <1>5, <1>6, <1>7, IInvFacts, IInvFrom

LEMMA MergeDoneKeeps ==
  ASSUME IInv, MergeDone
  PROVE  IInv'
  <1>1. FrontMerged(block, Nil)
    <2> SUFFICES ASSUME block[0].free, block[0].next # Nil PROVE ~block[block[0].next].free
      BY DEF FrontMerged
    <2>1. block[0].next \in DOMAIN block /\ block[block[0].next].prev = 0
      BY IInvFacts DEF TiledBy, NextLinked
    <2>2. CASE merging = 0
      BY <2>2 DEF MergeDone, NextFree
    <2>3. CASE merging = block[0].next
      BY <2>1, <2>3, IInvFacts DEF MergeDone, PrevFree
    <2>4. CASE merging # 0 /\ merging # block[0].next
      BY <2>4, IInvFacts DEF FrontMerged
    <2> QED BY <2>2, <2>3, <2>4
  <1> QED BY <1>1, IInvFacts, IInvFrom DEF MergeDone

(* Holding a pointer anew forgets what was held of it.                     *)
LEMMA HoldDropped ==
  ASSUME NEW f, NEW p \in DOMAIN f, NEW raw, NEW n, NEW al
  PROVE  Hold(Drop(f, p), p, raw, n, al) = Hold(f, p, raw, n, al)
  <1>1. DOMAIN Drop(f, p) = DOMAIN f \ {p}
    BY DEF Drop
  <1>2. (DOMAIN f \ {p}) \cup {p} = DOMAIN f \cup {p}
    OBVIOUS
  <1>3. \A q \in DOMAIN f \cup {p} : q # p => Drop(f, p)[q] = f[q]
    BY DEF Drop
  <1> QED BY <1>1, <1>2, <1>3 DEF Hold

(* The block of a pointer that kmalloc gave.                               *)
LEMMA UnalignedBlock ==
  ASSUME IInv, NEW p \in DOMAIN live, ~live[p].aligned
  PROVE  LET b == BlockOf(p)
         IN /\ live[p].raw = p /\ Payload(b) = p
            /\ b \in DOMAIN block /\ ~block[b].free /\ block[b].magic
            /\ b \in Int
            /\ OwnedBut(block, Drop(live, p), b) /\ Pointers(Drop(live, p))
  <1>1. Owns(block, live, p) /\ live[p].raw = p
    BY IInvFacts DEF Owned, Owns
  <1>2. OwnedBut(block, Drop(live, p), BlockOf(p)) /\ Pointers(Drop(live, p))
    BY <1>1, IInvFacts, OwnedButDropped
  <1> QED BY <1>1, <1>2, IInvFacts DEF Owns

LEMMA KreallocInPlaceKeeps ==
  ASSUME IInv, NEW p \in DOMAIN live, NEW n \in Requests, KreallocInPlace(p, n)
  PROVE  IInv'
  <1> DEFINE b == BlockOf(p)
             size == RoundUp(n)
             f == Drop(live, p)
  <1>0. size \in Nat /\ n <= size /\ n \in Int
    BY RoundUpCovers, HeapAssumption
  <1>1. /\ Idle /\ ~live[p].aligned /\ merging' = Nil
        /\ live' = Hold(live, p, p, n, FALSE) /\ lost' = lost
    BY DEF KreallocInPlace, Idle
  <1>2. /\ live[p].raw = p /\ Payload(b) = p /\ b \in Int
        /\ b \in DOMAIN block /\ ~block[b].free /\ block[b].magic
        /\ OwnedBut(block, f, b) /\ Pointers(f)
    BY <1>1, UnalignedBlock
  <1>3. PICK base :
          /\ Blocks(base) /\ TiledBy(base) /\ OwnedBut(base, f, b)
          /\ FreeIntact(base) /\ FrontMerged(base, Nil)
          /\ b \in DOMAIN base /\ base[b].magic /\ size <= base[b].size
          /\ block' = Carve(base, b, size)
    <2>1. CASE size <= block[b].size /\ block' = Carve(block, b, size)
      BY <1>1, <1>2, <2>1, IInvFacts DEF Idle
    <2>2. CASE /\ NextFree(block, b) /\ Absorb(block, b)[b].size >= size
               /\ block' = Carve(Absorb(block, b), b, size)
      <3> DEFINE r == Absorb(block, b)
      <3>1. Blocks(r) /\ TiledBy(r) /\ Joined(block, r, b)
        BY <1>2, <2>2, IInvFacts, AbsorbSound DEF NextFree
      <3>2. size <= r[b].size /\ block' = Carve(r, b, size)
        BY <2>2, <1>0, <1>2, <3>1, HeaderFields DEF Joined
      <3> HIDE DEF r
      <3>3. OwnedBut(r, f, b)
        BY <1>2, <2>2, <3>1, OwnedButJoined DEF NextFree
      <3>4. FrontMerged(r, Nil) /\ FreeIntact(r)
        BY <1>1, <1>2, <3>1, IInvFacts, FrontJoined DEF Idle
      <3>5. b \in DOMAIN r /\ r[b].magic
        BY <1>2, <3>1 DEF Joined
      <3> QED BY <3>1, <3>2, <3>3, <3>4, <3>5
    <2> QED BY <2>1, <2>2 DEF KreallocInPlace
  <1> HIDE DEF size, f, b
  <1> DEFINE r == Carve(base, b, size)
  <1>4. Blocks(r) /\ TiledBy(r) /\ Cut(base, r, b, size)
    BY <1>0, <1>3, CarveSound
  <1>5. 0 # Nil /\ Nil \notin DOMAIN base /\ HDR \in Int
    BY <1>3, HeapAssumption DEF Blocks, Address
  <1> HIDE DEF r
  <1>6. FrontMerged(r, Nil) /\ FreeIntact(r) /\ OwnedBut(r, f, b)
    BY <1>3, <1>4, <1>5, FrontCut, OwnedButCut
  <1>7. b \in DOMAIN r /\ ~r[b].free /\ r[b].magic /\ size <= r[b].size
    BY <1>3, <1>4 DEF Cut
  <1>8. p \in Int /\ Payload(b) <= p /\ p + n <= End(r, b)
    <2>1. r[b].size \in Int
      BY <1>4, <1>7, HeaderFields, HeapAssumption
    <2> QED BY <2>1, <1>0, <1>2, <1>5, <1>7 DEF End, Payload
  <1>9. Pointers(Hold(f, p, Payload(b), n, FALSE)) /\ Owned(r, Hold(f, p, Payload(b), n, FALSE))
    BY <1>2, <1>4, <1>6, <1>7, <1>8, GrantOwned
  <1>10. Hold(f, p, Payload(b), n, FALSE) = live'
    <2>1. Hold(Drop(live, p), p, p, n, FALSE) = Hold(live, p, p, n, FALSE)
      BY HoldDropped
    <2> QED BY <2>1, <1>1, <1>2 DEF f
  <1>11. block' = r
    BY <1>3 DEF r
  <1>12. lost' \subseteq AlignedOf(live')
    <2>1. p \notin lost
      BY <1>1, IInvFacts DEF AlignedOf
    <2> QED BY <1>1, <2>1, IInvFacts, LostHeld
  <1> QED BY <1>1, <1>4, <1>6, <1>9, <1>10, <1>11, <1>12, IInvFrom

LEMMA KreallocMoveKeeps ==
  ASSUME IInv, NEW p \in DOMAIN live, NEW n \in Requests, KreallocMove(p, n)
  PROVE  IInv'
  <1>1. CASE UNCHANGED vars
    BY <1>1 DEF vars, IInv, TypeOK, Tiled, BlocksOwned, MergingFree
  <1>2. CASE ~UNCHANGED vars
    <2> DEFINE size == RoundUp(n)
    <2>1. PICK to \in FindFreeBlock(size) :
            /\ FreeRaw(Carve(block, to, size), p)
            /\ live' = Drop(Hold(live, Payload(to), Payload(to), n, FALSE), p)
            /\ lost' = lost
      BY <1>2 DEF KreallocMove
    <2>2. size \in Nat /\ n <= size /\ n \in Int
      BY RoundUpCovers, HeapAssumption
    <2> HIDE DEF size
    <2> DEFINE new == Payload(to)
               r == Taken(to, size, new, FALSE)
               g == Hold(live, new, Payload(to), n, FALSE)
    <2>3. new \in Int /\ Payload(to) <= new /\ new + n <= Payload(to) + size
          /\ new = Payload(to)
      BY <2>2, IInvFacts DEF FindFreeBlock, Fits, Payload
    <2>4. Idle /\ ~live[p].aligned
      BY DEF KreallocMove
    <2>5. FreeRaw(r, p) /\ live' = Drop(g, p)
      BY <2>1 DEF Taken
    <2> HIDE DEF new
    <2>6. /\ Blocks(r) /\ TiledBy(r) /\ Pointers(g) /\ Owned(r, g)
          /\ FreeIntact(r) /\ FrontMerged(r, Nil) /\ new \notin DOMAIN live
          /\ lost \subseteq AlignedOf(g)
      BY <2>2, <2>3, <2>4, TakeBlock
    <2>7. p \in DOMAIN g /\ g[p].raw = p
      BY <2>4, <2>6, UnalignedBlock DEF Hold
    <2> HIDE DEF r, g
    <2>8. Nil \notin DOMAIN r
      BY <2>6, HeapAssumption DEF Blocks, Address
    <2>9. FreeRaw(r, g[p].raw)
      BY <2>5, <2>7
    <2>10. p \notin lost
      BY <2>4, IInvFacts DEF AlignedOf
    <2> QED BY <2>1, <2>4, <2>5, <2>6, <2>7, <2>8, <2>9, <2>10, FreeRawKeeps
  <1> QED BY <1>1, <1>2

-----------------------------------------------------------------------------
LEMMA NextKeeps == IInv /\ [Next]_vars => IInv'
  <1> SUFFICES ASSUME IInv, [Next]_vars PROVE IInv'
    OBVIOUS
  <1>1. CASE UNCHANGED vars
    BY <1>1 DEF vars, IInv, TypeOK, Tiled, BlocksOwned, MergingFree
  <1>2. ASSUME NEW n \in Requests, Kmalloc(n) PROVE IInv'
    BY <1>2, KmallocKeeps
  <1>3. ASSUME NEW n \in Requests, NEW al \in Aligns, KmallocAligned(n, al) PROVE IInv'
    BY <1>3, KmallocAlignedKeeps
  <1>4. ASSUME NEW p \in DOMAIN live, Kfree(p) PROVE IInv'
    BY <1>4, KfreeKeeps
  <1>5. ASSUME NEW p \in DOMAIN live, NEW n \in Requests, KreallocInPlace(p, n) PROVE IInv'
    BY <1>5, KreallocInPlaceKeeps
  <1>6. ASSUME NEW p \in DOMAIN live, NEW n \in Requests, KreallocMove(p, n) PROVE IInv'
    BY <1>6, KreallocMoveKeeps
  <1>10. ASSUME NEW p \in DOMAIN live, KfreeOfAligned(p) PROVE IInv'
    BY <1>10, KfreeOfAlignedKeeps
  <1>7. CASE MergeNext
    BY <1>7, MergeNextKeeps
  <1>8. CASE MergePrev
    BY <1>8, MergePrevKeeps
  <1>9. CASE MergeDone
    BY <1>9, MergeDoneKeeps
  <1> QED BY <1>1, <1>2, <1>3, <1>4, <1>5, <1>6, <1>7, <1>8, <1>9, <1>10 DEF Next

LEMMA Inductive == Spec => []IInv
  BY InitIInv, NextKeeps, PTL DEF Spec

(* The blocks tile the region after every call and every step of a merge,  *)
(* with headers and pointers of the right type: no walk of the list by     *)
(* kmalloc, get_memory_info or heap_validate leaves it or misses a block.  *)
THEOREM HeapTiled == Spec => [](TypeOK /\ Tiled)
  <1>1. IInv => TypeOK /\ Tiled
    BY DEF IInv
  <1> QED BY <1>1, Inductive, PTL

(* Headers, links, sizes and the callers' pointers keep their types: no     *)
(* subtraction of kmalloc's or krealloc's ever goes below zero.            *)
THEOREM HeapTypes == Spec => []TypeOK
  <1>1. IInv => TypeOK
    BY DEF IInv
  <1> QED BY <1>1, Inductive, PTL

(* No block is handed out twice, and none is lost but by a kfree that      *)
(* refuses it: kmalloc, krealloc and kfree leave every block in use with   *)
(* the one pointer that stands for it.                                     *)
THEOREM HeapOwned == Spec => []BlocksOwned
  <1>1. IInv => BlocksOwned
    BY DEF IInv
  <1> QED BY <1>1, Inductive, PTL

(* Once everything is freed and nothing lost, the heap is one free block   *)
(* again: merge_block misses no merge that a later call does not make up   *)
(* for.                                                                    *)
THEOREM FreedIsWhole == Spec => []FreedHeapIsWhole
  <1>1. IInv => FreedHeapIsWhole
    <2> SUFFICES ASSUME IInv, Idle, DOMAIN live = {}, \A b \in DOMAIN block : block[b].magic
                 PROVE  DOMAIN block = {0} /\ block[0].free
      BY DEF FreedHeapIsWhole
    <2>1. \A b \in DOMAIN block : block[b].free
      BY IInvFacts DEF Owned
    <2>2. block[0].next = Nil
      <3> SUFFICES ASSUME block[0].next # Nil PROVE FALSE
        OBVIOUS
      <3>1. block[0].next \in DOMAIN block
        BY IInvFacts DEF TiledBy, NextLinked
      <3> QED BY <2>1, <3>1, IInvFacts DEF FrontMerged, Idle
    <2>3. End(block, 0) = HeapTotal
      BY <2>2, IInvFacts DEF TiledBy, NextLinked
    <2>4. \A b \in DOMAIN block : b = 0
      <3> TAKE b \in DOMAIN block
      <3>1. 0 < b => HeapTotal <= b
        BY <2>3, IInvFacts DEF TiledBy, Apart
      <3> QED BY <3>1, IInvFacts, HeaderFields, HeapAssumption
    <2> QED BY <2>1, <2>4, IInvFacts
  <1> QED BY <1>1, Inductive, PTL
-----------------------------------------------------------------------------
(* merge_block, which calls itself, comes to an end                        *)

(* A call of it takes in a block further on, or is the last: then one free *)
(* block holds what kfree was given, and none that is free follows it.     *)
MergeGoesOn ==
  /\ merging' = merging /\ merging \in DOMAIN block'
  /\ End(block, merging) < End(block', merging) /\ End(block', merging) <= HeapTotal

MergeIsOver ==
  /\ merging' = Nil
  /\ \E b \in DOMAIN block' :
       /\ b <= merging /\ merging < End(block', b)
       /\ block'[b].free /\ ~NextFree(block', b)

MergeEnds == merging # Nil => live' = live /\ (MergeGoesOn \/ MergeIsOver)

LEMMA MergeNextGoesOn ==
  ASSUME IInv, MergeNext
  PROVE  live' = live /\ MergeGoesOn
  <1> DEFINE m == merging
             r == Absorb(block, m)
  <1>1. /\ m # Nil /\ m \in DOMAIN block /\ block[m].next # Nil
        /\ block' = r /\ merging' = m /\ live' = live
    BY IInvFacts DEF MergeNext, Idle, NextFree
  <1>2. Blocks(r) /\ TiledBy(r) /\ Joined(block, r, m)
    BY <1>1, IInvFacts, AbsorbSound
  <1> HIDE DEF r
  <1>3. m \in DOMAIN r /\ End(r, m) <= HeapTotal
    BY <1>1, <1>2, EndsInside DEF Joined
  <1>4. block[m].next \in DOMAIN block /\ r[m].size = block[m].size + HDR + block[block[m].next].size
    BY <1>2 DEF Joined
  <1>5. /\ block[m].size \in Nat /\ block[block[m].next].size \in Nat /\ m \in Int
        /\ HDR \in Nat /\ HDR > 0
    BY <1>1, <1>4, IInvFacts, HeaderFields, HeapAssumption
  <1>6. End(block, m) < End(r, m)
    BY <1>4, <1>5 DEF End, Payload
  <1> QED BY <1>1, <1>3, <1>6 DEF MergeGoesOn

LEMMA MergePrevIsOver ==
  ASSUME IInv, MergePrev
  PROVE  live' = live /\ MergeIsOver
  <1> DEFINE m == merging
             q == block[m].prev
             after == block[m].next
             r == Absorb(block, q)
  <1>1. /\ m # Nil /\ m \in DOMAIN block
        /\ ~NextFree(block, m) /\ q # Nil /\ block[q].free
        /\ block' = r /\ merging' = Nil /\ live' = live
    BY IInvFacts DEF MergePrev, Idle, PrevFree
  <1>2. q \in DOMAIN block /\ block[q].next = m
    BY <1>1, IInvFacts DEF TiledBy, PrevLinked
  <1>3. Blocks(r) /\ TiledBy(r) /\ Joined(block, r, q)
    BY <1>1, <1>2, IInvFacts, AbsorbSound
  <1> HIDE DEF r
  <1>4. q \in DOMAIN r /\ r[q].free /\ r[q].next = after /\ r[q].size = block[q].size + HDR + block[m].size
    BY <1>1, <1>2, <1>3 DEF Joined
  <1>5. m = End(block, q)
    BY <1>1, <1>2, IInvFacts DEF TiledBy, NextLinked
  <1>6. /\ block[q].size \in Nat /\ block[m].size \in Nat /\ m \in Int /\ q \in Int
        /\ HDR \in Nat /\ HDR > 0
    BY <1>1, <1>2, IInvFacts, HeaderFields, HeapAssumption
  <1>7. q <= m /\ m < End(r, q)
    BY <1>4, <1>5, <1>6 DEF End, Payload
  <1>8. ~NextFree(r, q)
    <2> SUFFICES ASSUME after # Nil, r[after].free PROVE FALSE
      BY <1>4 DEF NextFree
    <2>1. after \in DOMAIN block /\ block[after].prev = m /\ ~block[after].free
      BY <1>1, IInvFacts DEF TiledBy, NextLinked, NextFree
    <2>2. after # m /\ after # q
      BY <1>1, <1>2, <1>6, <2>1, IInvFacts DEF TiledBy, NextLinked, End, Payload
    <2> QED BY <1>2, <1>3, <2>1, <2>2 DEF Joined
  <1> QED BY <1>1, <1>4, <1>7, <1>8 DEF MergeIsOver

LEMMA MergeDoneIsOver ==
  ASSUME IInv, MergeDone
  PROVE  live' = live /\ MergeIsOver
  <1>1. /\ merging # Nil /\ ~NextFree(block, merging)
        /\ block' = block /\ merging' = Nil /\ live' = live
    BY DEF MergeDone, Idle
  <1>2. merging \in DOMAIN block /\ block[merging].free
    BY <1>1, IInvFacts
  <1>3. merging \in Int /\ block[merging].size \in Nat /\ HDR \in Nat /\ HDR > 0
    BY <1>2, IInvFacts, HeaderFields, HeapAssumption
  <1>4. merging <= merging /\ merging < End(block, merging)
    BY <1>3 DEF End, Payload
  <1> QED BY <1>1, <1>2, <1>4 DEF MergeIsOver

(* However many free blocks lie side by side, merge_block does not call    *)
(* itself for ever: each call moves the end of the block towards the end   *)
(* of the heap, and the last leaves what was freed in one free block that  *)
(* no free one follows.  Nobody else's memory is touched meanwhile.        *)
THEOREM MergingEnds == Spec => [][MergeEnds]_vars
  <1>1. IInv /\ [Next]_vars => [MergeEnds]_vars
    <2> SUFFICES ASSUME IInv, Next, merging # Nil
                 PROVE  live' = live /\ (MergeGoesOn \/ MergeIsOver)
      BY DEF MergeEnds
    <2>1. MergeNext \/ MergePrev \/ MergeDone
      BY DEF Next, Kmalloc, KmallocAligned, Kfree, KfreeOfAligned, KreallocInPlace,
             KreallocMove, Idle
    <2> QED BY <2>1, MergeNextGoesOn, MergePrevIsOver, MergeDoneIsOver
  <1> QED BY <1>1, Inductive, PTL DEF Spec

-----------------------------------------------------------------------------
(* Heap implements Allocator.                                              *)
Extent(p, n) == [ptr |-> p, len |-> n]

LEMMA GrantsHeld ==
  ASSUME NEW f, NEW p, p \notin DOMAIN f, NEW raw, NEW n, NEW al
  PROVE  Grants(Hold(f, p, raw, n, al)) = Grants(f) \cup {Extent(p, n)}
  <1> DEFINE g == Hold(f, p, raw, n, al)
  <1>1. DOMAIN g = DOMAIN f \cup {p} /\ g[p].want = n /\ \A q \in DOMAIN f : g[q] = f[q]
    BY DEF Hold
  <1> HIDE DEF g
  <1> QED BY <1>1 DEF Grants, Extent, g

LEMMA GrantsDropped ==
  ASSUME NEW f, NEW p \in DOMAIN f
  PROVE  Grants(Drop(f, p)) = Grants(f) \ {Extent(p, f[p].want)}
  <1> DEFINE g == Drop(f, p)
  <1>1. DOMAIN g = DOMAIN f \ {p} /\ \A q \in DOMAIN g : g[q] = f[q]
    BY DEF Drop
  <1> HIDE DEF g
  <1>2. \A q \in DOMAIN f : q # p => Extent(q, f[q].want) # Extent(p, f[p].want)
    BY DEF Extent
  <1> QED BY <1>1, <1>2 DEF Grants, Extent, g

(* Two pointers that are owned stand for disjoint extents of the region.   *)
LEMMA ExtentsFresh ==
  ASSUME NEW blk, Blocks(blk), TiledBy(blk), NEW f, Pointers(f), Owned(blk, f),
         NEW p \in DOMAIN f
  PROVE  A!Fresh(Extent(p, f[p].want), Grants(f) \ {Extent(p, f[p].want)})
  <1>1. /\ HDR \in Int /\ HeapTotal \in Int
        /\ \A q \in DOMAIN f : q \in Int /\ f[q].raw \in Int /\ f[q].want \in Int
    BY HeapAssumption DEF Pointers, Address
  <1>2. \A q \in DOMAIN f : /\ BlockOf(f[q].raw) \in DOMAIN blk
                           /\ Payload(BlockOf(f[q].raw)) = f[q].raw
                           /\ Payload(BlockOf(f[q].raw)) <= q
                           /\ q + f[q].want <= End(blk, BlockOf(f[q].raw))
    BY <1>1 DEF Owned, Owns, Payload, BlockOf
  <1>3. p + f[p].want <= HeapTotal
    <2> DEFINE e == End(blk, BlockOf(f[p].raw))
    <2>1. e <= HeapTotal /\ p + f[p].want <= e
      BY <1>2, EndsInside
    <2>2. e \in Int
      BY <1>1, <1>2, HeaderFields DEF End, Payload
    <2> HIDE DEF e
    <2> QED BY <1>1, <2>1, <2>2
  <1>4. \A q \in DOMAIN f : q # p => p + f[p].want <= q \/ q + f[q].want <= p
    <2> TAKE q \in DOMAIN f
    <2> SUFFICES ASSUME q # p PROVE p + f[p].want <= q \/ q + f[q].want <= p
      OBVIOUS
    <2> DEFINE x == BlockOf(f[p].raw)
               y == BlockOf(f[q].raw)
    <2>1. x # y
      BY <1>2 DEF Owned
    <2>2. /\ x \in DOMAIN blk /\ Payload(x) <= p /\ p + f[p].want <= End(blk, x)
          /\ y \in DOMAIN blk /\ Payload(y) <= q /\ q + f[q].want <= End(blk, y)
      BY <1>2
    <2> HIDE DEF x, y
    <2> QED BY <1>1, <2>1, <2>2, ApartInBlocks
  <1> QED BY <1>3, <1>4 DEF A!Fresh, A!Disjoint, Grants, Extent

(* A pointer into a free block is nobody's yet.                            *)
LEMMA NewPointer ==
  ASSUME IInv, NEW size \in Nat, NEW b \in FindFreeBlock(size), NEW p \in Int,
         Payload(b) <= p, p < Payload(b) + size
  PROVE  p \notin DOMAIN live
  <1> SUFFICES ASSUME p \in DOMAIN live PROVE FALSE
    OBVIOUS
  <1> DEFINE x == BlockOf(live[p].raw)
             m == live[p].want
  <1>1. /\ b \in DOMAIN block /\ block[b].free /\ block[b].size >= size
        /\ b \in Int /\ block[b].size \in Int /\ HDR \in Int
    BY IInvFacts DEF FindFreeBlock, Fits
  <1>2. p + 1 <= End(block, b)
    BY <1>1 DEF End, Payload
  <1>3. /\ x \in DOMAIN block /\ ~block[x].free
        /\ Payload(x) <= p /\ p + m <= End(block, x)
    BY IInvFacts DEF Owned, Owns
  <1>4. m \in Int /\ m >= 1
    <2>1. m \in Requests
      BY IInvFacts
    <2> HIDE DEF m
    <2> QED BY <2>1, HeapAssumption
  <1> HIDE DEF x, m
  <1>5. p + m <= p \/ p + 1 <= p
    BY <1>1, <1>2, <1>3, <1>4, IInvFacts, ApartInBlocks
  <1> QED BY <1>4, <1>5

(* A step of the heap is a step of the allocator or leaves its grants be.  *)
LEMMA StepImplements ==
  ASSUME IInv, IInv', [Next]_vars
  PROVE  [A!AllocNext]_(Grants(live))
  <1> DEFINE G == Grants(live)
             H == Grants(live')
  <1>0. Blocks(block') /\ TiledBy(block') /\ Pointers(live') /\ Owned(block', live')
    BY DEF IInv, TypeOK, Tiled, BlocksOwned
  <1>1. \A p \in DOMAIN live' :
          A!Fresh(Extent(p, live'[p].want), H \ {Extent(p, live'[p].want)})
    BY <1>0, ExtentsFresh
  <1>2. ASSUME NEW p \in Int, NEW raw, NEW n, NEW al,
               p \notin DOMAIN live, live' = Hold(live, p, raw, n, al)
        PROVE  A!AllocNext
    <2> DEFINE g == Extent(p, n)
    <2>1. p \in DOMAIN live' /\ live'[p].want = n
      BY <1>2 DEF Hold
    <2>2. H = G \cup {g}
      BY <1>2, GrantsHeld
    <2>3. g \notin G
      BY <1>2 DEF Extent, Grants
    <2>4. A!Fresh(g, G) /\ g \in H \ G
      <3>1. H \ {g} = G
        BY <2>2, <2>3
      <3>2. A!Fresh(g, H \ {g})
        BY <1>1, <2>1
      <3> HIDE DEF g, G, H
      <3> QED BY <2>2, <2>3, <3>1, <3>2
    <2>5. A!Alloc(g)
      BY <2>2, <2>4 DEF A!Alloc
    <2> QED BY <2>4, <2>5 DEF A!AllocNext
  <1>3. ASSUME NEW p \in DOMAIN live, live' = Drop(live, p)
        PROVE  A!AllocNext
    <2>1. H = G \ {Extent(p, live[p].want)}
      BY <1>3, GrantsDropped
    <2>2. Extent(p, live[p].want) \in G
      BY DEF Grants, Extent
    <2> QED BY <2>1, <2>2 DEF A!AllocNext, A!Free
  <1>4. ASSUME NEW p \in DOMAIN live, NEW q, NEW raw, NEW n, NEW al,
               q = p \/ q \notin DOMAIN live,
               live' = Hold(Drop(live, p), q, raw, n, al)
        PROVE  A!AllocNext \/ H = G
    <2> DEFINE old == Extent(p, live[p].want)
               new == Extent(q, n)
    <2>1. q \notin DOMAIN Drop(live, p)
      BY <1>4 DEF Drop
    <2>2. H = (G \ {old}) \cup {new}
      BY <1>4, <2>1, GrantsHeld, GrantsDropped
    <2>3. old \in G
      BY DEF Grants, Extent
    <2>4. new \notin G \ {old}
      BY <1>4, <2>1 DEF Grants, Extent
    <2>5. A!Fresh(new, H \ {new})
      <3>1. q \in DOMAIN live' /\ live'[q].want = n
        BY <1>4 DEF Hold
      <3> QED BY <1>1, <3>1
    <2> HIDE DEF old, new, G, H
    <2>6. H \ {new} = G \ {old}
      BY <2>2, <2>4
    <2>7. CASE new = old
      BY <2>2, <2>3, <2>7
    <2>8. CASE new # old
      <3>1. new \in H \ G
        BY <2>2, <2>4, <2>8
      <3>2. A!Realloc(old, new)
        BY <2>2, <2>5, <2>6 DEF A!Realloc, G, H
      <3> QED BY <2>3, <3>1, <3>2 DEF A!AllocNext, G, H
    <2> QED BY <2>7, <2>8
  <1>5. CASE UNCHANGED vars
    BY <1>5 DEF vars
  <1>6. CASE ~UNCHANGED vars
    <2>1. ASSUME NEW n \in Requests, Kmalloc(n) PROVE A!AllocNext \/ H = G
      <3> DEFINE size == RoundUp(n)
      <3>1. PICK b \in FindFreeBlock(size) :
              live' = Hold(live, Payload(b), Payload(b), n, FALSE)
        BY <2>1, <1>6 DEF Kmalloc
      <3>2. size \in Nat /\ n \in Int /\ 1 <= n /\ n <= size
        BY RoundUpCovers, HeapAssumption
      <3> HIDE DEF size
      <3>3. Payload(b) \in Int /\ Payload(b) < Payload(b) + size
        BY <3>2, IInvFacts DEF FindFreeBlock, Fits, Payload
      <3> DEFINE p == Payload(b)
      <3>4. p \notin DOMAIN live
        BY <3>2, <3>3, NewPointer
      <3> HIDE DEF p
      <3>5. live' = Hold(live, p, p, n, FALSE) /\ p \in Int
        BY <3>1, <3>3 DEF p
      <3> QED BY <3>4, <3>5, <1>2
    <2>2. ASSUME NEW n \in Requests, NEW al \in Aligns, KmallocAligned(n, al)
          PROVE  A!AllocNext \/ H = G
      <3> DEFINE size == RoundUp(n + al + 4)
      <3>1. PICK b \in FindFreeBlock(size) :
              live' = Hold(live, AlignUp(Payload(b), al), Payload(b), n, TRUE)
        BY <2>2, <1>6 DEF KmallocAligned
      <3> DEFINE p == AlignUp(Payload(b), al)
      <3>2. size \in Nat /\ n + al + 4 <= size /\ n \in Int /\ 1 <= n /\ al \in Nat \ {0}
        <4>1. n + al + 4 \in 1 .. WordSize - 4 /\ n \in Int /\ 1 <= n /\ al \in Nat \ {0}
          BY HeapAssumption
        <4> QED BY <4>1, RoundUpCovers
      <3> HIDE DEF size
      <3>3. Payload(b) \in Int
        BY IInvFacts DEF FindFreeBlock, Fits, Payload
      <3>4. p \in Int /\ Payload(b) <= p /\ p < Payload(b) + al
        BY <3>2, <3>3, AlignUpNear
      <3> HIDE DEF p
      <3>5. p < Payload(b) + size
        BY <3>2, <3>3, <3>4
      <3>6. p \notin DOMAIN live
        BY <3>2, <3>4, <3>5, NewPointer
      <3>7. live' = Hold(live, p, Payload(b), n, TRUE)
        BY <3>1 DEF p
      <3> QED BY <3>4, <3>6, <3>7, <1>2
    <2>3. ASSUME NEW p \in DOMAIN live, Kfree(p) PROVE A!AllocNext \/ H = G
      BY <2>3, <1>3 DEF Kfree
    <2>8. ASSUME NEW p \in DOMAIN live, KfreeOfAligned(p) PROVE A!AllocNext \/ H = G
      BY <2>8 DEF KfreeOfAligned
    <2>4. ASSUME NEW p \in DOMAIN live, NEW n \in Requests, KreallocInPlace(p, n)
          PROVE  A!AllocNext \/ H = G
      <3>1. live' = Hold(live, p, p, n, FALSE)
        BY <2>4 DEF KreallocInPlace
      <3>2. live' = Hold(Drop(live, p), p, p, n, FALSE)
        BY <3>1, HoldDropped
      <3> QED BY <3>2, <1>4
    <2>5. ASSUME NEW p \in DOMAIN live, NEW n \in Requests, KreallocMove(p, n)
          PROVE  A!AllocNext \/ H = G
      <3> DEFINE size == RoundUp(n)
      <3>1. PICK to \in FindFreeBlock(size) :
              live' = Drop(Hold(live, Payload(to), Payload(to), n, FALSE), p)
        BY <2>5, <1>6 DEF KreallocMove
      <3> DEFINE q == Payload(to)
      <3>2. size \in Nat /\ n \in Int /\ 1 <= n /\ n <= size
        BY RoundUpCovers, HeapAssumption
      <3> HIDE DEF size
      <3>3. q \notin DOMAIN live /\ q # p
        <4>1. q \in Int /\ q < Payload(to) + size
          BY <3>2, IInvFacts DEF FindFreeBlock, Fits, Payload
        <4> QED BY <3>2, <4>1, NewPointer
      <3> HIDE DEF q
      <3>4. Drop(Hold(live, q, q, n, FALSE), p) = Hold(Drop(live, p), q, q, n, FALSE)
        <4>1. DOMAIN Hold(live, q, q, n, FALSE) \ {p} = DOMAIN Drop(live, p) \cup {q}
          BY <3>3 DEF Hold, Drop
        <4>2. \A s \in DOMAIN Drop(live, p) : Drop(live, p)[s] = live[s]
          BY DEF Drop
        <4>3. \A s \in DOMAIN Hold(live, q, q, n, FALSE) \ {p} :
                Hold(live, q, q, n, FALSE)[s] =
                  IF s = q THEN [raw |-> q, want |-> n, aligned |-> FALSE]
                           ELSE Drop(live, p)[s]
          BY <4>1, <4>2 DEF Hold, Drop
        <4> QED BY <4>1, <4>3 DEF Hold, Drop
      <3>5. live' = Hold(Drop(live, p), q, q, n, FALSE)
        BY <3>1, <3>4 DEF q
      <3> QED BY <3>3, <3>5, <1>4
    <2>6. CASE MergeNext \/ MergePrev \/ MergeDone
      BY <2>6 DEF MergeNext, MergePrev, MergeDone
    <2>7. A!AllocNext \/ H = G
      BY <1>6, <2>1, <2>2, <2>3, <2>4, <2>5, <2>6, <2>8 DEF Next
    <2> QED BY <2>7
  <1> QED BY <1>5, <1>6

(* Every grant kmalloc, krealloc and kmalloc_aligned make is an extent of  *)
(* the heap that no other live grant overlaps, and only its owner's calls  *)
(* change it.                                                              *)
THEOREM HeapImplements == Spec => ImplementsAllocator
  <1>1. Init => A!AllocInit
    BY DEF Init, A!AllocInit, Grants
  <1>2. IInv /\ IInv' /\ [Next]_vars => [A!AllocNext]_(Grants(live))
    BY StepImplements
  <1> QED BY <1>1, <1>2, Inductive, PTL DEF Spec, ImplementsAllocator, A!AllocSpec
=============================================================================
