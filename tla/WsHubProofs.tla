---------------------------- MODULE WsHubProofs -----------------------------
(***************************************************************************)
(* Proofs about WsHub, for any clients, senders, rooms and capacities.     *)
(***************************************************************************)
EXTENDS WsHub, SequenceTheorems, TLAPS

\* A client that is not served yet has been sent nothing.
Goroutines ==
    \A c \in Client :
      /\ writer[c] \in {"none", "adding"} <=> reader[c] = "none"
      /\ reader[c] = "none" => send[c] = <<>> /\ got[c] = <<>>

\* No client is in a room of another organisation.
OwnRooms == \A r \in DOMAIN rooms : \A c \in rooms[r] : RoomOf[c] = r

\* A broadcast reaches for members only: they cannot leave while it runs.
Offers ==
    \A s \in Sender :
      /\ s \in busy => sent[s] > 0
      /\ s \notin busy => offer[s] = {}
      /\ offer[s] \subseteq Members(RoomOf[s])

\* What a client was sent has been broadcast, and before the broadcast that has
\* yet to reach it.
Earlier ==
    \A c \in Client : \A i \in 1..Len(Stream(c)) :
      LET m == Stream(c)[i] IN
      /\ m[2] <= sent[m[1]]
      /\ c \in offer[m[1]] => m[2] < sent[m[1]]

Inv == /\ TypeOK /\ Goroutines /\ OwnRooms /\ Offers /\ MembersAreConnected
       /\ Earlier /\ StreamsInOrder /\ LosesOnlyWhenFull

------------------------------------------------------------------------------
(* Streams: two sequences one after the other *)

\* One more at the end.
LEMMA Pushed ==
  ASSUME NEW S, NEW g \in Seq(S), NEW q \in Seq(S), NEW m \in S
  PROVE  /\ Len(g \o Append(q, m)) = Len(g \o q) + 1
         /\ \A i \in 1..Len(g \o q) : (g \o Append(q, m))[i] = (g \o q)[i]
         /\ (g \o Append(q, m))[Len(g \o q) + 1] = m
<1>1. Append(q, m) \in Seq(S) /\ Len(Append(q, m)) = Len(q) + 1
  BY AppendProperties
<1>2. g \o Append(q, m) = Append(g \o q, m)
  BY <1>1
<1>3. g \o q \in Seq(S)
  OBVIOUS
<1>4. QED
  BY <1>2, <1>3, AppendProperties

\* The first of the second moves to the end of the first.
LEMMA Moved ==
  ASSUME NEW S, NEW g \in Seq(S), NEW q \in Seq(S), q # <<>>
  PROVE  Append(g, Head(q)) \o Tail(q) = g \o q
<1>1. Head(q) \in S /\ Tail(q) \in Seq(S) /\ Len(Tail(q)) = Len(q) - 1
  BY HeadTailProperties
<1> DEFINE u == Append(g, Head(q)) \o Tail(q)
           v == g \o q
<1>2. u \in Seq(S) /\ v \in Seq(S) /\ Len(u) = Len(v)
  BY <1>1
<1>3. \A i \in 1..Len(v) : u[i] = v[i]
  BY <1>1, HeadTailProperties, AppendProperties, ConcatProperties
<1>4. QED
  BY <1>2, <1>3, SeqEqual

\* The first of the second is lost.
LEMMA Dropped ==
  ASSUME NEW S, NEW g \in Seq(S), NEW q \in Seq(S), q # <<>>
  PROVE  \A i, j \in 1..Len(g \o Tail(q)) :
           \E k, l \in 1..Len(g \o q) :
             /\ (g \o Tail(q))[i] = (g \o q)[k]
             /\ (g \o Tail(q))[j] = (g \o q)[l]
             /\ i < j => k < l
<1>1. Tail(q) \in Seq(S) /\ Len(Tail(q)) = Len(q) - 1
  BY HeadTailProperties
<1> DEFINE At(i) == IF i <= Len(g) THEN i ELSE i + 1
<1>2. Len(g) \in Nat /\ Len(q) \in Nat \ {0}
  OBVIOUS
<1>3. Len(g \o Tail(q)) = Len(g) + Len(q) - 1 /\ Len(g \o q) = Len(g) + Len(q)
  BY <1>1, <1>2
<1>4. ASSUME NEW i \in 1..Len(g \o Tail(q))
      PROVE  At(i) \in 1..Len(g \o q) /\ (g \o Tail(q))[i] = (g \o q)[At(i)]
  <2>1. i \in Nat /\ i <= Len(g) + Len(q) - 1 /\ i >= 1
    BY <1>2, <1>3
  <2>2. CASE i <= Len(g)
    BY <1>1, <1>2, <1>3, <2>1, <2>2
  <2>3. CASE ~(i <= Len(g))
    <3>1. (g \o Tail(q))[i] = Tail(q)[i - Len(g)]
      BY <1>1, <1>2, <1>3, <2>1, <2>3, ConcatProperties
    <3>2. Tail(q)[i - Len(g)] = q[(i - Len(g)) + 1]
      BY <1>1, <1>2, <2>1, <2>3, HeadTailProperties
    <3>3. (g \o q)[i + 1] = q[(i + 1) - Len(g)]
      BY <1>2, <1>3, <2>1, <2>3, ConcatProperties
    <3>4. (i - Len(g)) + 1 = (i + 1) - Len(g)
      BY <1>2, <2>1
    <3>5. QED
      BY <1>2, <1>3, <2>1, <2>3, <3>1, <3>2, <3>3, <3>4
  <2>4. QED
    BY <2>2, <2>3
<1>5. \A i, j \in 1..Len(g \o Tail(q)) : i < j => At(i) < At(j)
  BY <1>2, <1>3
<1>6. QED
  BY <1>4, <1>5

------------------------------------------------------------------------------
(* Typing and membership *)

LEMMA InitInv == Init => Inv
<1> SUFFICES ASSUME Init PROVE Inv
  OBVIOUS
<1>1. TypeOK
  <2>1. rooms \in [{} -> SUBSET Client]
    BY DEF Init
  <2>2. \E live \in SUBSET Room : rooms \in [live -> SUBSET Client]
    BY <2>1
  <2>3. send \in [Client -> Seq(Message)] /\ got \in [Client -> Seq(Message)]
        /\ \A c \in Client : Len(send[c]) <= Cap
    BY HubAssumption DEF Init
  <2>4. sent \in [Sender -> 0..MaxSent]
    BY HubAssumption DEF Init
  <2>5. QED
    BY <2>2, <2>3, <2>4 DEF Init, TypeOK, ReaderState, WriterState
<1>2. \A c \in Client : Stream(c) = <<>>
  BY DEF Init, Stream
<1>3. Earlier /\ StreamsInOrder /\ LosesOnlyWhenFull
  BY <1>2 DEF Init, Earlier, StreamsInOrder, LosesOnlyWhenFull
<1>4. QED
  BY <1>1, <1>3 DEF Init, Inv, Goroutines, OwnRooms, Offers, MembersAreConnected,
                    Members

\* The members of a room are clients.
LEMMA MembersTyped ==
  ASSUME TypeOK, NEW r \in Room
  PROVE  Members(r) \subseteq Client
  BY DEF TypeOK, Members

\* The two changes of the rooms: who is a member afterwards.
LEMMA AddEffect ==
  ASSUME TypeOK, OwnRooms, MembersAreConnected, NEW c \in Client, rooms' = WithMember(c)
  PROVE  /\ \E live \in SUBSET Room : rooms' \in [live -> SUBSET Client]
         /\ \A r \in Room : Members(r)' = IF r = RoomOf[c] THEN Members(r) \cup {c}
                                                          ELSE Members(r)
         /\ OwnRooms'
         /\ \A r \in DOMAIN rooms' : rooms'[r] # {}
<1>1. RoomOf[c] \in Room
  BY HubAssumption
<1>2. PICK live \in SUBSET Room : rooms \in [live -> SUBSET Client]
  BY DEF TypeOK
<1>3. rooms' \in [live \cup {RoomOf[c]} -> SUBSET Client]
  BY <1>1, <1>2, MembersTyped DEF WithMember
<1>4. \A r \in Room : Members(r)' = IF r = RoomOf[c] THEN Members(r) \cup {c}
                                                     ELSE Members(r)
  BY <1>2 DEF WithMember, Members
<1>5. OwnRooms' /\ \A r \in DOMAIN rooms' : rooms'[r] # {}
  BY <1>2 DEF OwnRooms, MembersAreConnected, WithMember, Members
<1>6. QED
  BY <1>1, <1>3, <1>4, <1>5

LEMMA RemoveEffect ==
  ASSUME TypeOK, OwnRooms, MembersAreConnected, NEW c \in Client, rooms' = WithoutMember(c)
  PROVE  /\ \E live \in SUBSET Room : rooms' \in [live -> SUBSET Client]
         /\ \A r \in Room : Members(r)' = IF r = RoomOf[c] THEN Members(r) \ {c}
                                                          ELSE Members(r)
         /\ OwnRooms'
         /\ \A r \in DOMAIN rooms' : rooms'[r] # {}
<1>1. RoomOf[c] \in Room
  BY HubAssumption
<1>2. PICK live \in SUBSET Room : rooms \in [live -> SUBSET Client]
  BY DEF TypeOK
<1> DEFINE rest == Members(RoomOf[c]) \ {c}
           keep == IF rest = {} THEN live \ {RoomOf[c]} ELSE live
<1>3. rooms' = [r \in keep |-> IF r = RoomOf[c] THEN rest ELSE rooms[r]]
  BY <1>2 DEF WithoutMember
<1>4. keep \in SUBSET Room /\ rest \subseteq Client
  BY <1>1, MembersTyped
<1>5. rooms' \in [keep -> SUBSET Client]
  BY <1>2, <1>3, <1>4
<1>6. \A r \in Room : Members(r)' = IF r = RoomOf[c] THEN Members(r) \ {c}
                                                     ELSE Members(r)
  BY <1>2, <1>3 DEF Members
<1>7. OwnRooms' /\ \A r \in DOMAIN rooms' : rooms'[r] # {}
  BY <1>2, <1>3 DEF OwnRooms, MembersAreConnected, Members
<1>8. QED
  BY <1>4, <1>5, <1>6, <1>7

\* Where a client's broadcast has got to.
LEMMA OfferEffect ==
  ASSUME TypeOK, Offers, NEW s \in Sender, NEW c \in Client, Offer(s, c)
  PROVE  /\ sent[s] \in 1..MaxSent /\ <<s, sent[s]>> \in Message
         /\ \/ /\ send' = [send EXCEPT ![c] = Append(@, <<s, sent[s]>>)]
               /\ Len(send[c]) < Cap /\ UNCHANGED lossy
            \/ UNCHANGED send /\ lossy' = lossy \cup {c}
  BY HubAssumption DEF Offer, Offers, TypeOK, Message

LEMMA NextTyped ==
  TypeOK /\ OwnRooms /\ MembersAreConnected /\ Offers /\ [Next]_vars => TypeOK'
<1> SUFFICES ASSUME TypeOK, OwnRooms, MembersAreConnected, Offers, [Next]_vars
             PROVE  TypeOK'
  OBVIOUS
<1> USE DEF ReaderState, WriterState
<1>1. ASSUME NEW s \in Sender, Broadcast(s) PROVE TypeOK'
  <2>1. RoomOf[s] \in Room
    BY HubAssumption
  <2>2. offer' \in [Sender -> SUBSET Client]
    BY <1>1, <2>1, MembersTyped DEF Broadcast, TypeOK
  <2>3. sent' \in [Sender -> 0..MaxSent]
    BY <1>1, HubAssumption DEF Broadcast, TypeOK
  <2>4. QED
    BY <1>1, <2>2, <2>3 DEF Broadcast, TypeOK
<1>2. ASSUME NEW s \in Sender, NEW c \in Client, Offer(s, c) PROVE TypeOK'
  <2>1. send' \in [Client -> Seq(Message)] /\ \A d \in Client : Len(send'[d]) <= Cap
    <3>1. CASE UNCHANGED send
      BY <3>1 DEF TypeOK
    <3>2. CASE /\ send' = [send EXCEPT ![c] = Append(@, <<s, sent[s]>>)]
               /\ Len(send[c]) < Cap
      <4>1. send[c] \in Seq(Message) /\ <<s, sent[s]>> \in Message
        BY <1>2, OfferEffect DEF TypeOK
      <4>2. /\ Append(send[c], <<s, sent[s]>>) \in Seq(Message)
            /\ Len(Append(send[c], <<s, sent[s]>>)) = Len(send[c]) + 1
            /\ Len(send[c]) \in Nat
        BY <4>1, AppendProperties, LenProperties
      <4>3. Len(send[c]) + 1 <= Cap
        BY <3>2, <4>2, HubAssumption
      <4>4. QED
        BY <3>2, <4>2, <4>3 DEF TypeOK
    <3>3. QED
      BY <1>2, <3>1, <3>2, OfferEffect
  <2>2. QED
    BY <1>2, <2>1, OfferEffect DEF Offer, TypeOK
<1>3. ASSUME NEW s \in Sender, Release(s) PROVE TypeOK'
  BY <1>3 DEF Release, TypeOK
<1>4. ASSUME NEW c \in Client, Connect(c) PROVE TypeOK'
  BY <1>4 DEF Connect, TypeOK
<1>5. ASSUME NEW c \in Client, Add(c) PROVE TypeOK'
  BY <1>5, AddEffect DEF Add, TypeOK
<1>6. ASSUME NEW c \in Client, Greet(c) PROVE TypeOK'
  BY <1>6 DEF Greet, TypeOK
<1>7. ASSUME NEW c \in Client, Drain(c) PROVE TypeOK'
  <2>1. /\ Head(send[c]) \in Message /\ Tail(send[c]) \in Seq(Message)
        /\ Len(Tail(send[c])) <= Cap
    BY <1>7, HubAssumption DEF Drain, TypeOK
  <2>2. send' \in [Client -> Seq(Message)] /\ \A d \in Client : Len(send'[d]) <= Cap
    BY <1>7, <2>1 DEF Drain, TypeOK
  <2>3. got' \in [Client -> Seq(Message)] /\ writer' \in [Client -> WriterState]
    <3>1. got[c] \in Seq(Message) /\ Append(got[c], Head(send[c])) \in Seq(Message)
      BY <2>1 DEF TypeOK
    <3>2. QED
      BY <1>7, <3>1 DEF Drain, TypeOK
  <2>4. QED
    BY <1>7, <2>2, <2>3 DEF Drain, TypeOK
<1>8. ASSUME NEW c \in Client, Leave(c) PROVE TypeOK'
  BY <1>8 DEF Leave, TypeOK
<1>9. ASSUME NEW c \in Client, ReadError(c) PROVE TypeOK'
  BY <1>9 DEF ReadError, TypeOK
<1>10. ASSUME NEW c \in Client, Remove(c) PROVE TypeOK'
  BY <1>10, RemoveEffect DEF Remove, TypeOK
<1>11. CASE UNCHANGED vars
  BY <1>11 DEF vars, TypeOK
<1>12. QED
  BY <1>1, <1>2, <1>3, <1>4, <1>5, <1>6, <1>7, <1>8, <1>9, <1>10, <1>11
     DEF Next, Send

\* Only members are offered a message, and they have a reader.
LEMMA OfferedToMembers ==
  ASSUME Offers, MembersAreConnected, OwnRooms, NEW s \in Sender,
         NEW c \in Client, c \in offer[s]
  PROVE  s \in busy /\ RoomOf[c] = RoomOf[s] /\ reader[c] \in {"reading", "removing"}
<1>1. s \in busy /\ c \in Members(RoomOf[s])
  BY DEF Offers
<1>2. RoomOf[c] = RoomOf[s]
  BY <1>1 DEF Members, OwnRooms
<1>3. QED
  BY <1>1, <1>2 DEF MembersAreConnected

Membership == Goroutines /\ OwnRooms /\ Offers /\ MembersAreConnected

LEMMA NextMembership == TypeOK /\ Membership /\ [Next]_vars => Membership'
<1> SUFFICES ASSUME TypeOK, Membership, [Next]_vars PROVE Membership'
  OBVIOUS
<1> USE DEF Membership
<1>1. ASSUME NEW s \in Sender, Broadcast(s) PROVE Membership'
  BY <1>1 DEF Broadcast, Goroutines, OwnRooms, Offers, MembersAreConnected, Members, TypeOK
<1>2. ASSUME NEW s \in Sender, NEW c \in Client, Offer(s, c) PROVE Membership'
  <2>1. UNCHANGED <<rooms, reader, writer, sent, busy, got>>
    BY <1>2 DEF Offer
  <2>2. Offers'
    BY <1>2, <2>1 DEF Offer, Offers, Members, TypeOK
  <2>3. \A d \in Client : d # c => send'[d] = send[d]
    BY <1>2 DEF Offer, TypeOK
  <2>4. reader[c] # "none"
    BY <1>2, OfferedToMembers DEF Offer
  <2>5. Goroutines'
    BY <2>1, <2>3, <2>4 DEF Goroutines
  <2>6. QED
    BY <2>1, <2>2, <2>5 DEF OwnRooms, MembersAreConnected, Members
<1>3. ASSUME NEW s \in Sender, Release(s) PROVE Membership'
  BY <1>3 DEF Release, Goroutines, OwnRooms, Offers, MembersAreConnected, Members
<1>4. ASSUME NEW c \in Client, Connect(c) PROVE Membership'
  BY <1>4 DEF Connect, Goroutines, OwnRooms, Offers, MembersAreConnected, Members, TypeOK
<1>5. ASSUME NEW c \in Client, Add(c) PROVE Membership'
  <2>1. /\ reader' = [reader EXCEPT ![c] = "reading"]
        /\ writer' = [writer EXCEPT ![c] = "greeting"]
        /\ busy = {} /\ reader[c] = "none"
        /\ UNCHANGED <<send, sent, offer, busy, got>>
    BY <1>5 DEF Add, Goroutines
  <2>2. \A d \in Client \cup Sender : RoomOf[d] \in Room
    BY HubAssumption
  <2>3. OwnRooms' /\ (\A r \in DOMAIN rooms' : rooms'[r] # {})
        /\ \A r \in Room : Members(r)' = IF r = RoomOf[c] THEN Members(r) \cup {c}
                                                         ELSE Members(r)
    BY <1>5, AddEffect DEF Add
  <2>4. ASSUME NEW d \in Client
        PROVE  d \in Members(RoomOf[d])' <=> reader'[d] \in {"reading", "removing"}
    <3>1. CASE d = c
      BY <2>1, <2>2, <2>3, <3>1 DEF TypeOK
    <3>2. CASE d # c
      <4>1. d \in Members(RoomOf[d])' <=> d \in Members(RoomOf[d])
        BY <2>2, <2>3, <3>2
      <4>2. reader'[d] = reader[d]
        BY <2>1, <3>2 DEF TypeOK
      <4>3. QED
        BY <4>1, <4>2 DEF MembersAreConnected
    <3>3. QED
      BY <3>1, <3>2
  <2>5. Goroutines' /\ Offers'
    BY <2>1, <2>2, <2>3 DEF Goroutines, Offers, TypeOK
  <2>6. QED
    BY <2>3, <2>4, <2>5 DEF MembersAreConnected
<1>6. ASSUME NEW c \in Client, Greet(c) PROVE Membership'
  BY <1>6 DEF Greet, Goroutines, OwnRooms, Offers, MembersAreConnected, Members, TypeOK
<1>7. ASSUME NEW c \in Client, Drain(c) PROVE Membership'
  BY <1>7 DEF Drain, Goroutines, OwnRooms, Offers, MembersAreConnected, Members, TypeOK
<1>8. ASSUME NEW c \in Client, Leave(c) PROVE Membership'
  BY <1>8 DEF Leave, Goroutines, OwnRooms, Offers, MembersAreConnected, Members
<1>9. ASSUME NEW c \in Client, ReadError(c) PROVE Membership'
  BY <1>9 DEF ReadError, Goroutines, OwnRooms, Offers, MembersAreConnected, Members,
              TypeOK
<1>10. ASSUME NEW c \in Client, Remove(c) PROVE Membership'
  <2>1. /\ reader' = [reader EXCEPT ![c] = "ended"] /\ reader[c] = "removing"
        /\ busy = {} /\ UNCHANGED <<send, writer, sent, offer, busy, got>>
    BY <1>10 DEF Remove
  <2>2. \A d \in Client \cup Sender : RoomOf[d] \in Room
    BY HubAssumption
  <2>3. OwnRooms' /\ (\A r \in DOMAIN rooms' : rooms'[r] # {})
        /\ \A r \in Room : Members(r)' = IF r = RoomOf[c] THEN Members(r) \ {c}
                                                         ELSE Members(r)
    BY <1>10, RemoveEffect DEF Remove
  <2>4. \A d \in Client :
           d \in Members(RoomOf[d])' <=> reader'[d] \in {"reading", "removing"}
    BY <2>1, <2>2, <2>3 DEF MembersAreConnected, TypeOK
  <2>5. Goroutines' /\ Offers'
    BY <2>1, <2>2, <2>3 DEF Goroutines, Offers, TypeOK
  <2>6. QED
    BY <2>3, <2>4, <2>5 DEF MembersAreConnected
<1>11. CASE UNCHANGED vars
  BY <1>11 DEF vars, Goroutines, OwnRooms, Offers, MembersAreConnected, Members
<1>12. QED
  BY <1>1, <1>2, <1>3, <1>4, <1>5, <1>6, <1>7, <1>8, <1>9, <1>10, <1>11
     DEF Next, Send

------------------------------------------------------------------------------
(* Streams: how the steps change them *)

LEMMA StreamTyped ==
  ASSUME TypeOK, NEW c \in Client
  PROVE  /\ Stream(c) \in Seq(Message) /\ Len(Stream(c)) \in Nat
         /\ \A i \in 1..Len(Stream(c)) :
              /\ Stream(c)[i] \in Message
              /\ Stream(c)[i][1] \in Sender /\ Stream(c)[i][2] \in 1..MaxSent
<1>1. Stream(c) \in Seq(Message)
  BY DEF TypeOK, Stream
<1>2. Len(Stream(c)) \in Nat /\ \A i \in 1..Len(Stream(c)) : Stream(c)[i] \in Message
  BY <1>1
<1>3. QED
  BY <1>1, <1>2 DEF Message

LEMMA OfferStream ==
  ASSUME TypeOK, Offers, NEW s \in Sender, NEW c \in Client, Offer(s, c)
  PROVE  /\ \A d \in Client \ {c} : Stream(d)' = Stream(d)
         /\ \/ Stream(c)' = Stream(c) /\ lossy' = lossy \cup {c}
            \/ /\ lossy' = lossy
               /\ Len(Stream(c)') = Len(Stream(c)) + 1
               /\ \A i \in 1..Len(Stream(c)) : Stream(c)'[i] = Stream(c)[i]
               /\ Stream(c)'[Len(Stream(c)) + 1] = <<s, sent[s]>>
<1>1. UNCHANGED got
  BY DEF Offer
<1>2. CASE UNCHANGED send /\ lossy' = lossy \cup {c}
  BY <1>1, <1>2 DEF Stream
<1>3. CASE send' = [send EXCEPT ![c] = Append(@, <<s, sent[s]>>)] /\ UNCHANGED lossy
  <2>1. \A d \in Client \ {c} : Stream(d)' = Stream(d)
    BY <1>1, <1>3 DEF Stream, TypeOK
  <2>2. Stream(c)' = got[c] \o Append(send[c], <<s, sent[s]>>)
    BY <1>1, <1>3 DEF Stream, TypeOK
  <2>3. got[c] \in Seq(Message) /\ send[c] \in Seq(Message) /\ <<s, sent[s]>> \in Message
    BY OfferEffect DEF TypeOK
  <2> DEFINE g == got[c]
             q == send[c]
             m == <<s, sent[s]>>
  <2>. g \in Seq(Message) /\ q \in Seq(Message) /\ m \in Message
    BY <2>3
  <2>3a. Stream(c) = g \o q
    BY DEF Stream
  <2>3b. Stream(c)' = g \o Append(q, m)
    BY <2>2
  <2> HIDE DEF g, q, m
  <2>4. /\ Len(g \o Append(q, m)) = Len(g \o q) + 1
        /\ \A i \in 1..Len(g \o q) : (g \o Append(q, m))[i] = (g \o q)[i]
        /\ (g \o Append(q, m))[Len(g \o q) + 1] = m
    BY Pushed
  <2>5. QED
    BY <1>3, <2>1, <2>4, <2>3a, <2>3b DEF m
<1>4. QED
  BY <1>2, <1>3, OfferEffect

\* Each message that is left was there before, in the same order.
Shortened(c) ==
    \A i, j \in 1..Len(Stream(c)') :
      \E k, l \in 1..Len(Stream(c)) :
        /\ Stream(c)'[i] = Stream(c)[k] /\ Stream(c)'[j] = Stream(c)[l]
        /\ i < j => k < l

LEMMA DrainStream ==
  ASSUME TypeOK, NEW c \in Client, Drain(c)
  PROVE  /\ \A d \in Client \ {c} : Stream(d)' = Stream(d) /\ writer'[d] = writer[d]
         /\ \/ Stream(c)' = Stream(c) /\ UNCHANGED writer
            \/ Shortened(c) /\ writer'[c] = "returned"
<1>1. got[c] \in Seq(Message) /\ send[c] \in Seq(Message) /\ send[c] # <<>>
  BY DEF Drain, TypeOK
<1>2. send' = [send EXCEPT ![c] = Tail(@)]
  BY DEF Drain
<1>3. CASE got' = [got EXCEPT ![c] = Append(@, Head(send[c]))] /\ UNCHANGED writer
  <2>1. Stream(c)' = Append(got[c], Head(send[c])) \o Tail(send[c])
    BY <1>2, <1>3 DEF Stream, TypeOK
  <2>2. Stream(c)' = Stream(c)
    BY <1>1, <2>1, Moved DEF Stream
  <2>3. \A d \in Client \ {c} : Stream(d)' = Stream(d)
    BY <1>2, <1>3 DEF Stream, TypeOK
  <2>4. QED
    BY <1>3, <2>2, <2>3
<1>4. CASE UNCHANGED got /\ writer' = [writer EXCEPT ![c] = "returned"]
  <2>1. Stream(c)' = got[c] \o Tail(send[c])
    BY <1>2, <1>4 DEF Stream, TypeOK
  <2>2. Shortened(c)
    <3> DEFINE g == got[c]
               q == send[c]
    <3>1. \A i, j \in 1..Len(g \o Tail(q)) :
            \E k, l \in 1..Len(g \o q) :
              /\ (g \o Tail(q))[i] = (g \o q)[k]
              /\ (g \o Tail(q))[j] = (g \o q)[l]
              /\ i < j => k < l
      BY <1>1, Dropped
    <3>2. Stream(c) = g \o q
      BY DEF Stream
    <3> HIDE DEF g, q
    <3>3. Stream(c)' = g \o Tail(q)
      BY <2>1 DEF g, q
    <3>4. ASSUME NEW i \in 1..Len(Stream(c)'), NEW j \in 1..Len(Stream(c)')
          PROVE  \E k, l \in 1..Len(Stream(c)) :
                   /\ Stream(c)'[i] = Stream(c)[k] /\ Stream(c)'[j] = Stream(c)[l]
                   /\ i < j => k < l
      <4>1. i \in 1..Len(g \o Tail(q)) /\ j \in 1..Len(g \o Tail(q))
        BY <3>3
      <4>2. PICK k, l \in 1..Len(g \o q) :
               /\ (g \o Tail(q))[i] = (g \o q)[k]
               /\ (g \o Tail(q))[j] = (g \o q)[l]
               /\ i < j => k < l
        BY <3>1, <4>1
      <4>3. QED
        BY <3>2, <3>3, <4>2
    <3>5. QED
      BY <3>4 DEF Shortened
  <2>3. \A d \in Client \ {c} : Stream(d)' = Stream(d) /\ writer'[d] = writer[d]
    BY <1>2, <1>4 DEF Stream, TypeOK
  <2>4. QED
    BY <1>4, <2>2, <2>3 DEF TypeOK
<1>5. QED
  BY <1>3, <1>4 DEF Drain

\* The other steps leave every stream alone.
LEMMA QuietStreams ==
  ASSUME UNCHANGED <<got, send>>
  PROVE  \A c \in Client : Stream(c)' = Stream(c)
  BY DEF Stream

------------------------------------------------------------------------------
(* Order *)

Sequenced == Earlier /\ StreamsInOrder

\* The two facts of one client.
EarlierAt(c) ==
    \A i \in 1..Len(Stream(c)) :
      LET m == Stream(c)[i] IN
      /\ m[2] <= sent[m[1]]
      /\ c \in offer[m[1]] => m[2] < sent[m[1]]

OrderAt(c) ==
    \A i, j \in 1..Len(Stream(c)) :
      LET m == Stream(c)[i]
          n == Stream(c)[j] IN
      /\ RoomOf[m[1]] = RoomOf[c]
      /\ (i < j /\ m[1] = n[1]) => m[2] < n[2]

LEMMA SequencedParts ==
  /\ Sequenced <=> \A c \in Client : EarlierAt(c) /\ OrderAt(c)
  /\ Sequenced' <=> \A c \in Client : EarlierAt(c)' /\ OrderAt(c)'
  BY DEF Sequenced, Earlier, StreamsInOrder, EarlierAt, OrderAt

\* A client whose stream is the same, while no new message is underway to it but
\* one that is new altogether.
LEMMA SameStream ==
  ASSUME TypeOK, TypeOK', NEW c \in Client, Stream(c)' = Stream(c),
         EarlierAt(c), OrderAt(c),
         \A s \in Sender : \/ sent'[s] = sent[s] /\ (c \in offer'[s] => c \in offer[s])
                           \/ sent'[s] = sent[s] + 1
  PROVE  EarlierAt(c)' /\ OrderAt(c)'
<1>1. OrderAt(c)'
  BY DEF OrderAt
<1>2. \A s \in Sender : sent[s] \in Nat /\ sent'[s] \in Nat
  BY HubAssumption DEF TypeOK
<1>3. ASSUME NEW i \in 1..Len(Stream(c))
      PROVE  LET m == Stream(c)[i] IN
             /\ m[2] <= sent'[m[1]]
             /\ c \in offer'[m[1]] => m[2] < sent'[m[1]]
  <2> DEFINE m == Stream(c)[i]
  <2>1. m[1] \in Sender /\ m[2] \in Nat
    BY StreamTyped, HubAssumption
  <2>2. m[2] <= sent[m[1]] /\ (c \in offer[m[1]] => m[2] < sent[m[1]])
    BY DEF EarlierAt
  <2> HIDE DEF m
  <2>3. m[2] <= sent'[m[1]] /\ (c \in offer'[m[1]] => m[2] < sent'[m[1]])
    BY <1>2, <2>1, <2>2
  <2>4. QED
    BY <2>3 DEF m
<1>4. EarlierAt(c)'
  BY <1>3 DEF EarlierAt
<1>5. QED
  BY <1>1, <1>4

LEMMA NextSequenced ==
  TypeOK /\ TypeOK' /\ Membership /\ Sequenced /\ [Next]_vars => Sequenced'
<1> SUFFICES ASSUME TypeOK, TypeOK', Membership, Sequenced, [Next]_vars,
                    NEW c \in Client
             PROVE  EarlierAt(c)' /\ OrderAt(c)'
  BY SequencedParts
<1>1. EarlierAt(c) /\ OrderAt(c)
  BY SequencedParts
<1>2. ASSUME NEW s \in Sender, Broadcast(s) PROVE EarlierAt(c)' /\ OrderAt(c)'
  <2>1. \A r \in Sender : \/ sent'[r] = sent[r] /\ offer'[r] = offer[r]
                          \/ sent'[r] = sent[r] + 1
    BY <1>2 DEF Broadcast, TypeOK
  <2>2. Stream(c)' = Stream(c)
    BY <1>2, QuietStreams DEF Broadcast
  <2>3. QED
    BY <1>1, <2>1, <2>2, SameStream
<1>3. ASSUME NEW s \in Sender, NEW d \in Client, Offer(s, d)
      PROVE  EarlierAt(c)' /\ OrderAt(c)'
  <2>1. UNCHANGED sent /\ offer' = [offer EXCEPT ![s] = @ \ {d}] /\ d \in offer[s]
    BY <1>3 DEF Offer
  <2>2. \A r \in Sender : sent'[r] = sent[r] /\ (c \in offer'[r] => c \in offer[r])
    BY <2>1 DEF TypeOK
  <2>3. CASE Stream(c)' = Stream(c)
    BY <1>1, <2>2, <2>3, SameStream
  <2>4. CASE Stream(c)' # Stream(c)
    <3>1. /\ c = d
          /\ Len(Stream(c)') = Len(Stream(c)) + 1
          /\ \A i \in 1..Len(Stream(c)) : Stream(c)'[i] = Stream(c)[i]
          /\ Stream(c)'[Len(Stream(c)) + 1] = <<s, sent[s]>>
      BY <1>3, <2>4, OfferStream DEF Membership
    <3>2. RoomOf[s] = RoomOf[c] /\ c \notin offer'[s]
      BY <2>1, <3>1, OfferedToMembers DEF Membership, TypeOK
    <3>3. \A i \in 1..Len(Stream(c)') :
             i \in 1..Len(Stream(c)) \/ i = Len(Stream(c)) + 1
      BY <3>1, StreamTyped
    <3>4. EarlierAt(c)'
      <4> SUFFICES ASSUME NEW i \in 1..Len(Stream(c)')
                   PROVE  LET m == Stream(c)'[i] IN
                          /\ m[2] <= sent'[m[1]]
                          /\ c \in offer'[m[1]] => m[2] < sent'[m[1]]
        BY DEF EarlierAt
      <4>1. CASE i \in 1..Len(Stream(c))
        BY <1>1, <2>1, <2>2, <3>1, <4>1, StreamTyped DEF EarlierAt
      <4>2. CASE i = Len(Stream(c)) + 1
        <5>1. sent[s] \in Nat
          BY HubAssumption DEF TypeOK
        <5>2. Stream(c)'[i] = <<s, sent[s]>>
          BY <3>1, <4>2
        <5>3. QED
          BY <2>1, <3>2, <5>1, <5>2
      <4>3. QED
        BY <3>3, <4>1, <4>2
    <3>5. \A i \in 1..Len(Stream(c)) : Stream(c)[i][1] = s => Stream(c)[i][2] < sent[s]
      BY <1>1, <2>1, <3>1 DEF EarlierAt
    <3>6. OrderAt(c)'
      BY <1>1, <3>1, <3>2, <3>3, <3>5, StreamTyped DEF OrderAt
    <3>7. QED
      BY <3>4, <3>6
  <2>5. QED
    BY <2>3, <2>4
<1>4. ASSUME NEW d \in Client, Drain(d) PROVE EarlierAt(c)' /\ OrderAt(c)'
  <2>1. UNCHANGED <<sent, offer>>
    BY <1>4 DEF Drain
  <2>2. CASE Stream(c)' = Stream(c)
    BY <1>1, <2>1, <2>2, SameStream
  <2>3. CASE Stream(c)' # Stream(c)
    <3>1. Shortened(c)
      BY <1>4, <2>3, DrainStream
    <3>2. EarlierAt(c)'
      BY <1>1, <2>1, <3>1 DEF EarlierAt, Shortened
    <3>3. OrderAt(c)'
      <4> SUFFICES ASSUME NEW i \in 1..Len(Stream(c)'), NEW j \in 1..Len(Stream(c)')
                   PROVE  LET m == Stream(c)'[i]
                              n == Stream(c)'[j] IN
                          /\ RoomOf[m[1]] = RoomOf[c]
                          /\ (i < j /\ m[1] = n[1]) => m[2] < n[2]
        BY DEF OrderAt
      <4>1. PICK k, l \in 1..Len(Stream(c)) :
               /\ Stream(c)'[i] = Stream(c)[k] /\ Stream(c)'[j] = Stream(c)[l]
               /\ i < j => k < l
        BY <3>1 DEF Shortened
      <4>2. QED
        BY <1>1, <4>1 DEF OrderAt
    <3>4. QED
      BY <3>2, <3>3
  <2>4. QED
    BY <2>2, <2>3
<1>5. CASE UNCHANGED <<got, send, sent, offer>>
  BY <1>1, <1>5, QuietStreams, SameStream
<1>6. QED
  BY <1>2, <1>3, <1>4, <1>5
     DEF Next, Send, Release, Connect, Add, Greet, Leave, ReadError, Remove, vars

------------------------------------------------------------------------------
(* Losses *)

Has(c, m) == \E i \in 1..Len(Stream(c)) : Stream(c)[i] = m

\* A client whose stream of sender s may not have holes.
Tracked(c, s) ==
    /\ reader[c] = "reading" /\ writer[c] # "returned" /\ c \notin lossy
    /\ Has(c, <<s, 1>>)

Complete(c, s) ==
    \A n \in 1..sent[s] : Has(c, <<s, n>>) \/ (n = sent[s] /\ c \in offer[s])

LEMMA LossParts ==
  /\ LosesOnlyWhenFull <=> \A c \in Client, s \in Sender : Tracked(c, s) => Complete(c, s)
  /\ LosesOnlyWhenFull' <=>
        \A c \in Client, s \in Sender : Tracked(c, s)' => Complete(c, s)'
  BY DEF LosesOnlyWhenFull, Tracked, Complete, Has

LEMMA SameHas ==
  ASSUME NEW c \in Client, Stream(c)' = Stream(c)
  PROVE  \A m : Has(c, m)' <=> Has(c, m)
  BY DEF Has

\* A message that is queued completes the stream of its sender.
LEMMA OfferCompletes ==
  ASSUME TypeOK, Membership, NEW r \in Sender, NEW c \in Client, Offer(r, c),
         NEW s \in Sender, Tracked(c, s)', Tracked(c, s) => Complete(c, s)
  PROVE  Complete(c, s)'
<1>1. UNCHANGED <<reader, writer, sent>> /\ offer' = [offer EXCEPT ![r] = @ \ {c}]
  BY DEF Offer
<1>2. c \notin lossy'
  BY DEF Tracked
<1>3. /\ lossy' = lossy
      /\ Len(Stream(c)') = Len(Stream(c)) + 1
      /\ \A i \in 1..Len(Stream(c)) : Stream(c)'[i] = Stream(c)[i]
      /\ Stream(c)'[Len(Stream(c)) + 1] = <<r, sent[r]>>
  BY <1>2, OfferStream DEF Membership
<1>4. \A m : Has(c, m)' <=> Has(c, m) \/ m = <<r, sent[r]>>
  <2>1. Len(Stream(c)) \in Nat
    BY StreamTyped
  <2>2. \A i : i \in 1..Len(Stream(c)') <=>
                  i \in 1..Len(Stream(c)) \/ i = Len(Stream(c)) + 1
    BY <1>3, <2>1
  <2>3. QED
    BY <1>3, <2>2 DEF Has
<1>5. sent[r] \in Nat /\ sent[s] \in Nat
  BY HubAssumption DEF TypeOK
<1>6. CASE Has(c, <<s, 1>>)
  <2>1. Complete(c, s)
    BY <1>1, <1>3, <1>6 DEF Tracked
  <2>2. \A n \in 1..sent[s] : Has(c, <<s, n>>)' \/ (n = sent[s] /\ c \in offer'[s])
    BY <1>1, <1>4, <2>1 DEF Complete, TypeOK
  <2>3. QED
    BY <1>1, <2>2 DEF Complete
<1>7. CASE ~Has(c, <<s, 1>>)
  <2>1. <<s, 1>> = <<r, sent[r]>>
    BY <1>4, <1>7 DEF Tracked
  <2>2. s = r /\ sent[s] = 1 /\ Has(c, <<s, 1>>)'
    BY <1>4, <2>1
  <2>3. QED
    BY <1>1, <2>2 DEF Complete
<1>8. QED
  BY <1>6, <1>7

LEMMA NextLosses ==
  TypeOK /\ Membership /\ StreamsInOrder /\ LosesOnlyWhenFull /\ [Next]_vars
    => LosesOnlyWhenFull'
<1> SUFFICES ASSUME TypeOK, Membership, StreamsInOrder, LosesOnlyWhenFull, [Next]_vars,
                    NEW c \in Client, NEW s \in Sender, Tracked(c, s)'
             PROVE  Complete(c, s)'
  BY LossParts
<1>1. Tracked(c, s) => Complete(c, s)
  BY LossParts
<1>2. ASSUME NEW r \in Sender, Broadcast(r) PROVE Complete(c, s)'
  <2>1. \A m : Has(c, m)' <=> Has(c, m)
    BY <1>2, QuietStreams, SameHas DEF Broadcast
  <2>2. Tracked(c, s)
    BY <1>2, <2>1 DEF Broadcast, Tracked
  <2>3. CASE r # s
    <3>1. sent'[s] = sent[s] /\ offer'[s] = offer[s]
      BY <1>2, <2>3 DEF Broadcast, TypeOK
    <3>2. QED
      BY <1>1, <2>1, <2>2, <3>1 DEF Complete
  <2>4. CASE r = s
    <3>1. offer[s] = {} /\ sent'[s] = sent[s] + 1 /\ offer'[s] = Members(RoomOf[s])
      BY <1>2, <2>4 DEF Broadcast, TypeOK, Membership, Offers
    <3>2. RoomOf[s] = RoomOf[c]
      BY <2>2 DEF Tracked, Has, StreamsInOrder
    <3>3. c \in offer'[s]
      BY <2>2, <3>1, <3>2 DEF Tracked, Membership, MembersAreConnected
    <3>4. sent[s] \in Nat /\ \A n \in 1..(sent[s] + 1) : n \in 1..sent[s] \/ n = sent[s] + 1
      BY HubAssumption DEF TypeOK
    <3>5. \A n \in 1..sent[s] : Has(c, <<s, n>>)
      BY <1>1, <2>2, <3>1 DEF Complete
    <3>6. QED
      BY <2>1, <3>1, <3>3, <3>4, <3>5 DEF Complete
  <2>5. QED
    BY <2>3, <2>4
<1>3. ASSUME NEW r \in Sender, NEW d \in Client, Offer(r, d) PROVE Complete(c, s)'
  <2>1. CASE d = c
    BY <1>1, <1>3, <2>1, OfferCompletes
  <2>2. CASE d # c
    <3>1. UNCHANGED <<reader, writer, sent>> /\ (c \in offer'[s] <=> c \in offer[s])
      BY <1>3, <2>2 DEF Offer, TypeOK
    <3>2. \A m : Has(c, m)' <=> Has(c, m)
      BY <1>3, <2>2, OfferStream, SameHas DEF Membership
    <3>3. c \in lossy' <=> c \in lossy
      BY <1>3, <2>2 DEF Offer
    <3>4. QED
      BY <1>1, <3>1, <3>2, <3>3 DEF Tracked, Complete
  <2>3. QED
    BY <2>1, <2>2
<1>4. ASSUME NEW d \in Client, Add(d) PROVE Complete(c, s)'
  <2>1. UNCHANGED <<got, send, sent, offer, lossy>>
        /\ \A b \in Client : b # d => reader'[b] = reader[b] /\ writer'[b] = writer[b]
    BY <1>4 DEF Add, TypeOK
  <2>2. \A m : Has(c, m)' <=> Has(c, m)
    BY <2>1, QuietStreams, SameHas
  <2>3. c # d
    <3>1. reader[d] = "none" /\ send[d] = <<>> /\ got[d] = <<>>
      BY <1>4 DEF Add, Membership, Goroutines
    <3>2. Stream(d) = <<>>
      BY <3>1 DEF Stream
    <3>3. ~Has(d, <<s, 1>>)
      BY <3>2 DEF Has
    <3>4. QED
      BY <2>2, <3>3 DEF Tracked
  <2>4. QED
    BY <1>1, <2>1, <2>2, <2>3 DEF Tracked, Complete
<1>5. ASSUME NEW d \in Client, Drain(d) PROVE Complete(c, s)'
  <2>1. UNCHANGED <<reader, sent, offer, lossy>>
    BY <1>5 DEF Drain
  <2>2. Stream(c)' = Stream(c) /\ writer'[c] = writer[c]
    BY <1>5, DrainStream DEF Tracked
  <2>3. \A m : Has(c, m)' <=> Has(c, m)
    BY <2>2, SameHas
  <2>4. QED
    BY <1>1, <2>1, <2>2, <2>3 DEF Tracked, Complete
<1>6. ASSUME UNCHANGED <<got, send, sent, offer, lossy>>,
             reader'[c] = "reading" => reader[c] = "reading",
             writer'[c] # "returned" => writer[c] # "returned"
      PROVE  Complete(c, s)'
  <2>1. \A m : Has(c, m)' <=> Has(c, m)
    BY <1>6, QuietStreams, SameHas
  <2>2. QED
    BY <1>1, <1>6, <2>1 DEF Tracked, Complete
<1>7. ASSUME NEW r \in Sender, Release(r) PROVE Complete(c, s)'
  BY <1>6, <1>7 DEF Release
<1>8. ASSUME NEW d \in Client,
             Connect(d) \/ Greet(d) \/ Leave(d) \/ ReadError(d) \/ Remove(d)
      PROVE  Complete(c, s)'
  <2>1. UNCHANGED <<got, send, sent, offer, lossy>>
    BY <1>8 DEF Connect, Greet, Leave, ReadError, Remove
  <2>2. /\ reader'[c] = "reading" => reader[c] = "reading"
        /\ writer'[c] # "returned" => writer[c] # "returned"
    BY <1>8 DEF Connect, Greet, Leave, ReadError, Remove, TypeOK
  <2>3. QED
    BY <1>6, <2>1, <2>2
<1>9. CASE UNCHANGED vars
  BY <1>6, <1>9 DEF vars
<1>10. QED
  BY <1>2, <1>3, <1>4, <1>5, <1>7, <1>8, <1>9 DEF Next, Send

LEMMA NextInv == Inv /\ [Next]_vars => Inv'
  BY NextTyped, NextMembership, NextSequenced, NextLosses
     DEF Inv, Membership, Sequenced

------------------------------------------------------------------------------
(* The theorems *)

\* The hub's state keeps its types, and no channel holds more than its capacity.
THEOREM StateTyped == Spec => []TypeOK
<1>1. Inv => TypeOK
  BY DEF Inv
<1>2. QED
  BY InitInv, NextInv, <1>1, PTL DEF Spec

\* A client is in its room exactly while its reader runs, and no room is empty
\* (add and remove, with the deletion of the last member's entry).
THEOREM RoomsFollowReaders == Spec => []MembersAreConnected
<1>1. Inv => MembersAreConnected
  BY DEF Inv
<1>2. QED
  BY InitInv, NextInv, <1>1, PTL DEF Spec

\* Each client sees the messages of a sender in order, once, and of its own room.
THEOREM OrderKept == Spec => []StreamsInOrder
<1>1. Inv => StreamsInOrder
  BY DEF Inv
<1>2. QED
  BY InitInv, NextInv, <1>1, PTL DEF Spec

\* No message is lost to a connected client but by a full channel (the default
\* branch of the select in Broadcast).
THEOREM NoSilentLoss == Spec => []LosesOnlyWhenFull
<1>1. Inv => LosesOnlyWhenFull
  BY DEF Inv
<1>2. QED
  BY InitInv, NextInv, <1>1, PTL DEF Spec
=============================================================================
