---------------------------- MODULE NetworkProofs ----------------------------
(***************************************************************************)
(* The proof that bridge networking keeps NetworkSound, for any number of  *)
(* containers, addresses and faults, by an account of the host's           *)
(* resources.  A container has a resource pending while it is going to     *)
(* undo it, keeps it while it may have left it behind, and owes it in      *)
(* either case.  A step of one container gains a resource, undoes one, or  *)
(* leaves all accounts alone (Gained, Undone, Still); what is on the host  *)
(* follows (the lemmas named Kept, Follow, Counts), and so each step       *)
(* leaves everything accounted for.  SizesCount states the facts on the    *)
(* sizes of sets of containers that the counts need.                       *)
(***************************************************************************)
EXTENDS Bridge, FiniteSetTheorems, TLAPS

\* s takes each step of R once.
Lists(s, R) == /\ s \in Seq(R) /\ Range(s) = R
               /\ \A i, j \in 1..Len(s) : s[i] = s[j] => i = j

\* One more step at the end of such a list.
LEMMA ListOneMore ==
  ASSUME NEW s, NEW R, Lists(s, R), NEW r, r \notin R
  PROVE  Lists(s \o <<r>>, R \cup {r})
<1> DEFINE t == s \o <<r>>
<1>1. s \in Seq(R) /\ Range(s) = R
  BY DEF Lists
<1>2. t \in Seq(R \cup {r}) /\ Len(t) = Len(s) + 1 /\ t[Len(s) + 1] = r
      /\ \A i \in 1..Len(s) : t[i] = s[i] /\ s[i] \in R
  BY <1>1
<1> HIDE DEF t
<1>3. DOMAIN t = 1..(Len(s) + 1) /\ DOMAIN s = 1..Len(s) /\ Len(s) \in Nat
  BY <1>1, <1>2
<1>4. Range(t) = R \cup {r}
  BY <1>1, <1>2, <1>3 DEF Range
<1>5. \A i, j \in 1..Len(t) : t[i] = t[j] => i = j
  BY <1>2, <1>3 DEF Lists
<1> QED BY <1>2, <1>4, <1>5 DEF Lists, t

\* A step appended to a list, if it was recorded.
LEMMA ListRecorded ==
  ASSUME NEW c, NEW s, NEW R, Lists(s, R \cap recorded[c]), NEW r, r \notin R
  PROVE  Lists(s \o UndoOf(c, r), (R \cup {r}) \cap recorded[c])
<1>1. CASE r \in recorded[c]
  <2>1. (R \cup {r}) \cap recorded[c] = (R \cap recorded[c]) \cup {r}
    BY <1>1
  <2> QED BY <1>1, <2>1, ListOneMore DEF UndoOf
<1>2. CASE r \notin recorded[c]
  <2>1. (R \cup {r}) \cap recorded[c] = R \cap recorded[c]
    BY <1>2
  <2>2. s \o UndoOf(c, r) = s
    BY <1>2 DEF UndoOf, Lists
  <2> QED BY <2>1, <2>2, Zenon
<1> QED BY <1>1, <1>2

\* The list of one step, if it was recorded.
LEMMA ListStarts == ASSUME NEW c, NEW r PROVE Lists(UndoOf(c, r), {r} \cap recorded[c])
<1>1. CASE r \in recorded[c]
  <2>1. {r} \cap recorded[c] = {r} /\ UndoOf(c, r) = <<r>>
    BY <1>1 DEF UndoOf
  <2>2. Lists(<<r>>, {r})
    BY DEF Lists, Range
  <2> QED BY <2>1, <2>2
<1>2. CASE r \notin recorded[c]
  <2>1. {r} \cap recorded[c] = {} /\ UndoOf(c, r) = <<>>
    BY <1>2 DEF UndoOf
  <2>2. Lists(<<>>, {})
    BY DEF Lists, Range
  <2> QED BY <2>1, <2>2, Zenon
<1> QED BY <1>1, <1>2

\* Both orders take every recorded step once.
LEMMA OrdersList ==
  ASSUME NEW c, recorded[c] \subseteq Resources
  PROVE  Lists(RollbackOrder(c), recorded[c]) /\ Lists(CleanupOrder(c), recorded[c])
<1>1. Lists(RollbackOrder(c), {"port", "masquerade", "veth", "forward", "ip"} \cap recorded[c])
  <2>1. Lists(UndoOf(c, "port"), {"port"} \cap recorded[c])
    BY ListStarts
  <2>2. Lists(UndoOf(c, "port") \o UndoOf(c, "masquerade"), ({"port"} \cup {"masquerade"}) \cap recorded[c])
    BY <2>1, ListRecorded, Zenon
  <2>3. Lists(UndoOf(c, "port") \o UndoOf(c, "masquerade") \o UndoOf(c, "veth"),
              (({"port"} \cup {"masquerade"}) \cup {"veth"}) \cap recorded[c])
    BY <2>2, ListRecorded, Zenon
  <2>4. Lists(UndoOf(c, "port") \o UndoOf(c, "masquerade") \o UndoOf(c, "veth") \o UndoOf(c, "forward"),
              ((({"port"} \cup {"masquerade"}) \cup {"veth"}) \cup {"forward"}) \cap recorded[c])
    BY <2>3, ListRecorded, Zenon
  <2>5. Lists(RollbackOrder(c),
              (((({"port"} \cup {"masquerade"}) \cup {"veth"}) \cup {"forward"}) \cup {"ip"}) \cap recorded[c])
    BY <2>4, ListRecorded, Zenon DEF RollbackOrder
  <2>6. (((({"port"} \cup {"masquerade"}) \cup {"veth"}) \cup {"forward"}) \cup {"ip"})
          = {"port", "masquerade", "veth", "forward", "ip"}
    OBVIOUS
  <2> QED BY <2>5, <2>6
<1>2. Lists(CleanupOrder(c), {"ip", "port", "masquerade", "veth", "forward"} \cap recorded[c])
  <2>1. Lists(UndoOf(c, "ip"), {"ip"} \cap recorded[c])
    BY ListStarts
  <2>2. Lists(UndoOf(c, "ip") \o UndoOf(c, "port"), ({"ip"} \cup {"port"}) \cap recorded[c])
    BY <2>1, ListRecorded, Zenon
  <2>3. Lists(UndoOf(c, "ip") \o UndoOf(c, "port") \o UndoOf(c, "masquerade"),
              (({"ip"} \cup {"port"}) \cup {"masquerade"}) \cap recorded[c])
    BY <2>2, ListRecorded
  <2>4. Lists(UndoOf(c, "ip") \o UndoOf(c, "port") \o UndoOf(c, "masquerade") \o UndoOf(c, "veth"),
              ((({"ip"} \cup {"port"}) \cup {"masquerade"}) \cup {"veth"}) \cap recorded[c])
    BY <2>3, ListRecorded
  <2>5. Lists(CleanupOrder(c),
              (((({"ip"} \cup {"port"}) \cup {"masquerade"}) \cup {"veth"}) \cup {"forward"}) \cap recorded[c])
    BY <2>4, ListRecorded, Zenon DEF CleanupOrder
  <2>6. (((({"ip"} \cup {"port"}) \cup {"masquerade"}) \cup {"veth"}) \cup {"forward"})
          = {"ip", "port", "masquerade", "veth", "forward"}
    OBVIOUS
  <2> QED BY <2>5, <2>6
<1>3. /\ {"port", "masquerade", "veth", "forward", "ip"} \cap recorded[c] = recorded[c]
      /\ {"ip", "port", "masquerade", "veth", "forward"} \cap recorded[c] = recorded[c]
  BY DEF Resources
<1> QED BY <1>1, <1>2, <1>3

\* Taking the first step of a list off it.
LEMMA ListTaken ==
  ASSUME NEW R, NEW s \in Seq(R), \A i, j \in 1..Len(s) : s[i] = s[j] => i = j, s # <<>>
  PROVE  /\ Head(s) \in Range(s) /\ Head(s) \in R
         /\ Tail(s) \in Seq(R) /\ Range(Tail(s)) = Range(s) \ {Head(s)}
         /\ \A i, j \in 1..Len(Tail(s)) : Tail(s)[i] = Tail(s)[j] => i = j
<1>1. /\ Len(s) \in Nat /\ Len(s) > 0 /\ Head(s) = s[1] /\ DOMAIN s = 1..Len(s)
      /\ s[1] \in R
  OBVIOUS
<1>2. Tail(s) \in Seq(R) /\ Len(Tail(s)) = Len(s) - 1 /\ \A i \in 1..(Len(s) - 1) : Tail(s)[i] = s[i + 1]
  BY <1>1
<1> PICK t : t = Tail(s)
  BY Zenon
<1>3. DOMAIN t = 1..(Len(s) - 1)
  BY <1>1, <1>2
<1>4. Range(t) = Range(s) \ {Head(s)}
  <2>1. ASSUME NEW x \in Range(t) PROVE x \in Range(s) \ {Head(s)}
    <3>1. PICK i \in 1..(Len(s) - 1) : x = s[i + 1]
      BY <1>2, <1>3 DEF Range
    <3>2. i + 1 \in 1..Len(s) /\ 1 \in 1..Len(s) /\ i + 1 # 1
      BY <1>1
    <3> QED BY <1>1, <3>1, <3>2 DEF Range
  <2>2. ASSUME NEW x \in Range(s), x # Head(s) PROVE x \in Range(t)
    <3>1. PICK i \in 1..Len(s) : x = s[i]
      BY <1>1 DEF Range
    <3>2. i # 1 /\ i - 1 \in 1..(Len(s) - 1) /\ (i - 1) + 1 = i
      BY <1>1, <2>2, <3>1
    <3>3. t[i - 1] = x
      BY <1>2, <3>1, <3>2
    <3> QED BY <1>3, <3>2, <3>3, Zenon DEF Range
  <2> QED BY <2>1, <2>2
<1>5. \A i, j \in 1..Len(t) : t[i] = t[j] => i = j
  <2> SUFFICES ASSUME NEW i \in 1..(Len(s) - 1), NEW j \in 1..(Len(s) - 1), s[i + 1] = s[j + 1] PROVE i = j
    BY <1>2
  <2>1. i + 1 \in 1..Len(s) /\ j + 1 \in 1..Len(s)
    BY <1>1
  <2>2. i + 1 = j + 1
    BY <2>1
  <2> QED BY <2>2, <1>1
<1>6. Head(s) \in Range(s)
  BY <1>1 DEF Range
<1> QED BY <1>1, <1>2, <1>4, <1>5, <1>6
---------------------------------------------------------------------------
(* What a step of one container does to who still has to undo what.        *)

\* The other containers' own state is as it was.
SameElsewhere(c) ==
    \A d \in Containers \ {c} :
        /\ npc'[d] = npc[d] /\ recorded'[d] = recorded[d] /\ undo'[d] = undo[d] /\ blame'[d] = blame[d]
        /\ container_ip'[d] = container_ip[d] /\ egress'[d] = egress[d] /\ lock_dir'[d] = lock_dir[d]

\* c has r to undo, or was interrupted, so that its rules may be there.
Owes(c, r) == Pending(c, r) \/ ~Clean(c)

\* A process changes nothing that belongs to another container.
LEMMA StepElsewhere ==
  ASSUME BridgeTypeOK, NEW c \in Containers, NetworkStep(c)
  PROVE  SameElsewhere(c) /\ isolated' = isolated
<1> USE DEF BridgeTypeOK, SameElsewhere, Move, Record, Fault, Blame, hostState
<1>1. CASE ReserveIp(c)
  BY <1>1 DEF ReserveIp
<1>2. CASE CreateLinks(c)
  BY <1>2 DEF CreateLinks, SetupFails, StartUndo
<1>3. CASE ConfigureLinks(c)
  BY <1>3 DEF ConfigureLinks, SetupFails, StartUndo
<1>4. CASE EnableNat(c)
  BY <1>4 DEF EnableNat, SetupFails, StartUndo
<1>5. CASE EnableForwarding(c)
  BY <1>5 DEF EnableForwarding, SetupFails, StartUndo
<1>6. CASE ForwardPort(c)
  BY <1>6 DEF ForwardPort, SetupFails, StartUndo
<1>7. CASE ApplyEgress(c)
  BY <1>7 DEF ApplyEgress, StartUndo
<1>8. CASE EndNetwork(c)
  BY <1>8, ZenonT(60) DEF EndNetwork, StartUndo
<1>9. CASE UndoStep(c)
  BY <1>9 DEF UndoStep, UndoIp, UndoMasquerade, UndoVeth, UndoPort, UndoHalfPort
<1>10. CASE UndoDone(c)
  BY <1>10 DEF UndoDone
<1>11. CASE NetworkCrash(c)
  BY <1>11 DEF NetworkCrash
<1> QED BY <1>1, <1>2, <1>3, <1>4, <1>5, <1>6, <1>7, <1>8, <1>9, <1>10, <1>11 DEF NetworkStep

\* So what the other containers have pending, keep or owe stays.
LEMMA OthersOwe ==
  ASSUME NEW c \in Containers, SameElsewhere(c), NEW d \in Containers \ {c}, NEW r
  PROVE  /\ Pending(d, r)' <=> Pending(d, r)
         /\ Kept(d, r)' <=> Kept(d, r)
         /\ Owes(d, r)' <=> Owes(d, r)
         /\ InSetup(d)' <=> InSetup(d)
         /\ Clean(d)' <=> Clean(d)
BY DEF SameElsewhere, Pending, Kept, Owes, InSetup, At, Clean

\* A step of setup that succeeds records what it did.
LEMMA Gains ==
  ASSUME NEW c \in Containers, StagesInOrder, NEW r, r \notin recorded[c],
         InSetup(c), InSetup(c)', recorded'[c] = recorded[c] \cup {r}, blame'[c] = blame[c]
  PROVE  /\ ~Kept(c, r)
         /\ \A x : Pending(c, x)' <=> Pending(c, x) \/ x = r
         /\ \A x : Kept(c, x)' <=> Kept(c, x) \/ x = r
         /\ Clean(c)'
BY DEF StagesInOrder, Pending, Kept, Clean

\* A step that fails begins to undo, and the process may die: nothing is removed.
LEMMA Holds ==
  ASSUME NEW c \in Containers, recorded'[c] = recorded[c], blame[c] \subseteq blame'[c],
         \A x : Pending(c, x)' <=> Pending(c, x)
  PROVE  \A x : (Kept(c, x) => Kept(c, x)') /\ (Owes(c, x) => Owes(c, x)')
BY DEF Kept, Owes, Clean

\* A setup that begins its undo has as much pending as before.
LEMMA BeginsUndo ==
  ASSUME BridgeTypeOK, NEW c \in Containers, StagesInOrder, InSetup(c), recorded'[c] = recorded[c],
         npc'[c] = "undo", Lists(undo'[c], recorded[c])
  PROVE  \A x : Pending(c, x)' <=> Pending(c, x)
BY DEF Pending, InSetup, At, SetupSteps, Lists

\* An undo takes the first step of its list and keeps the others pending.
LEMMA Undoes ==
  ASSUME NEW c \in Containers, StagesInOrder, At(c, "undo"), undo[c] # <<>>, undo'[c] = Tail(undo[c]),
         npc'[c] = npc[c], recorded'[c] = recorded[c], blame[c] \subseteq blame'[c]
  PROVE  /\ Pending(c, Head(undo[c])) /\ Head(undo[c]) \in recorded[c]
         /\ \A x : Pending(c, x)' <=> Pending(c, x) /\ x # Head(undo[c])
         /\ \A x : Kept(c, x) /\ (x # Head(undo[c]) \/ ~Clean(c)') => Kept(c, x)'
         /\ \A x : Owes(c, x) /\ (x # Head(undo[c]) \/ ~Clean(c)') => Owes(c, x)'
<1>1. undo[c] \in Seq(recorded[c]) /\ \A i, j \in 1..Len(undo[c]) : undo[c][i] = undo[c][j] => i = j
  BY DEF StagesInOrder
<1>2. /\ Head(undo[c]) \in Range(undo[c]) /\ Head(undo[c]) \in recorded[c]
      /\ Range(undo'[c]) = Range(undo[c]) \ {Head(undo[c])}
  BY <1>1, ListTaken
<1>3. ~InSetup(c) /\ ~InSetup(c)' /\ At(c, "undo")'
  BY DEF At, InSetup, SetupSteps
<1>4. \A x : Pending(c, x)' <=> Pending(c, x) /\ x # Head(undo[c])
  BY <1>2, <1>3 DEF Pending
<1>5. Pending(c, Head(undo[c]))
  BY <1>2, <1>3 DEF Pending
<1> QED BY <1>2, <1>4, <1>5 DEF Kept, Owes, Clean

\* A process that dies leaves what it recorded, and is to blame for it.
LEMMA Dies ==
  ASSUME NEW c \in Containers, npc'[c] = "closed", recorded'[c] = recorded[c], blame'[c] # {}
  PROVE  \A x : ~Pending(c, x)' /\ (Kept(c, x) => Kept(c, x)') /\ Owes(c, x)'
BY DEF Pending, InSetup, SetupSteps, At, Kept, Owes, Clean

---------------------------------------------------------------------------
(* The account of a resource after a step.                                 *)

\* d's account of x allows what it allowed.
StillOf(d, x) == /\ Pending(d, x)' => Pending(d, x)
                 /\ Kept(d, x) => Kept(d, x)'
                 /\ Owes(d, x) => Owes(d, x)'
Still(x) == \A d \in Containers : StillOf(d, x)

\* c has set up r, or has taken the step that undoes it.
Gained(c, r) == /\ ~Kept(c, r) /\ Pending(c, r)' /\ \A d \in Containers \ {c} : StillOf(d, r)
                /\ \A x : x # r => Still(x)
Undone(c, r) == /\ Pending(c, r) /\ ~Pending(c, r)' /\ \A d \in Containers \ {c} : StillOf(d, r)
                /\ ~Clean(c)' => Still(r)
                /\ \A x : x # r => Still(x)

\* A step that sets up and records r gains r and nothing else.
LEMMA GainedStep ==
  ASSUME StagesInOrder, NEW c \in Containers, SameElsewhere(c), NEW r, r \notin recorded[c],
         InSetup(c), InSetup(c)', recorded'[c] = recorded[c] \cup {r}, blame'[c] = blame[c]
  PROVE  Gained(c, r)
<1>1. /\ ~Kept(c, r)
      /\ \A x : Pending(c, x)' <=> Pending(c, x) \/ x = r
      /\ \A x : Kept(c, x)' <=> Kept(c, x) \/ x = r
      /\ Clean(c)'
  BY Gains
<1>2. Clean(c)
  BY DEF StagesInOrder
<1>3. \A x : x # r => StillOf(c, x)
  BY <1>1, <1>2 DEF StillOf, Owes
<1>4. \A d \in Containers \ {c} : \A x : StillOf(d, x)
  BY OthersOwe DEF StillOf
<1> QED BY <1>1, <1>3, <1>4 DEF Gained, Still

\* A step that leaves the pending steps alone disturbs no account.
LEMMA StillStep ==
  ASSUME NEW c \in Containers, SameElsewhere(c), recorded'[c] = recorded[c], blame[c] \subseteq blame'[c],
         \A x : Pending(c, x)' <=> Pending(c, x)
  PROVE  \A x : Still(x)
<1>1. \A x : StillOf(c, x)
  BY Holds DEF StillOf
<1>2. \A d \in Containers \ {c} : \A x : StillOf(d, x)
  BY OthersOwe DEF StillOf
<1> QED BY <1>1, <1>2 DEF Still

\* So does a failed setup, whichever list it undoes.
LEMMA FailedStep ==
  ASSUME BridgeTypeOK, StagesInOrder, NEW c \in Containers, SameElsewhere(c), InSetup(c),
         recorded'[c] = recorded[c], blame[c] \subseteq blame'[c], npc'[c] = "undo",
         undo'[c] \in {RollbackOrder(c), CleanupOrder(c)}
  PROVE  \A x : Still(x)
<1>1. recorded[c] \subseteq Resources
  BY DEF BridgeTypeOK
<1>2. Lists(undo'[c], recorded[c])
  BY <1>1, OrdersList
<1> QED BY <1>2, BeginsUndo, StillStep

\* An undo step takes r and disturbs no other account.
LEMMA UndoneStep ==
  ASSUME StagesInOrder, NEW c \in Containers, SameElsewhere(c), At(c, "undo"), undo[c] # <<>>,
         undo'[c] = Tail(undo[c]), npc'[c] = npc[c], recorded'[c] = recorded[c], blame[c] \subseteq blame'[c],
         NEW r, r = Head(undo[c])
  PROVE  Undone(c, r) /\ r \in recorded[c]
<1>1. /\ Pending(c, r) /\ r \in recorded[c]
      /\ \A x : Pending(c, x)' <=> Pending(c, x) /\ x # r
      /\ \A x : Kept(c, x) /\ (x # r \/ ~Clean(c)') => Kept(c, x)'
      /\ \A x : Owes(c, x) /\ (x # r \/ ~Clean(c)') => Owes(c, x)'
  BY Undoes
<1>2. \A x : x # r \/ ~Clean(c)' => StillOf(c, x)
  BY <1>1, Zenon DEF StillOf
<1>3. \A d \in Containers \ {c} : \A x : StillOf(d, x)
  BY OthersOwe, Zenon DEF StillOf
<1>4. Undone(c, r)
  BY <1>1, <1>2, <1>3 DEF Undone, Still
<1> QED BY <1>1, <1>4, Zenon

\* What is used of the size of sets of containers, a finite set.
SizesCount ==
  /\ Cardinality(Containers) \in Nat
  /\ \A S \in SUBSET Containers : /\ Cardinality(S) \in Nat /\ Cardinality(S) <= Cardinality(Containers)
                                  /\ Cardinality(S) = 0 <=> S = {}
  /\ \A S, T \in SUBSET Containers : S \subseteq T => Cardinality(S) <= Cardinality(T)
  /\ \A S, T \in SUBSET Containers, c \in Containers :
        /\ S \subseteq T \cup {c} => Cardinality(S) <= Cardinality(T) + 1
        /\ c \in T /\ S \subseteq T \ {c} => Cardinality(S) + 1 <= Cardinality(T)

\* What the sizes of the accounts are after a step.
LEMMA AccountSizes ==
  ASSUME SizesCount, NEW c \in Containers, NEW r
  PROVE  /\ Cardinality(PendingFor(r)) \in Nat /\ Cardinality(PendingFor(r)') \in Nat
         /\ Cardinality(KeptBy(r)) \in Nat /\ Cardinality(KeptBy(r)') \in Nat
         /\ Cardinality(KeptBy(r)') <= Cardinality(Containers) /\ Cardinality(Containers) \in Nat
         /\ (Cardinality(PendingFor(r)) = 0 <=> PendingFor(r) = {}) /\ (Cardinality(PendingFor(r)') = 0 <=> PendingFor(r)' = {})
         /\ Still(r) => /\ Cardinality(PendingFor(r)') <= Cardinality(PendingFor(r))
                        /\ Cardinality(KeptBy(r)) <= Cardinality(KeptBy(r)')
         /\ Gained(c, r) => /\ Cardinality(PendingFor(r)') <= Cardinality(PendingFor(r)) + 1
                            /\ Cardinality(KeptBy(r)) + 1 <= Cardinality(KeptBy(r)')
         /\ Undone(c, r) => /\ Cardinality(PendingFor(r)') + 1 <= Cardinality(PendingFor(r))
                            /\ Cardinality(KeptBy(r)) <= Cardinality(KeptBy(r)') + 1
<1>1. /\ PendingFor(r)' \subseteq Containers /\ PendingFor(r) \subseteq Containers
      /\ KeptBy(r)' \subseteq Containers /\ KeptBy(r) \subseteq Containers
  BY DEF PendingFor, KeptBy
<1>2. /\ Cardinality(PendingFor(r)) \in Nat /\ Cardinality(PendingFor(r)') \in Nat
      /\ Cardinality(KeptBy(r)) \in Nat /\ Cardinality(KeptBy(r)') \in Nat
      /\ Cardinality(KeptBy(r)') <= Cardinality(Containers) /\ Cardinality(Containers) \in Nat
      /\ (Cardinality(PendingFor(r)) = 0 <=> PendingFor(r) = {}) /\ (Cardinality(PendingFor(r)') = 0 <=> PendingFor(r)' = {})
  BY <1>1 DEF SizesCount
<1>3. ASSUME Still(r)
      PROVE  /\ Cardinality(PendingFor(r)') <= Cardinality(PendingFor(r))
             /\ Cardinality(KeptBy(r)) <= Cardinality(KeptBy(r)')
  <2>1. PendingFor(r)' \subseteq PendingFor(r) /\ KeptBy(r) \subseteq KeptBy(r)'
    BY <1>3 DEF Still, StillOf, PendingFor, KeptBy
  <2> QED BY <1>1, <2>1 DEF SizesCount
<1>4. ASSUME Gained(c, r)
      PROVE  /\ Cardinality(PendingFor(r)') <= Cardinality(PendingFor(r)) + 1
             /\ Cardinality(KeptBy(r)) + 1 <= Cardinality(KeptBy(r)')
  <2>1. PendingFor(r)' \subseteq PendingFor(r) \cup {c}
    BY <1>4, Zenon DEF Gained, StillOf, PendingFor
  <2>2. c \in KeptBy(r)' /\ KeptBy(r) \subseteq KeptBy(r)' \ {c}
    BY <1>4 DEF Gained, StillOf, Kept, KeptBy
  <2> QED BY <1>1, <2>1, <2>2 DEF SizesCount
<1>5. ASSUME Undone(c, r)
      PROVE  /\ Cardinality(PendingFor(r)') + 1 <= Cardinality(PendingFor(r))
             /\ Cardinality(KeptBy(r)) <= Cardinality(KeptBy(r)') + 1
  <2>1. c \in PendingFor(r) /\ PendingFor(r)' \subseteq PendingFor(r) \ {c}
    BY <1>5 DEF Undone, StillOf, PendingFor
  <2>2. KeptBy(r) \subseteq KeptBy(r)' \cup {c}
    BY <1>5 DEF Undone, StillOf, KeptBy
  <2> QED BY <1>1, <2>1, <2>2, Zenon DEF SizesCount
<1> QED BY <1>2, <1>3, <1>4, <1>5

---------------------------------------------------------------------------
(* What a resource's account keeps while nobody touches the resource.      *)

\* The account of addresses when no reservation changes.
LEMMA AddressesKept ==
  ASSUME AddressesOwned, Still("ip"), UNCHANGED <<lock_dir, container_ip>>,
         \A d \in Containers : InSetup(d)' /\ ~At(d, "reserve")' => InSetup(d) /\ ~At(d, "reserve")
  PROVE  AddressesOwned'
<1> SUFFICES ASSUME NEW d \in Containers
             PROVE  /\ InSetup(d)' /\ ~At(d, "reserve")' => lock_dir[d] = container_ip[d] /\ container_ip[d] # "none"
                    /\ lock_dir[d] # "none" => Kept(d, "ip")'
                    /\ \A e \in Containers : d # e /\ lock_dir[d] # "none" => lock_dir[d] # lock_dir[e]
  BY DEF AddressesOwned
<1> QED BY DEF AddressesOwned, Still, StillOf

\* The account of port rules when none changes.
LEMMA RulesKept ==
  ASSUME RulesOwned, Still("port"), UNCHANGED <<dnat, container_ip>>
  PROVE  RulesOwned'
BY DEF RulesOwned, Still, StillOf, Owes

\* The account of links when none changes.
LEMMA VethsKept ==
  ASSUME BridgeTypeOK, \A d \in veths : Kept(d, "veth"), Still("veth"), UNCHANGED veths
  PROVE  (\A d \in veths : Kept(d, "veth"))'
BY DEF BridgeTypeOK, Still, StillOf

\* The count of ip_forward users when it does not change.
LEMMA ReferencesKept ==
  ASSUME SizesCount, BridgeTypeOK, ReferencesCounted, NEW c \in Containers, Still("forward"), UNCHANGED <<refs, ip_forward>>,
         \A d \in Containers : blame[d] \subseteq blame'[d]
  PROVE  ReferencesCounted'
<1>1. PendingFor("forward")' \subseteq PendingFor("forward")
  BY DEF Still, StillOf, PendingFor
<1>2. refs.kind = "none" => PendingFor("forward")' = {}
  BY <1>1, Zenon DEF ReferencesCounted
<1>3. refs.kind = "ok" => /\ Cardinality(PendingFor("forward")') <= refs.refcount
                          /\ refs.refcount <= Cardinality(KeptBy("forward")')
  <2>1. refs.refcount \in Nat
    BY DEF BridgeTypeOK
  <2> QED BY <2>1, AccountSizes DEF ReferencesCounted
<1>4. \/ \E d \in Containers : "cut" \in blame'[d]
      \/ PendingFor("forward")' = {} /\ (refs.kind = "ok" => refs.refcount = 0)
      \/ ip_forward = "1"
  BY <1>1 DEF ReferencesCounted
<1>5. (\A d \in Containers : Clean(d))' => \A d \in Containers : Clean(d)
  BY DEF Clean
<1> QED BY <1>2, <1>3, <1>4, <1>5 DEF ReferencesCounted

---------------------------------------------------------------------------
(* The reference count.                                                    *)

\* The number of references a new one comes on top of.
Before == IF refs.kind = "none" THEN 0 ELSE refs.refcount

\* acquire_ip_forward_ref_in_dir counts one more, or leaves what was written when
\* it stopped.
LEMMA AcquireCases ==
  ASSUME BridgeTypeOK, NEW o \in AcquireOutcomes
  PROVE  \/ /\ o.ok /\ refs.kind # "torn"
            /\ o.file = Refs(Before + 1, IF refs.kind = "none" THEN ip_forward ELSE refs.original)
            /\ o.value = IF Before = 0 THEN "1" ELSE ip_forward
         \/ /\ ~o.ok
            /\ \/ o.file = refs \/ o.file = TornRefs
               \/ refs.kind = "none" /\ o.file = Refs(0, ip_forward)
            /\ o.value \in {ip_forward, "1"}
<1> DEFINE found == IF refs.kind = "none" THEN Refs(0, ip_forward) ELSE refs
           value == IF found.refcount = 0 THEN "1" ELSE ip_forward
<1>1. found.refcount = Before /\ found.original = (IF refs.kind = "none" THEN ip_forward ELSE refs.original)
  BY DEF Before, Refs
<1>2. value = (IF Before = 0 THEN "1" ELSE ip_forward) /\ value \in {ip_forward, "1"}
  BY <1>1
<1>3. found = refs \/ (refs.kind = "none" /\ found = Refs(0, ip_forward))
  OBVIOUS
<1>4. \/ refs.kind # "torn" /\ o = [file |-> Refs(found.refcount + 1, found.original), value |-> value, ok |-> TRUE]
      \/ o = [file |-> refs, value |-> ip_forward, ok |-> FALSE]
      \/ o = [file |-> found, value |-> ip_forward, ok |-> FALSE]
      \/ o = [file |-> found, value |-> value, ok |-> FALSE]
      \/ o = [file |-> TornRefs, value |-> value, ok |-> FALSE]
      \/ o = [file |-> TornRefs, value |-> ip_forward, ok |-> FALSE]
  BY Zenon DEF AcquireOutcomes
<1> HIDE DEF found, value
<1> QED BY <1>1, <1>2, <1>3, <1>4

\* What ip_forward_release leaves in the file and in the kernel.
LEMMA ReleaseCases ==
  ASSUME BridgeTypeOK, NEW o \in ReleaseOutcomes, refs.kind # "none", refs.kind = "ok" => refs.refcount > 0
  PROVE  \/ /\ o.ok /\ refs.kind = "ok" /\ refs.refcount = 1
            /\ o.file = NoRefs /\ o.value = refs.original
         \/ /\ o.ok /\ refs.kind = "ok" /\ refs.refcount > 1
            /\ o.file = Refs(refs.refcount - 1, refs.original) /\ o.value = ip_forward
         \/ ~o.ok /\ ~o.cut /\ o.file \in {refs, TornRefs} /\ o.value = ip_forward
         \/ ~o.ok /\ o.cut /\ o.file = refs /\ o.value = refs.original
<1>0. refs.kind \in {"none", "torn", "ok"} /\ refs.refcount \in Nat
  BY DEF BridgeTypeOK
<1>1. CASE refs.kind = "torn"
  <2>1. o = [file |-> refs, value |-> ip_forward, ok |-> FALSE, cut |-> FALSE]
    BY <1>1, Zenon DEF ReleaseOutcomes
  <2> QED BY <2>1
<1>2. CASE refs.kind = "ok"
  <2>0. refs.refcount # 0 /\ (refs.refcount # 1 => refs.refcount > 1)
    BY <1>0, <1>2
  <2>1. CASE refs.refcount = 1
    <3>1. \/ o = [file |-> NoRefs, value |-> refs.original, ok |-> TRUE, cut |-> FALSE]
          \/ o = [file |-> refs, value |-> ip_forward, ok |-> FALSE, cut |-> FALSE]
          \/ o = [file |-> refs, value |-> refs.original, ok |-> FALSE, cut |-> TRUE]
      BY <1>2, <2>0, <2>1, Zenon DEF ReleaseOutcomes
    <3> QED BY <1>2, <2>1, <3>1
  <2>2. CASE refs.refcount # 1
    <3>1. \/ o = [file |-> Refs(refs.refcount - 1, refs.original), value |-> ip_forward, ok |-> TRUE, cut |-> FALSE]
          \/ o = [file |-> refs, value |-> ip_forward, ok |-> FALSE, cut |-> FALSE]
          \/ o = [file |-> TornRefs, value |-> ip_forward, ok |-> FALSE, cut |-> FALSE]
      BY <1>2, <2>0, <2>2, Zenon DEF ReleaseOutcomes
    <3> QED BY <1>2, <2>0, <2>2, <3>1
  <2> QED BY <2>1, <2>2
<1> QED BY <1>0, <1>1, <1>2

\* A new reference is counted.
LEMMA AcquireCounts ==
  ASSUME SizesCount, BridgeTypeOK, ReferencesCounted, NEW c \in Containers, Gained(c, "forward"), UNCHANGED blame,
         refs.kind # "torn",
         refs' = Refs(Before + 1, IF refs.kind = "none" THEN ip_forward ELSE refs.original),
         ip_forward' = IF Before = 0 THEN "1" ELSE ip_forward
  PROVE  /\ ReferencesCounted'
         /\ refs' \in [kind : {"none", "torn", "ok"}, refcount : 0..Cardinality(Containers), original : {"0", "1"}]
<1> DEFINE n == Before
           f == IF refs.kind = "none" THEN ip_forward ELSE refs.original
<1>1. /\ refs.kind \in {"none", "torn", "ok"} /\ refs.refcount \in Nat /\ ip_forward \in {"0", "1"}
      /\ n \in Nat /\ f \in {"0", "1"}
  BY DEF BridgeTypeOK, Before
<1>2. refs'.kind = "ok" /\ refs'.refcount = n + 1 /\ refs'.original = f
  BY DEF Refs
<1>3. Cardinality(PendingFor("forward")) <= n /\ n <= Cardinality(KeptBy("forward"))
  <2>1. CASE refs.kind = "none"
    <3>1. Cardinality(PendingFor("forward")) = 0
      BY <2>1, AccountSizes DEF ReferencesCounted
    <3> QED BY <2>1, <3>1, AccountSizes DEF Before
  <2>2. CASE refs.kind = "ok"
    BY <2>2 DEF ReferencesCounted, Before
  <2> QED BY <1>1, <2>1, <2>2, Zenon
<1>4. /\ Cardinality(PendingFor("forward")') <= n + 1 /\ n + 1 <= Cardinality(KeptBy("forward")')
      /\ n + 1 <= Cardinality(Containers)
  BY <1>1, <1>3, AccountSizes
<1>5. \/ \E d \in Containers : "cut" \in blame'[d]
      \/ ip_forward' = "1"
  BY <1>1, Zenon DEF ReferencesCounted, Before
<1>6. (\A d \in Containers : Clean(d))' => f = HostValue
  BY Zenon DEF ReferencesCounted, Clean
<1> HIDE DEF n, f
<1>7. ReferencesCounted'
  BY <1>1, <1>2, <1>4, <1>5, <1>6 DEF ReferencesCounted
<1>8. refs' = Refs(n + 1, f) /\ n + 1 \in 0..Cardinality(Containers)
  BY <1>1, <1>4, AccountSizes DEF n, f
<1> QED BY <1>1, <1>7, <1>8 DEF Refs

\* An acquisition that stops half-way leaves a count that is still sound.
LEMMA AcquireFails ==
  ASSUME SizesCount, BridgeTypeOK, ReferencesCounted, NEW c \in Containers, Still("forward"), ~Clean(c)',
         \A d \in Containers : blame[d] \subseteq blame'[d],
         \/ refs' = refs \/ refs' = TornRefs
         \/ refs.kind = "none" /\ refs' = Refs(0, ip_forward),
         ip_forward' \in {ip_forward, "1"}
  PROVE  /\ ReferencesCounted'
         /\ refs' \in [kind : {"none", "torn", "ok"}, refcount : 0..Cardinality(Containers), original : {"0", "1"}]
<1>1. /\ refs \in [kind : {"none", "torn", "ok"}, refcount : 0..Cardinality(Containers), original : {"0", "1"}]
      /\ ip_forward \in {"0", "1"} /\ HostValue \in {"0", "1"} /\ 0 \in 0..Cardinality(Containers)
  BY BridgeAssumption, AccountSizes DEF BridgeTypeOK
<1>2. /\ PendingFor("forward") = {} => PendingFor("forward")' = {} /\ Cardinality(PendingFor("forward")') = 0
      /\ Cardinality(PendingFor("forward")') <= Cardinality(PendingFor("forward"))
      /\ Cardinality(KeptBy("forward")) <= Cardinality(KeptBy("forward")')
      /\ Cardinality(PendingFor("forward")) \in Nat /\ Cardinality(PendingFor("forward")') \in Nat
      /\ Cardinality(KeptBy("forward")) \in Nat /\ Cardinality(KeptBy("forward")') \in Nat
  <2>1. PendingFor("forward") = {} => PendingFor("forward")' = {}
    BY Zenon DEF Still, StillOf, PendingFor
  <2> QED BY <2>1, AccountSizes, Zenon
<1>3. /\ "cut" \notin UNION {blame'[d] : d \in Containers} => "cut" \notin UNION {blame[d] : d \in Containers}
      /\ ~(\A d \in Containers : Clean(d))'
  BY Zenon
<1>4. CASE refs' = refs
  BY <1>1, <1>2, <1>3, <1>4 DEF ReferencesCounted
<1>5. CASE refs' = TornRefs
  <2>1. refs'.kind = "torn" /\ refs'.refcount = 0 /\ refs'.original = HostValue
    BY <1>5, Zenon DEF TornRefs, NoRefs
  <2>2. ReferencesCounted'
    BY <1>1, <1>2, <1>3, <2>1, Zenon DEF ReferencesCounted
  <2> QED BY <1>1, <1>5, <2>2 DEF TornRefs, NoRefs
<1>6. CASE refs.kind = "none" /\ refs' = Refs(0, ip_forward)
  <2>1. refs'.kind = "ok" /\ refs'.refcount = 0 /\ refs'.original = ip_forward
    BY <1>6, Zenon DEF Refs
  <2>2. ReferencesCounted'
    BY <1>1, <1>2, <1>3, <1>6, <2>1 DEF ReferencesCounted
  <2> QED BY <1>1, <1>6, <2>2, Zenon DEF Refs
<1> QED BY <1>4, <1>5, <1>6, ZenonT(60)

\* A release takes one reference back, and restores the sysctl with the last one.
LEMMA ReleaseCounts ==
  ASSUME SizesCount, BridgeTypeOK, ReferencesCounted, NEW c \in Containers, Undone(c, "forward"), NEW o \in ReleaseOutcomes,
         refs' = o.file, ip_forward' = o.value,
         o.ok => UNCHANGED blame,
         ~o.ok => blame' = [blame EXCEPT ![c] = @ \cup {IF o.cut THEN "cut" ELSE "undo"}]
  PROVE  /\ ReferencesCounted' /\ ip_forward' \in {"0", "1"}
         /\ refs' \in [kind : {"none", "torn", "ok"}, refcount : 0..Cardinality(Containers), original : {"0", "1"}]
<1>1. /\ refs \in [kind : {"none", "torn", "ok"}, refcount : 0..Cardinality(Containers), original : {"0", "1"}]
      /\ ip_forward \in {"0", "1"} /\ HostValue \in {"0", "1"} /\ 0 \in 0..Cardinality(Containers)
      /\ blame \in [Containers -> SUBSET {"crash", "cut", "half", "undo"}]
  BY BridgeAssumption, AccountSizes DEF BridgeTypeOK
<1>2. c \in PendingFor("forward") /\ refs.kind # "none"
  BY Zenon DEF Undone, PendingFor, ReferencesCounted
<1>3. /\ Cardinality(PendingFor("forward")') + 1 <= Cardinality(PendingFor("forward"))
      /\ Cardinality(KeptBy("forward")) <= Cardinality(KeptBy("forward")') + 1
      /\ Cardinality(PendingFor("forward")) \in Nat /\ Cardinality(PendingFor("forward")') \in Nat
      /\ Cardinality(KeptBy("forward")) \in Nat /\ Cardinality(KeptBy("forward")') \in Nat
      /\ Cardinality(KeptBy("forward")') <= Cardinality(Containers) /\ Cardinality(Containers) \in Nat
  BY AccountSizes, Zenon
<1>4. refs.kind = "ok" => refs.refcount > 0 /\ refs.refcount \in Nat
  BY <1>1, <1>3 DEF ReferencesCounted
<1>5. (\E d \in Containers : "cut" \in blame[d]) \/ ip_forward = "1"
  BY <1>2, Zenon DEF ReferencesCounted
<1>6. CASE o.ok /\ refs.kind = "ok" /\ refs.refcount = 1 /\ o.file = NoRefs /\ o.value = refs.original
  <2>1. Cardinality(PendingFor("forward")') = 0
    BY <1>3, <1>6 DEF ReferencesCounted
  <2>2. PendingFor("forward")' = {}
    BY <2>1, AccountSizes, Zenon
  <2>3. refs'.kind = "none" /\ ip_forward' = refs.original
    BY <1>6 DEF NoRefs
  <2>4. (\A d \in Containers : Clean(d))' => ip_forward' = HostValue
    BY <1>6, <2>3, Zenon DEF ReferencesCounted, Clean
  <2>5. ReferencesCounted'
    BY <2>2, <2>3, <2>4, Zenon DEF ReferencesCounted
  <2> QED BY <1>1, <1>6, <2>5 DEF NoRefs
<1>7. CASE /\ o.ok /\ refs.kind = "ok" /\ refs.refcount > 1
           /\ o.file = Refs(refs.refcount - 1, refs.original) /\ o.value = ip_forward
  <2>1. refs'.kind = "ok" /\ refs'.refcount = refs.refcount - 1 /\ refs'.original = refs.original
    BY <1>7 DEF Refs
  <2>2. refs'.refcount > 0 /\ refs'.refcount \in 0..Cardinality(Containers)
    BY <1>1, <1>3, <1>7, <2>1
  <2>3. /\ Cardinality(PendingFor("forward")') <= refs'.refcount
        /\ refs'.refcount <= Cardinality(KeptBy("forward")')
    BY <1>1, <1>3, <1>7, <2>1 DEF ReferencesCounted
  <2>4. (\A d \in Containers : Clean(d))' => refs'.original = HostValue
    BY <1>7, <2>1 DEF ReferencesCounted, Clean
  <2>5. (\E d \in Containers : "cut" \in blame'[d]) \/ ip_forward' = "1"
    BY <1>5, <1>7, Zenon
  <2>6. ReferencesCounted'
    BY <2>1, <2>2, <2>3, <2>4, <2>5, ZenonT(60) DEF ReferencesCounted
  <2> QED BY <1>1, <1>7, <2>1, <2>2, <2>6, Zenon DEF Refs
<1>8. CASE ~o.ok
  <2>1. /\ ~Clean(c)' /\ \A d \in Containers : blame[d] \subseteq blame'[d]
        /\ o.cut => "cut" \in blame'[c]
    <3>1. PICK b : b = (IF o.cut THEN "cut" ELSE "undo")
      OBVIOUS
    <3>2. o.cut => b = "cut"
      BY <3>1, Zenon
    <3>3. blame' = [blame EXCEPT ![c] = @ \cup {b}]
      BY <1>8, <3>1, Zenon
    <3>4. ~Clean(c)' /\ (\A d \in Containers : blame[d] \subseteq blame'[d]) /\ b \in blame'[c]
      BY <1>1, <3>3 DEF Clean
    <3> QED BY <3>2, <3>4, Zenon
  <2>2. Still("forward") /\ ~(\A d \in Containers : Clean(d))'
    BY <2>1, Zenon DEF Undone
  <2>3. /\ Cardinality(KeptBy("forward")) <= Cardinality(KeptBy("forward")')
    BY <2>2, AccountSizes, ZenonT(60)
  <2>4. CASE ~o.cut /\ o.file \in {refs, TornRefs} /\ o.value = ip_forward
    <3>1. ip_forward' = ip_forward /\ (refs' = refs \/ refs' = TornRefs)
      BY <2>4
    <3> QED BY <1>1, <2>1, <2>2, <3>1, AcquireFails
  <2>5. CASE o.cut /\ o.file = refs /\ o.value = refs.original
    <3>1. refs' = refs /\ ip_forward' = refs.original
      BY <2>5
    <3>2. /\ Cardinality(PendingFor("forward")') <= Cardinality(PendingFor("forward"))
      BY <1>3
    <3>3. ReferencesCounted'
      BY <1>1, <1>2, <1>3, <2>1, <2>2, <2>3, <2>5, <3>1, <3>2 DEF ReferencesCounted
    <3> QED BY <1>1, <3>1, <3>3
  <2> QED BY <1>2, <1>4, <1>8, <2>4, <2>5, ReleaseCases
<1> QED BY <1>2, <1>4, <1>6, <1>7, <1>8, ReleaseCases, ZenonT(60)

---------------------------------------------------------------------------
(* MASQUERADE rules, DNAT rules and addresses.                             *)

\* The masquerade rules follow the containers that set one up or take it away.
LEMMA MasqueradesFollow ==
  ASSUME SizesCount, BridgeTypeOK, MasqueradesOwned, NEW c \in Containers,
         \/ Still("masquerade") /\ UNCHANGED masquerade
         \/ Gained(c, "masquerade") /\ masquerade' = masquerade + 1
         \/ Undone(c, "masquerade") /\ masquerade' = masquerade - 1
  PROVE  MasqueradesOwned' /\ masquerade' \in 0..Cardinality(Containers)
<1>1. masquerade \in Nat
  BY DEF BridgeTypeOK
<1>2. /\ Cardinality(PendingFor("masquerade")) \in Nat /\ Cardinality(PendingFor("masquerade")') \in Nat
      /\ Cardinality(KeptBy("masquerade")) \in Nat /\ Cardinality(KeptBy("masquerade")') \in Nat
      /\ Cardinality(KeptBy("masquerade")') <= Cardinality(Containers) /\ Cardinality(Containers) \in Nat
  BY AccountSizes
<1>3. CASE Still("masquerade") /\ UNCHANGED masquerade
  BY <1>1, <1>2, <1>3, AccountSizes DEF MasqueradesOwned
<1>4. CASE Gained(c, "masquerade") /\ masquerade' = masquerade + 1
  BY <1>1, <1>2, <1>4, AccountSizes DEF MasqueradesOwned
<1>5. CASE Undone(c, "masquerade") /\ masquerade' = masquerade - 1
  BY <1>1, <1>2, <1>5, AccountSizes DEF MasqueradesOwned
<1> QED BY <1>3, <1>4, <1>5

\* How often a rule is there after adding or removing some.
LEMMA RulesChanged ==
  ASSUME BridgeTypeOK, NEW rules
  PROVE  /\ Added(rules) \in [DnatRules -> Nat] /\ Removed(rules) \in [DnatRules -> Nat]
         /\ \A rule \in DnatRules :
               /\ dnat[rule] \in Nat
               /\ rule \in rules => /\ Added(rules)[rule] = dnat[rule] + 1
                                    /\ Removed(rules)[rule] = (IF dnat[rule] > 0 THEN dnat[rule] - 1 ELSE 0)
               /\ rule \notin rules => Added(rules)[rule] = dnat[rule] /\ Removed(rules)[rule] = dnat[rule]
<1>1. dnat \in [DnatRules -> Nat]
  BY DEF BridgeTypeOK
<1>2. \A rule \in DnatRules : dnat[rule] \in Nat
  BY <1>1
<1>3. Added(rules) \in [DnatRules -> Nat] /\ Removed(rules) \in [DnatRules -> Nat]
  BY <1>2 DEF Added, Removed
<1> QED BY <1>2, <1>3 DEF Added, Removed

\* The DNAT rules when only c's own change.
LEMMA RulesFollow ==
  ASSUME RulesOwned, NEW c \in Containers, UNCHANGED container_ip,
         \A chain \in Chains, a \in Addresses, d \in Containers \ {c} : dnat'[<<chain, a, d>>] = dnat[<<chain, a, d>>],
         \A d \in Containers \ {c} : StillOf(d, "port"),
         \A chain \in Chains, a \in Addresses : dnat'[<<chain, a, c>>] > 0 =>
             dnat'[<<chain, a, c>>] = 1 /\ a = container_ip[c] /\ Owes(c, "port")'
  PROVE  RulesOwned'
<1> SUFFICES ASSUME NEW chain \in Chains, NEW a \in Addresses, NEW d \in Containers, dnat'[<<chain, a, d>>] > 0
             PROVE  dnat'[<<chain, a, d>>] = 1 /\ a = container_ip[d] /\ Owes(d, "port")'
  BY DEF RulesOwned, Owes
<1>1. CASE d = c
  BY <1>1, ZenonT(60)
<1>2. CASE d # c
  BY <1>2 DEF RulesOwned, StillOf, Owes
<1> QED BY <1>1, <1>2, Zenon
---------------------------------------------------------------------------
(* The steps: every resource is accounted for after each of them.          *)

Accounted ==
  /\ ResourcesOwned /\ ReferencesCounted
  /\ masquerade \in 0..Cardinality(Containers)
  /\ dnat \in [DnatRules -> Nat]
  /\ ip_forward \in {"0", "1"}
  /\ refs \in [kind : {"none", "torn", "ok"}, refcount : 0..Cardinality(Containers), original : {"0", "1"}]

\* The processes of the others go on as they were, and nothing is forgiven.
LEMMA BlameGrows ==
  ASSUME NEW c \in Containers, SameElsewhere(c), blame[c] \subseteq blame'[c]
  PROVE  \A d \in Containers : blame[d] \subseteq blame'[d]
BY DEF SameElsewhere

\* The account of addresses when a step of one container changes no reservation.
LEMMA AddressesStay ==
  ASSUME AddressesOwned, NEW c \in Containers, SameElsewhere(c), Still("ip"), UNCHANGED <<lock_dir, container_ip>>,
         InSetup(c)' => InSetup(c) /\ ~At(c, "reserve")
  PROVE  AddressesOwned'
<1>1. \A d \in Containers : InSetup(d)' /\ ~At(d, "reserve")' => InSetup(d) /\ ~At(d, "reserve")
  BY Zenon DEF SameElsewhere, InSetup, At
<1> QED BY <1>1, AddressesKept

\* Steps that leave the host alone.
LEMMA QuietStep ==
  ASSUME SizesCount, BridgeTypeOK, ResourcesOwned, ReferencesCounted, NEW c \in Containers, SameElsewhere(c),
         \A x : Still(x), UNCHANGED <<lock_dir, masquerade, dnat, veths, ip_forward, refs, container_ip>>,
         blame[c] \subseteq blame'[c], InSetup(c)' => InSetup(c) /\ ~At(c, "reserve")
  PROVE  Accounted'
<1>1. AddressesOwned'
  BY AddressesStay DEF ResourcesOwned
<1>2. MasqueradesOwned' /\ RulesOwned' /\ (\A d \in veths : Kept(d, "veth"))'
  <2>1. MasqueradesOwned'
    BY MasqueradesFollow, Zenon DEF ResourcesOwned
  <2>2. RulesOwned'
    BY RulesKept, Zenon DEF ResourcesOwned
  <2>3. (\A d \in veths : Kept(d, "veth"))'
    BY VethsKept, Zenon DEF ResourcesOwned
  <2> QED BY <2>1, <2>2, <2>3, Zenon
<1>3. ReferencesCounted'
  BY BlameGrows, ReferencesKept
<1>4. ResourcesOwned'
  BY <1>1, <1>2 DEF ResourcesOwned
<1> QED BY <1>3, <1>4, Zenon DEF Accounted, BridgeTypeOK

\* reserve_ip: the address is new, and its file names the container.
LEMMA ReserveAccounted ==
  ASSUME SizesCount, BridgeTypeOK, StagesInOrder, ResourcesOwned, ReferencesCounted, NEW c \in Containers, SameElsewhere(c),
         ReserveIp(c)
  PROVE  Accounted'
<1>1. InSetup(c) /\ recorded[c] = {} /\ Clean(c)
  BY DEF ReserveIp, At, StagesInOrder, InSetup, SetupSteps, DoneAt
<1>2. UNCHANGED <<masquerade, dnat, veths, ip_forward, refs, blame>>
  BY Zenon DEF ReserveIp
<1>3. ASSUME NEW a \in Addresses \ Reserved, lock_dir' = [lock_dir EXCEPT ![c] = a],
             container_ip' = [container_ip EXCEPT ![c] = a], Record(c, "ip"), Move(c, "link")
      PROVE  Accounted'
  <2>1. npc'[c] = "link" /\ recorded'[c] = recorded[c] \cup {"ip"} /\ InSetup(c)' /\ blame'[c] = blame[c]
    BY <1>2, <1>3 DEF BridgeTypeOK, Move, Record, InSetup, SetupSteps
  <2>2. Gained(c, "ip")
    BY <1>1, <2>1, GainedStep
  <2>3. Still("masquerade") /\ Still("port") /\ Still("veth") /\ Still("forward")
    BY <2>2, Zenon DEF Gained
  <2>4. AddressesOwned'
    <3>0. a # "none" /\ \A d \in Containers : lock_dir[d] # a
      BY BridgeAssumption DEF Reserved
    <3>1. /\ lock_dir'[c] = a /\ container_ip'[c] = a
          /\ \A d \in Containers \ {c} : lock_dir'[d] = lock_dir[d] /\ container_ip'[d] = container_ip[d]
      BY <1>3, ZenonT(60) DEF BridgeTypeOK
    <3>2. Kept(c, "ip")' /\ \A d \in Containers \ {c} : Kept(d, "ip") => Kept(d, "ip")'
      BY <2>2 DEF Gained, StillOf, Kept
    <3>3. \A d \in Containers \ {c} : (InSetup(d)' <=> InSetup(d)) /\ (At(d, "reserve")' <=> At(d, "reserve"))
      BY Zenon DEF SameElsewhere, InSetup, At
    <3> SUFFICES ASSUME NEW d \in Containers
                 PROVE  /\ InSetup(d)' /\ ~At(d, "reserve")' => lock_dir'[d] = container_ip'[d] /\ container_ip'[d] # "none"
                        /\ lock_dir'[d] # "none" => Kept(d, "ip")'
                        /\ \A e \in Containers : d # e /\ lock_dir'[d] # "none" => lock_dir'[d] # lock_dir'[e]
      BY ZenonT(60) DEF AddressesOwned
    <3> QED BY <3>0, <3>1, <3>2, <3>3, ZenonT(60) DEF ResourcesOwned, AddressesOwned
  <2>5. RulesOwned'
    <3>1. \A d \in Containers : Owes(d, "port") => Owes(d, "port")' /\ d # c
      BY <1>1, <2>3, Zenon DEF Still, StillOf, Owes, Pending
    <3>2. \A d \in Containers \ {c} : container_ip'[d] = container_ip[d]
      BY DEF SameElsewhere
    <3> QED BY <1>2, <3>1, <3>2, SMTT(30) DEF ResourcesOwned, RulesOwned, Owes
  <2>6. MasqueradesOwned' /\ (\A d \in veths : Kept(d, "veth"))'
    <3>1. MasqueradesOwned'
      BY <1>2, <2>3, MasqueradesFollow, Zenon DEF ResourcesOwned
    <3>2. (\A d \in veths : Kept(d, "veth"))'
      BY <1>2, <2>3, VethsKept, Zenon DEF ResourcesOwned
    <3> QED BY <3>1, <3>2, Zenon
  <2>7. ReferencesCounted'
    BY <1>2, <2>3, ReferencesKept, SMTT(30)
  <2> QED BY <1>2, <2>4, <2>5, <2>6, <2>7, ZenonT(60) DEF Accounted, ResourcesOwned, BridgeTypeOK
<1>4. ASSUME Move(c, IF isolated[c] THEN "refused" ELSE "bare"), UNCHANGED <<lock_dir, container_ip, recorded>>
      PROVE  Accounted'
  <2>1. npc'[c] \in {"refused", "bare"}
    BY <1>4, ZenonT(60) DEF BridgeTypeOK, Move
  <2>2. ~InSetup(c)' /\ \A x : Pending(c, x)' <=> Pending(c, x)
    BY <1>1, <1>4, <2>1, Zenon DEF InSetup, SetupSteps, Pending, At
  <2>3. \A x : Still(x)
    BY <1>2, <1>4, <2>2, StillStep
  <2> QED BY <1>2, <1>4, <2>2, <2>3, QuietStep, Zenon
<1> QED BY <1>3, <1>4 DEF ReserveIp

\* The veth pair is created, or the setup fails and is rolled back.
LEMMA LinksAccounted ==
  ASSUME SizesCount, BridgeTypeOK, StagesInOrder, ResourcesOwned, ReferencesCounted, NEW c \in Containers, SameElsewhere(c),
         CreateLinks(c)
  PROVE  Accounted'
<1>1. InSetup(c) /\ "veth" \notin recorded[c] /\ ~At(c, "reserve")
  BY DEF CreateLinks, At, StagesInOrder, InSetup, SetupSteps, DoneAt
<1>2. UNCHANGED <<lock_dir, masquerade, dnat, ip_forward, refs, container_ip, blame>>
  BY Zenon DEF CreateLinks
<1>3. ASSUME veths' = veths \cup {c}, Record(c, "veth"), Move(c, "configure")
      PROVE  Accounted'
  <2>1. npc'[c] = "configure" /\ recorded'[c] = recorded[c] \cup {"veth"} /\ InSetup(c)' /\ blame'[c] = blame[c]
    BY <1>2, <1>3, ZenonT(60) DEF BridgeTypeOK, Move, Record, InSetup, SetupSteps
  <2>2. Gained(c, "veth")
    BY <1>1, <2>1, GainedStep
  <2>3. Still("masquerade") /\ Still("port") /\ Still("ip") /\ Still("forward")
    BY <2>2, SMTT(30) DEF Gained
  <2>4. (\A d \in veths : Kept(d, "veth"))'
    BY <1>3, <2>2, ZenonT(60) DEF Gained, StillOf, Kept, ResourcesOwned, BridgeTypeOK
  <2>5. AddressesOwned'
    BY <1>1, <1>2, <2>3, AddressesStay DEF ResourcesOwned
  <2>6. MasqueradesOwned' /\ RulesOwned' /\ ReferencesCounted'
    <3>1. MasqueradesOwned'
      BY <1>2, <2>3, MasqueradesFollow, Zenon DEF ResourcesOwned
    <3>2. RulesOwned'
      BY <1>2, <2>3, RulesKept, Zenon DEF ResourcesOwned
    <3>3. ReferencesCounted'
      BY <1>2, <2>3, ReferencesKept, Zenon DEF ResourcesOwned
    <3> QED BY <3>1, <3>2, <3>3, Zenon
  <2> QED BY <1>2, <2>4, <2>5, <2>6, Zenon DEF Accounted, ResourcesOwned, BridgeTypeOK
<1>4. ASSUME SetupFails(c), UNCHANGED <<veths, recorded>>
      PROVE  Accounted'
  <2>1. npc'[c] = "undo" /\ undo'[c] = RollbackOrder(c) /\ ~InSetup(c)'
    BY <1>4, ZenonT(60) DEF BridgeTypeOK, SetupFails, StartUndo, Move, InSetup, SetupSteps
  <2>2. \A x : Still(x)
    BY <1>1, <1>2, <1>4, <2>1, FailedStep, SMTT(30)
  <2> QED BY <1>2, <1>4, <2>1, <2>2, QuietStep, Zenon
<1> QED BY <1>3, <1>4 DEF CreateLinks

\* A step of setup that fails without effect on what is shared.
LEMMA FailureAccounted ==
  ASSUME SizesCount, BridgeTypeOK, StagesInOrder, ResourcesOwned, ReferencesCounted, NEW c \in Containers, SameElsewhere(c),
         InSetup(c), ~At(c, "reserve"), UNCHANGED <<lock_dir, masquerade, dnat, veths, ip_forward, refs, container_ip>>,
         UNCHANGED <<recorded, blame>>, StartUndo(c, RollbackOrder(c)) \/ StartUndo(c, CleanupOrder(c))
  PROVE  Accounted'
<1>1. npc'[c] = "undo" /\ undo'[c] \in {RollbackOrder(c), CleanupOrder(c)} /\ ~InSetup(c)'
  BY SMTT(30) DEF BridgeTypeOK, StartUndo, Move, InSetup, SetupSteps
<1>2. \A x : Still(x)
  BY <1>1, FailedStep, Zenon
<1> QED BY <1>1, <1>2, QuietStep, Zenon

\* A step of setup that goes on without recording anything.
LEMMA AdvanceAccounted ==
  ASSUME SizesCount, BridgeTypeOK, StagesInOrder, ResourcesOwned, ReferencesCounted, NEW c \in Containers, SameElsewhere(c),
         InSetup(c), ~At(c, "reserve"), UNCHANGED <<lock_dir, masquerade, dnat, veths, ip_forward, refs, container_ip>>,
         UNCHANGED <<recorded, blame>>, Move(c, "nat") \/ Move(c, "running")
  PROVE  Accounted'
<1>1. InSetup(c)'
  BY ZenonT(60) DEF BridgeTypeOK, Move, InSetup, SetupSteps
<1>2. \A x : Pending(c, x)' <=> Pending(c, x)
  BY <1>1, Zenon DEF Pending
<1>3. \A x : Still(x)
  BY <1>2, StillStep, Zenon
<1> QED BY <1>1, <1>3, QuietStep, Zenon

\* Configuration of the links, egress policy, and the end of the network.
LEMMA QuietAccounted ==
  ASSUME SizesCount, BridgeTypeOK, StagesInOrder, ResourcesOwned, ReferencesCounted, NEW c \in Containers, SameElsewhere(c),
         ConfigureLinks(c) \/ ApplyEgress(c) \/ EndNetwork(c)
  PROVE  Accounted'
<1>1. InSetup(c) /\ ~At(c, "reserve")
  BY Zenon DEF ConfigureLinks, ApplyEgress, EndNetwork, At, InSetup, SetupSteps
<1>2. UNCHANGED <<lock_dir, masquerade, dnat, veths, ip_forward, refs, container_ip>> /\ UNCHANGED <<recorded, blame>>
  BY DEF ConfigureLinks, ApplyEgress, EndNetwork, hostState
<1>3. \/ StartUndo(c, RollbackOrder(c)) \/ StartUndo(c, CleanupOrder(c))
      \/ Move(c, "nat") \/ Move(c, "running")
  BY DEF ConfigureLinks, ApplyEgress, EndNetwork, SetupFails
<1> QED BY <1>1, <1>2, <1>3, FailureAccounted, AdvanceAccounted, SMTT(30)

\* The masquerade rule is added, or the setup fails and is rolled back.
LEMMA NatAccounted ==
  ASSUME SizesCount, BridgeTypeOK, StagesInOrder, ResourcesOwned, ReferencesCounted, NEW c \in Containers, SameElsewhere(c),
         EnableNat(c)
  PROVE  Accounted'
<1>1. InSetup(c) /\ "masquerade" \notin recorded[c] /\ ~At(c, "reserve")
  BY DEF EnableNat, At, StagesInOrder, InSetup, SetupSteps, DoneAt
<1>2. UNCHANGED <<lock_dir, dnat, veths, ip_forward, refs, container_ip, blame>>
  BY Zenon DEF EnableNat
<1>3. ASSUME masquerade' = masquerade + 1, Record(c, "masquerade"), Move(c, "forward")
      PROVE  Accounted'
  <2>1. npc'[c] = "forward" /\ recorded'[c] = recorded[c] \cup {"masquerade"} /\ InSetup(c)' /\ blame'[c] = blame[c]
    BY <1>2, <1>3, ZenonT(60) DEF BridgeTypeOK, Move, Record, InSetup, SetupSteps
  <2>2. Gained(c, "masquerade")
    BY <1>1, <2>1, GainedStep
  <2>3. Still("veth") /\ Still("port") /\ Still("ip") /\ Still("forward")
    BY <2>2 DEF Gained
  <2>4. MasqueradesOwned' /\ masquerade' \in 0..Cardinality(Containers)
    BY <1>3, <2>2, MasqueradesFollow, ZenonT(60) DEF ResourcesOwned
  <2>5. AddressesOwned'
    BY <1>1, <1>2, <2>3, AddressesStay, SMTT(30) DEF ResourcesOwned
  <2>6. (\A d \in veths : Kept(d, "veth"))' /\ RulesOwned' /\ ReferencesCounted'
    <3>1. (\A d \in veths : Kept(d, "veth"))'
      BY <1>2, <2>3, VethsKept, Zenon DEF ResourcesOwned
    <3>2. RulesOwned'
      BY <1>2, <2>3, RulesKept, Zenon DEF ResourcesOwned
    <3>3. ReferencesCounted'
      BY <1>2, <2>3, ReferencesKept, Zenon DEF ResourcesOwned
    <3> QED BY <3>1, <3>2, <3>3, Zenon
  <2> QED BY <1>2, <2>4, <2>5, <2>6, Zenon DEF Accounted, ResourcesOwned, BridgeTypeOK
<1>4. ASSUME SetupFails(c), UNCHANGED <<masquerade, recorded>>
      PROVE  Accounted'
  BY <1>1, <1>2, <1>4, FailureAccounted, ZenonT(60) DEF SetupFails
<1> QED BY <1>3, <1>4 DEF EnableNat

\* ip_forward_acquire: the count is raised, or the file is as before or torn.
LEMMA ForwardingAccounted ==
  ASSUME SizesCount, BridgeTypeOK, StagesInOrder, ResourcesOwned, ReferencesCounted, NEW c \in Containers, SameElsewhere(c),
         EnableForwarding(c)
  PROVE  Accounted'
<1>1. InSetup(c) /\ "forward" \notin recorded[c] /\ ~At(c, "reserve")
  BY DEF EnableForwarding, At, StagesInOrder, InSetup, SetupSteps, DoneAt
<1>2. UNCHANGED <<lock_dir, masquerade, dnat, veths, container_ip>>
  BY DEF EnableForwarding
<1>3. PICK o \in AcquireOutcomes :
          /\ refs' = o.file /\ ip_forward' = o.value
          /\ IF o.ok THEN Record(c, "forward") /\ Move(c, "port") /\ UNCHANGED <<undo, faults, blame>>
             ELSE /\ SetupFails(c)
                  /\ IF <<o.file, o.value>> = <<refs, ip_forward>>
                     THEN UNCHANGED blame ELSE Blame(c, "half")
                  /\ UNCHANGED recorded
  BY DEF EnableForwarding
<1>4. ip_forward \in {"0", "1"}
  BY ZenonT(60) DEF BridgeTypeOK
<1>5. CASE /\ o.ok /\ refs.kind # "torn"
           /\ o.file = Refs(Before + 1, IF refs.kind = "none" THEN ip_forward ELSE refs.original)
           /\ o.value = IF Before = 0 THEN "1" ELSE ip_forward
  <2>0. Record(c, "forward") /\ Move(c, "port") /\ UNCHANGED <<undo, faults, blame>>
    BY <1>3, <1>5, Zenon
  <2>1. npc'[c] = "port" /\ recorded'[c] = recorded[c] \cup {"forward"} /\ InSetup(c)' /\ blame'[c] = blame[c]
    BY <2>0, ZenonT(60) DEF BridgeTypeOK, Move, Record, InSetup, SetupSteps
  <2>2. Gained(c, "forward")
    BY <1>1, <2>1, GainedStep
  <2>3. Still("veth") /\ Still("port") /\ Still("ip") /\ Still("masquerade")
    BY <2>2, Zenon DEF Gained
  <2>4. /\ ReferencesCounted' /\ ip_forward' \in {"0", "1"}
        /\ refs' \in [kind : {"none", "torn", "ok"}, refcount : 0..Cardinality(Containers), original : {"0", "1"}]
    BY <1>3, <1>4, <1>5, <2>0, <2>2, AcquireCounts, ZenonT(60)
  <2>5. AddressesOwned'
    BY <1>1, <1>2, <2>3, AddressesStay DEF ResourcesOwned
  <2>6. (\A d \in veths : Kept(d, "veth"))' /\ RulesOwned' /\ MasqueradesOwned'
    <3>1. (\A d \in veths : Kept(d, "veth"))'
      BY <1>2, <2>3, VethsKept, Zenon DEF ResourcesOwned
    <3>2. RulesOwned'
      BY <1>2, <2>3, RulesKept, Zenon DEF ResourcesOwned
    <3>3. MasqueradesOwned'
      BY <1>2, <2>3, MasqueradesFollow, Zenon DEF ResourcesOwned
    <3> QED BY <3>1, <3>2, <3>3, Zenon
  <2> QED BY <1>2, <2>4, <2>5, <2>6 DEF Accounted, ResourcesOwned, BridgeTypeOK
<1>6. CASE /\ ~o.ok
           /\ \/ o.file = refs \/ o.file = TornRefs
              \/ refs.kind = "none" /\ o.file = Refs(0, ip_forward)
           /\ o.value \in {ip_forward, "1"}
  <2>0. /\ SetupFails(c) /\ UNCHANGED recorded
        /\ UNCHANGED <<refs, ip_forward, blame>> \/ Blame(c, "half")
    BY <1>3, <1>6, Zenon
  <2>1. CASE UNCHANGED <<refs, ip_forward, blame>>
    BY <1>1, <1>2, <2>0, <2>1, FailureAccounted, ZenonT(60) DEF SetupFails
  <2>2. CASE Blame(c, "half")
    <3>1. /\ npc'[c] = "undo" /\ undo'[c] = RollbackOrder(c) /\ ~InSetup(c)'
          /\ ~Clean(c)' /\ blame[c] \subseteq blame'[c] /\ recorded'[c] = recorded[c]
      BY <2>0, <2>2, SMTT(30) DEF BridgeTypeOK, SetupFails, StartUndo, Move, InSetup, SetupSteps, Blame, Clean
    <3>2. \A x : Still(x)
      BY <1>1, <3>1, FailedStep, ZenonT(60)
    <3>3. \A d \in Containers : blame[d] \subseteq blame'[d]
      BY <3>1, BlameGrows, Zenon
    <3>4. /\ ip_forward' \in {ip_forward, "1"}
          /\ \/ refs' = refs \/ refs' = TornRefs
             \/ refs.kind = "none" /\ refs' = Refs(0, ip_forward)
      BY <1>3, <1>6, Zenon
    <3>5. /\ ReferencesCounted' /\ ip_forward' \in {"0", "1"}
          /\ refs' \in [kind : {"none", "torn", "ok"}, refcount : 0..Cardinality(Containers), original : {"0", "1"}]
      BY <1>4, <3>1, <3>2, <3>3, <3>4, AcquireFails, ZenonT(60)
    <3>6. AddressesOwned'
      BY <1>2, <3>1, <3>2, AddressesStay DEF ResourcesOwned
    <3>7. (\A d \in veths : Kept(d, "veth"))' /\ RulesOwned' /\ MasqueradesOwned'
      <4>1. (\A d \in veths : Kept(d, "veth"))'
        BY <1>2, <3>2, VethsKept, Zenon DEF ResourcesOwned
      <4>2. RulesOwned'
        BY <1>2, <3>2, RulesKept, Zenon DEF ResourcesOwned
      <4>3. MasqueradesOwned'
        BY <1>2, <3>2, MasqueradesFollow, ZenonT(60) DEF ResourcesOwned
      <4> QED BY <4>1, <4>2, <4>3, Zenon
    <3> QED BY <1>2, <3>5, <3>6, <3>7 DEF Accounted, ResourcesOwned, BridgeTypeOK
  <2> QED BY <2>0, <2>1, <2>2
<1> QED BY <1>5, <1>6, AcquireCases

\* Port rules: all are added and recorded, or those added are undone, or blamed.
LEMMA PortAccounted ==
  ASSUME SizesCount, BridgeTypeOK, StagesInOrder, ResourcesOwned, ReferencesCounted, NEW c \in Containers, SameElsewhere(c),
         ForwardPort(c)
  PROVE  Accounted'
<1>1. InSetup(c) /\ "port" \notin recorded[c] /\ ~At(c, "reserve") /\ Clean(c)
  BY DEF ForwardPort, At, StagesInOrder, InSetup, SetupSteps, DoneAt
<1>2. UNCHANGED <<lock_dir, masquerade, veths, ip_forward, refs, container_ip>>
  BY Zenon DEF ForwardPort
<1>3. ~Owes(c, "port") /\ container_ip[c] \in Addresses
  BY <1>1 DEF Owes, Pending, ResourcesOwned, AddressesOwned, BridgeTypeOK
<1>4. RulesOwned /\ MasqueradesOwned /\ AddressesOwned /\ \A d \in veths : Kept(d, "veth")
  BY SMTT(30) DEF ResourcesOwned
<1>5. ASSUME NEW rules, rules \subseteq {Rule(c, "PREROUTING"), Rule(c, "OUTPUT")}, dnat' = Added(rules),
             Owes(c, "port")', \A d \in Containers \ {c} : StillOf(d, "port")
      PROVE  RulesOwned' /\ dnat' \in [DnatRules -> Nat]
  <2>1. \A chain \in Chains, a \in Addresses, d \in Containers :
           <<chain, a, d>> \in DnatRules /\ (<<chain, a, d>> \in rules => d = c /\ a = container_ip[c])
    BY <1>5, SMTT(30) DEF DnatRules, Rule
  <2>2. \A chain \in Chains, a \in Addresses, d \in Containers \ {c} : dnat'[<<chain, a, d>>] = dnat[<<chain, a, d>>]
    BY <1>5, <2>1, RulesChanged, ZenonT(60)
  <2>3. \A chain \in Chains, a \in Addresses : dnat[<<chain, a, c>>] = 0 /\ <<chain, a, c>> \in DnatRules
    <3>1. \A chain \in Chains, a \in Addresses : <<chain, a, c>> \in DnatRules /\ dnat[<<chain, a, c>>] \in Nat
      BY <2>1, RulesChanged, Zenon
    <3>2. \A chain \in Chains, a \in Addresses : ~(dnat[<<chain, a, c>>] > 0)
      BY <1>3, <1>4, Zenon DEF RulesOwned, Owes
    <3> QED BY <3>1, <3>2
  <2>4. \A chain \in Chains, a \in Addresses : dnat'[<<chain, a, c>>] > 0 =>
             dnat'[<<chain, a, c>>] = 1 /\ a = container_ip[c] /\ Owes(c, "port")'
    <3> SUFFICES ASSUME NEW chain \in Chains, NEW a \in Addresses, dnat'[<<chain, a, c>>] > 0
                 PROVE  dnat'[<<chain, a, c>>] = 1 /\ <<chain, a, c>> \in rules
      BY <1>5, <2>1, Zenon
    <3>1. IF <<chain, a, c>> \in rules THEN dnat'[<<chain, a, c>>] = 0 + 1 ELSE dnat'[<<chain, a, c>>] = 0
      BY <1>5, <2>3, RulesChanged, ZenonT(60)
    <3> QED BY <3>1, SMTT(30)
  <2> QED BY <1>2, <1>4, <1>5, <2>2, <2>4, RulesFollow, RulesChanged, Zenon
<1>6. ASSUME dnat' = Added({Rule(c, "PREROUTING"), Rule(c, "OUTPUT")}), Record(c, "port"), Move(c, "egress"),
             UNCHANGED blame
      PROVE  Accounted'
  <2>1. npc'[c] = "egress" /\ recorded'[c] = recorded[c] \cup {"port"} /\ InSetup(c)' /\ blame'[c] = blame[c]
    BY <1>6, ZenonT(60) DEF BridgeTypeOK, Move, Record, InSetup, SetupSteps
  <2>2. Gained(c, "port")
    BY <1>1, <2>1, GainedStep, Zenon
  <2>3. Still("veth") /\ Still("masquerade") /\ Still("ip") /\ Still("forward")
    BY <2>2 DEF Gained
  <2>4. Owes(c, "port")' /\ \A d \in Containers \ {c} : StillOf(d, "port")
    BY <2>2, Zenon DEF Gained, Owes
  <2>5. RulesOwned' /\ dnat' \in [DnatRules -> Nat]
    BY <1>5, <1>6, <2>4, Zenon
  <2>6. AddressesOwned'
    BY <1>1, <1>2, <1>4, <2>3, AddressesStay, Zenon
  <2>7. (\A d \in veths : Kept(d, "veth"))' /\ MasqueradesOwned' /\ ReferencesCounted'
    <3>1. (\A d \in veths : Kept(d, "veth"))'
      BY <1>2, <1>4, <1>6, <2>3, VethsKept, Zenon
    <3>2. MasqueradesOwned'
      BY <1>2, <1>4, <1>6, <2>3, MasqueradesFollow, Zenon
    <3>3. ReferencesCounted'
      BY <1>2, <1>4, <1>6, <2>3, ReferencesKept, ZenonT(60)
    <3> QED BY <3>1, <3>2, <3>3, Zenon
  <2> QED BY <1>2, <2>5, <2>6, <2>7, Zenon DEF Accounted, ResourcesOwned, BridgeTypeOK
<1>7. ASSUME dnat' = Added({Rule(c, "PREROUTING")}), Blame(c, "half"), SetupFails(c), UNCHANGED recorded
      PROVE  Accounted'
  <2>1. /\ npc'[c] = "undo" /\ undo'[c] = RollbackOrder(c) /\ ~InSetup(c)'
        /\ ~Clean(c)' /\ blame[c] \subseteq blame'[c] /\ recorded'[c] = recorded[c]
    BY <1>7, SMTT(30) DEF BridgeTypeOK, SetupFails, StartUndo, Move, InSetup, SetupSteps, Blame, Clean
  <2>2. \A x : Still(x)
    BY <1>1, <2>1, FailedStep, ZenonT(60)
  <2>3. \A d \in Containers : blame[d] \subseteq blame'[d]
    BY <2>1, BlameGrows, Zenon
  <2>4. Owes(c, "port")' /\ \A d \in Containers \ {c} : StillOf(d, "port")
    BY <2>1, <2>2, Zenon DEF Still, Owes
  <2>5. RulesOwned' /\ dnat' \in [DnatRules -> Nat]
    BY <1>5, <1>7, <2>4, Zenon
  <2>6. AddressesOwned'
    BY <1>2, <1>4, <2>1, <2>2, AddressesStay, ZenonT(60)
  <2>7. (\A d \in veths : Kept(d, "veth"))' /\ MasqueradesOwned' /\ ReferencesCounted'
    <3>1. (\A d \in veths : Kept(d, "veth"))'
      BY <1>2, <1>4, <2>2, <2>3, VethsKept, Zenon
    <3>2. MasqueradesOwned'
      BY <1>2, <1>4, <2>2, <2>3, MasqueradesFollow, Zenon
    <3>3. ReferencesCounted'
      BY <1>2, <1>4, <2>2, <2>3, ReferencesKept, Zenon
    <3> QED BY <3>1, <3>2, <3>3, Zenon
  <2> QED BY <1>2, <2>5, <2>6, <2>7, Zenon DEF Accounted, ResourcesOwned, BridgeTypeOK
<1>8. ASSUME SetupFails(c), UNCHANGED <<dnat, recorded, blame>>
      PROVE  Accounted'
  BY <1>1, <1>2, <1>8, FailureAccounted, Zenon DEF SetupFails
<1> QED BY <1>6, <1>7, <1>8 DEF ForwardPort

---------------------------------------------------------------------------
(* The steps that undo the network, and all steps.                         *)
LEMMA UndoAccounted ==
  ASSUME SizesCount, BridgeTypeOK, StagesInOrder, ResourcesOwned, ReferencesCounted, NEW c \in Containers, SameElsewhere(c),
         UndoStep(c)
  PROVE  Accounted'
<1> PICK r : r = Head(undo[c])
  BY SMTT(30)
<1>1. At(c, "undo") /\ undo[c] # <<>> /\ ~InSetup(c)' /\ undo'[c] = Tail(undo[c]) /\ npc' = npc /\ recorded' = recorded
      /\ container_ip' = container_ip
  BY ZenonT(60) DEF UndoStep, BridgeTypeOK, InSetup, SetupSteps, At
<1>2. blame[c] \subseteq blame'[c] /\ (UNCHANGED blame \/ ~Clean(c)')
  <2>1. UNCHANGED blame \/ \E b : Blame(c, b)
    BY Zenon DEF UndoStep
  <2>2. ASSUME NEW b, Blame(c, b)
        PROVE  b \in blame'[c] /\ blame[c] \subseteq blame'[c]
    BY <2>2, SMTT(30) DEF BridgeTypeOK, Blame
  <2> QED BY <2>1, <2>2 DEF Clean
<1>3. Undone(c, r) /\ r \in recorded[c]
  BY <1>1, <1>2, UndoneStep
<1>4. \A d \in Containers : blame[d] \subseteq blame'[d]
  BY <1>2, BlameGrows
<1>5. RulesOwned /\ MasqueradesOwned /\ AddressesOwned /\ \A d \in veths : Kept(d, "veth")
  BY DEF ResourcesOwned
<1>6. ASSUME r = "ip", UndoIp(c)
      PROVE  Accounted'
  <2>1. Still("veth") /\ Still("masquerade") /\ Still("port") /\ Still("forward")
    BY <1>3, <1>6, Zenon DEF Undone
  <2>2. AddressesOwned'
    <3>1. /\ lock_dir'[c] = "none" /\ \A d \in Containers \ {c} : lock_dir'[d] = lock_dir[d]
          /\ UNCHANGED container_ip
      BY <1>1, <1>6, ZenonT(60) DEF UndoIp, BridgeTypeOK
    <3>2. \A d \in Containers \ {c} : Kept(d, "ip") => Kept(d, "ip")'
      BY <1>3, <1>6, ZenonT(60) DEF Undone, StillOf
    <3>3. \A d \in Containers \ {c} : (InSetup(d)' <=> InSetup(d)) /\ (At(d, "reserve")' <=> At(d, "reserve"))
      BY ZenonT(60) DEF SameElsewhere, InSetup, At
    <3> SUFFICES ASSUME NEW d \in Containers
                 PROVE  /\ InSetup(d)' /\ ~At(d, "reserve")' => lock_dir'[d] = container_ip'[d] /\ container_ip'[d] # "none"
                        /\ lock_dir'[d] # "none" => Kept(d, "ip")'
                        /\ \A e \in Containers : d # e /\ lock_dir'[d] # "none" => lock_dir'[d] # lock_dir'[e]
      BY Zenon DEF AddressesOwned
    <3> QED BY <1>1, <1>5, <3>1, <3>2, <3>3, ZenonT(60) DEF AddressesOwned
  <2>3. UNCHANGED <<masquerade, dnat, veths, ip_forward, refs>>
    BY <1>6, SMTT(30) DEF UndoIp
  <2>4. MasqueradesOwned' /\ RulesOwned' /\ (\A d \in veths : Kept(d, "veth"))' /\ ReferencesCounted'
    <3>1. MasqueradesOwned'
      BY <1>1, <1>4, <1>5, <2>1, <2>3, MasqueradesFollow, ZenonT(60)
    <3>2. RulesOwned'
      BY <1>1, <1>4, <1>5, <2>1, <2>3, RulesKept, ZenonT(60)
    <3>3. (\A d \in veths : Kept(d, "veth"))'
      BY <1>1, <1>4, <1>5, <2>1, <2>3, VethsKept, ZenonT(60)
    <3>4. ReferencesCounted'
      BY <1>1, <1>4, <1>5, <2>1, <2>3, ReferencesKept, ZenonT(60)
    <3> QED BY <3>1, <3>2, <3>3, <3>4, Zenon
  <2> QED BY <2>2, <2>3, <2>4, ZenonT(60) DEF Accounted, ResourcesOwned, BridgeTypeOK
<1>7. ASSUME r = "masquerade", UndoMasquerade(c)
      PROVE  Accounted'
  <2>1. Still("veth") /\ Still("ip") /\ Still("port") /\ Still("forward")
    BY <1>3, <1>7, Zenon DEF Undone
  <2>2. UNCHANGED <<lock_dir, dnat, veths, ip_forward, refs>> /\ masquerade' = masquerade - 1
    BY <1>7, SMTT(30) DEF UndoMasquerade
  <2>3. MasqueradesOwned' /\ masquerade' \in 0..Cardinality(Containers)
    BY <1>3, <1>5, <1>7, <2>2, MasqueradesFollow, ZenonT(60)
  <2>4. AddressesOwned'
    BY <1>1, <1>5, <2>1, <2>2, AddressesStay, ZenonT(60)
  <2>5. RulesOwned' /\ (\A d \in veths : Kept(d, "veth"))' /\ ReferencesCounted'
    <3>1. RulesOwned'
      BY <1>1, <1>4, <1>5, <2>1, <2>2, RulesKept, ZenonT(60)
    <3>2. (\A d \in veths : Kept(d, "veth"))'
      BY <1>1, <1>4, <1>5, <2>1, <2>2, VethsKept, ZenonT(60)
    <3>3. ReferencesCounted'
      BY <1>1, <1>4, <1>5, <2>1, <2>2, ReferencesKept, ZenonT(60)
    <3> QED BY <3>1, <3>2, <3>3, Zenon
  <2> QED BY <2>2, <2>3, <2>4, <2>5, ZenonT(60) DEF Accounted, ResourcesOwned, BridgeTypeOK
<1>8. ASSUME r = "veth", UndoVeth(c)
      PROVE  Accounted'
  <2>1. Still("masquerade") /\ Still("ip") /\ Still("port") /\ Still("forward")
    BY <1>3, <1>8 DEF Undone
  <2>2. UNCHANGED <<lock_dir, dnat, masquerade, ip_forward, refs>> /\ veths' = veths \ {c}
    BY <1>8 DEF UndoVeth
  <2>3. (\A d \in veths : Kept(d, "veth"))'
    BY <1>3, <1>5, <1>8, <2>2, SMTT(30) DEF Undone, StillOf, BridgeTypeOK
  <2>4. AddressesOwned'
    BY <1>1, <1>5, <2>1, <2>2, AddressesStay, ZenonT(60)
  <2>5. RulesOwned' /\ MasqueradesOwned' /\ ReferencesCounted'
    <3>1. RulesOwned'
      BY <1>1, <1>4, <1>5, <2>1, <2>2, RulesKept, ZenonT(60)
    <3>2. MasqueradesOwned'
      BY <1>1, <1>4, <1>5, <2>1, <2>2, MasqueradesFollow, ZenonT(60)
    <3>3. ReferencesCounted'
      BY <1>1, <1>4, <1>5, <2>1, <2>2, ReferencesKept, ZenonT(60)
    <3> QED BY <3>1, <3>2, <3>3, ZenonT(60)
  <2> QED BY <2>2, <2>3, <2>4, <2>5, ZenonT(60) DEF Accounted, ResourcesOwned, BridgeTypeOK
<1>9. ASSUME r = "port", UndoPort(c) \/ (UndoHalfPort(c) /\ ~Clean(c)')
      PROVE  Accounted'
  <2>1. Still("masquerade") /\ Still("ip") /\ Still("veth") /\ Still("forward")
    BY <1>3, <1>9, Zenon DEF Undone
  <2>2. UNCHANGED <<lock_dir, veths, masquerade, ip_forward, refs>>
    BY <1>9, Zenon DEF UndoPort, UndoHalfPort
  <2>3. \E rules \in SUBSET {Rule(c, "PREROUTING"), Rule(c, "OUTPUT")} :
           /\ dnat' = Removed(rules) \/ (UNCHANGED dnat /\ ~Clean(c)')
           /\ rules = {Rule(c, "PREROUTING"), Rule(c, "OUTPUT")} \/ ~Clean(c)'
    <3>1. CASE UndoPort(c)
      <4>1. dnat' = Removed({Rule(c, "PREROUTING"), Rule(c, "OUTPUT")})
        BY <3>1 DEF UndoPort
      <4> QED BY <4>1, Zenon
    <3>2. CASE dnat' = dnat /\ ~Clean(c)'
      BY <3>2, Zenon
    <3>3. CASE dnat' = Removed({Rule(c, "OUTPUT")}) /\ ~Clean(c)'
      BY <3>3
    <3>4. CASE dnat' = Removed({Rule(c, "PREROUTING")}) /\ ~Clean(c)'
      BY <3>4
    <3> QED BY <1>9, <3>1, <3>2, <3>3, <3>4, ZenonT(60) DEF UndoHalfPort
  <2>4. RulesOwned' /\ dnat' \in [DnatRules -> Nat]
    <3>1. PICK rules \in SUBSET {Rule(c, "PREROUTING"), Rule(c, "OUTPUT")} :
             /\ dnat' = Removed(rules) \/ (UNCHANGED dnat /\ ~Clean(c)')
             /\ rules = {Rule(c, "PREROUTING"), Rule(c, "OUTPUT")} \/ ~Clean(c)'
      BY <2>3
    <3>2. \A chain \in Chains, a \in Addresses, d \in Containers :
             /\ <<chain, a, d>> \in DnatRules /\ (<<chain, a, d>> \in rules => d = c)
             /\ rules = {Rule(c, "PREROUTING"), Rule(c, "OUTPUT")} /\ d = c /\ a = container_ip[c]
                  => <<chain, a, d>> \in rules
      BY DEF DnatRules, Rule, Chains
    <3>3. \A chain \in Chains, a \in Addresses, d \in Containers \ {c} : dnat'[<<chain, a, d>>] = dnat[<<chain, a, d>>]
      BY <3>1, <3>2, RulesChanged, ZenonT(60)
    <3>4. ASSUME NEW chain \in Chains, NEW a \in Addresses, dnat'[<<chain, a, c>>] > 0
          PROVE  dnat'[<<chain, a, c>>] = 1 /\ a = container_ip[c] /\ Owes(c, "port")'
      <4>1. <<chain, a, c>> \in DnatRules /\ dnat[<<chain, a, c>>] \in Nat
        BY <3>2, RulesChanged, Zenon
      <4>2. \/ dnat'[<<chain, a, c>>] = dnat[<<chain, a, c>>]
            \/ <<chain, a, c>> \in rules /\ dnat'[<<chain, a, c>>] = (IF dnat[<<chain, a, c>>] > 0 THEN dnat[<<chain, a, c>>] - 1 ELSE 0)
        BY <3>1, <4>1, RulesChanged, SMTT(30)
      <4>3. dnat[<<chain, a, c>>] > 0
        BY <3>4, <4>1, <4>2, SMTT(30)
      <4>4. dnat[<<chain, a, c>>] = 1 /\ a = container_ip[c]
        BY <1>5, <4>3, ZenonT(60) DEF RulesOwned
      <4>5. dnat'[<<chain, a, c>>] = 1 /\ ~(<<chain, a, c>> \in rules /\ dnat' = Removed(rules))
        BY <3>4, <4>1, <4>2, <4>4, RulesChanged, SMTT(30)
      <4> QED BY <3>1, <3>2, <4>4, <4>5, ZenonT(60) DEF Owes
    <3>5. \A d \in Containers \ {c} : StillOf(d, "port")
      BY <1>3, <1>9, ZenonT(60) DEF Undone
    <3>6. dnat' \in [DnatRules -> Nat]
      BY <3>1, RulesChanged, SMTT(30) DEF BridgeTypeOK
    <3> QED BY <1>1, <1>5, <3>3, <3>4, <3>5, <3>6, RulesFollow, ZenonT(60)
  <2>5. AddressesOwned'
    BY <1>1, <1>5, <2>1, <2>2, AddressesStay, ZenonT(60)
  <2>6. (\A d \in veths : Kept(d, "veth"))' /\ MasqueradesOwned' /\ ReferencesCounted'
    <3>1. (\A d \in veths : Kept(d, "veth"))'
      BY <1>1, <1>4, <1>5, <2>1, <2>2, VethsKept, ZenonT(60)
    <3>2. MasqueradesOwned'
      BY <1>1, <1>4, <1>5, <2>1, <2>2, MasqueradesFollow, ZenonT(60)
    <3>3. ReferencesCounted'
      BY <1>1, <1>4, <1>5, <2>1, <2>2, ReferencesKept, ZenonT(60)
    <3> QED BY <3>1, <3>2, <3>3, Zenon
  <2> QED BY <2>2, <2>4, <2>5, <2>6, ZenonT(60) DEF Accounted, ResourcesOwned, BridgeTypeOK
<1>10. ASSUME r = "forward", NEW o \in ReleaseOutcomes, refs' = o.file, ip_forward' = o.value,
              IF o.ok THEN UNCHANGED <<faults, blame>>
              ELSE Fault /\ Blame(c, IF o.cut THEN "cut" ELSE "undo"),
              UNCHANGED <<lock_dir, masquerade, dnat, veths>>
       PROVE  Accounted'
  <2>1. Still("masquerade") /\ Still("ip") /\ Still("veth") /\ Still("port")
    BY <1>3, <1>10, Zenon DEF Undone
  <2>2. /\ o.ok => UNCHANGED blame
        /\ ~o.ok => blame' = [blame EXCEPT ![c] = @ \cup {IF o.cut THEN "cut" ELSE "undo"}]
    BY <1>10, Zenon DEF Blame
  <2>3. /\ ReferencesCounted' /\ ip_forward' \in {"0", "1"}
        /\ refs' \in [kind : {"none", "torn", "ok"}, refcount : 0..Cardinality(Containers), original : {"0", "1"}]
    BY <1>3, <1>10, <2>2, ReleaseCounts, ZenonT(60)
  <2>4. AddressesOwned'
    BY <1>1, <1>5, <1>10, <2>1, AddressesStay, ZenonT(60)
  <2>5. RulesOwned' /\ MasqueradesOwned' /\ (\A d \in veths : Kept(d, "veth"))'
    <3>1. RulesOwned'
      BY <1>1, <1>5, <1>10, <2>1, RulesKept, ZenonT(60)
    <3>2. MasqueradesOwned'
      BY <1>1, <1>5, <1>10, <2>1, MasqueradesFollow, ZenonT(60)
    <3>3. (\A d \in veths : Kept(d, "veth"))'
      BY <1>1, <1>5, <1>10, <2>1, VethsKept, ZenonT(60)
    <3> QED BY <3>1, <3>2, <3>3, Zenon
  <2> QED BY <1>10, <2>3, <2>4, <2>5, ZenonT(60) DEF Accounted, ResourcesOwned, BridgeTypeOK
<1>11. ASSUME Blame(c, "undo"), UNCHANGED <<lock_dir, masquerade, dnat, veths, ip_forward, refs>>
       PROVE  Accounted'
  <2>1. ~Clean(c)'
    BY <1>11, ZenonT(60) DEF Blame, Clean, BridgeTypeOK
  <2>2. \A x : Still(x)
    BY <1>3, <2>1, Zenon DEF Undone
  <2> QED BY <1>1, <1>2, <1>11, <2>2, QuietStep, ZenonT(60)
<1>12. Blame(c, "undo") => ~Clean(c)'
  BY DEF Blame, Clean, BridgeTypeOK
<1>13. CASE /\ r # "forward" /\ Blame(c, "undo")
            /\ IF r = "port" THEN UndoHalfPort(c)
               ELSE UNCHANGED <<lock_dir, masquerade, dnat, veths, ip_forward, refs>>
  BY <1>9, <1>11, <1>12, <1>13, ZenonT(60)
<1>14. CASE /\ r = "forward"
            /\ \E o \in ReleaseOutcomes :
                  /\ refs' = o.file /\ ip_forward' = o.value
                  /\ IF o.ok THEN UNCHANGED <<faults, blame>>
                     ELSE Fault /\ Blame(c, IF o.cut THEN "cut" ELSE "undo")
            /\ UNCHANGED <<lock_dir, masquerade, dnat, veths>>
  BY <1>10, <1>14, Zenon
<1> QED BY <1>6, <1>7, <1>8, <1>9, <1>13, <1>14, ZenonT(60) DEF UndoStep

\* The end of an undo, and the death of a process.
LEMMA EndAccounted ==
  ASSUME SizesCount, BridgeTypeOK, StagesInOrder, ResourcesOwned, ReferencesCounted, NEW c \in Containers, SameElsewhere(c),
         UndoDone(c) \/ NetworkCrash(c)
  PROVE  Accounted'
<1>1. CASE UndoDone(c)
  <2>1. npc'[c] \in {"bare", "closed"} /\ At(c, "undo") /\ Range(undo[c]) = {}
    BY <1>1, SMTT(30) DEF UndoDone, Move, BridgeTypeOK, Range
  <2>2. ~InSetup(c)' /\ \A x : Pending(c, x)' <=> Pending(c, x)
    <3>1. ~InSetup(c) /\ ~InSetup(c)' /\ ~At(c, "undo")'
      BY <2>1, SMTT(30) DEF InSetup, SetupSteps, At
    <3>2. \A x : ~Pending(c, x)
      BY <2>1, <3>1, Zenon DEF Pending
    <3>3. \A x : ~Pending(c, x)'
      BY <3>1, Zenon DEF Pending
    <3> QED BY <3>1, <3>2, <3>3, ZenonT(60)
  <2>3. \A x : Still(x)
    BY <1>1, <2>2, StillStep, ZenonT(60) DEF UndoDone
  <2> QED BY <1>1, <2>2, <2>3, QuietStep, ZenonT(60) DEF UndoDone, hostState
<1>2. CASE NetworkCrash(c)
  <2>1. npc'[c] = "closed" /\ recorded'[c] = recorded[c] /\ blame'[c] # {} /\ blame[c] \subseteq blame'[c]
    BY <1>2, ZenonT(60) DEF NetworkCrash, Move, Blame, BridgeTypeOK
  <2>2. ~InSetup(c)' /\ \A x : StillOf(c, x)
    BY <2>1, Dies, Zenon DEF StillOf, InSetup, SetupSteps
  <2>3. \A x : Still(x)
    <3>1. \A d \in Containers \ {c} : \A x : StillOf(d, x)
      BY OthersOwe DEF StillOf
    <3> QED BY <2>2, <3>1, Zenon DEF Still
  <2> QED BY <1>2, <2>1, <2>2, <2>3, QuietStep, ZenonT(60) DEF NetworkCrash, hostState
<1> QED BY <1>1, <1>2, SMTT(30)

\* Every step of every container leaves every resource accounted for.
LEMMA StepAccounted ==
  ASSUME SizesCount, BridgeTypeOK, StagesInOrder, ResourcesOwned, ReferencesCounted, NEW c \in Containers, NetworkStep(c)
  PROVE  Accounted'
BY StepElsewhere, ReserveAccounted, LinksAccounted, QuietAccounted, NatAccounted, ForwardingAccounted, PortAccounted,
   UndoAccounted, EndAccounted, Zenon DEF NetworkStep

---------------------------------------------------------------------------
(* Where each container is.                                                *)

\* Setup fails and begins to undo, records r and goes on, or goes on; an undo step
\* is taken, or the container is at an end.
Fails(c) == /\ StartUndo(c, RollbackOrder(c)) \/ StartUndo(c, CleanupOrder(c))
            /\ recorded' = recorded /\ (UNCHANGED blame \/ Blame(c, "half"))
Records(c, l, r, m) == At(c, l) /\ Record(c, r) /\ Move(c, m) /\ UNCHANGED <<undo, blame>>
GoesOn(c, l, m) == At(c, l) /\ Move(c, m) /\ UNCHANGED <<recorded, undo, blame>>
TakesUndo(c) == /\ At(c, "undo") /\ undo[c] # <<>> /\ undo' = [undo EXCEPT ![c] = Tail(@)]
                /\ UNCHANGED <<npc, recorded>> /\ (UNCHANGED blame \/ Blame(c, "undo") \/ Blame(c, "cut"))
Ends(c) == /\ \E l \in {"bare", "closed", "refused"} : Move(c, l)
           /\ UNCHANGED <<recorded, undo>> /\ (UNCHANGED blame \/ Blame(c, "crash"))

\* What a step does to the control state of its container.
LEMMA Moves ==
  ASSUME NEW c \in Containers, NetworkStep(c)
  PROVE  \/ Fails(c) \/ TakesUndo(c) \/ Ends(c)
         \/ Records(c, "reserve", "ip", "link") \/ Records(c, "link", "veth", "configure")
         \/ Records(c, "nat", "masquerade", "forward") \/ Records(c, "forward", "forward", "port")
         \/ Records(c, "port", "port", "egress")
         \/ GoesOn(c, "configure", "nat") \/ GoesOn(c, "egress", "running")
<1>1. CASE ReserveIp(c)
  BY <1>1 DEF ReserveIp, Records, Ends
<1>2. CASE CreateLinks(c)
  BY <1>2 DEF CreateLinks, SetupFails, Records, Fails
<1>3. CASE ConfigureLinks(c)
  BY <1>3 DEF ConfigureLinks, SetupFails, GoesOn, Fails
<1>4. CASE EnableNat(c)
  BY <1>4 DEF EnableNat, SetupFails, Records, Fails
<1>5. CASE EnableForwarding(c)
  BY <1>5, Zenon DEF EnableForwarding, SetupFails, Records, Fails
<1>6. CASE ForwardPort(c)
  BY <1>6 DEF ForwardPort, SetupFails, Records, Fails
<1>7. CASE ApplyEgress(c)
  BY <1>7 DEF ApplyEgress, GoesOn, Fails
<1>8. CASE EndNetwork(c)
  BY <1>8, Zenon DEF EndNetwork, Fails
<1>9. CASE UndoStep(c)
  <2>1. UNCHANGED blame \/ Blame(c, "undo") \/ Blame(c, "cut")
    <3>1. CASE \E o \in ReleaseOutcomes : IF o.ok THEN UNCHANGED <<faults, blame>>
                                          ELSE Fault /\ Blame(c, IF o.cut THEN "cut" ELSE "undo")
      <4>1. PICK o \in ReleaseOutcomes : IF o.ok THEN UNCHANGED <<faults, blame>>
                                         ELSE Fault /\ Blame(c, IF o.cut THEN "cut" ELSE "undo")
        BY <3>1
      <4>2. UNCHANGED blame \/ Blame(c, IF o.cut THEN "cut" ELSE "undo")
        BY <4>1, Zenon
      <4>3. (IF o.cut THEN "cut" ELSE "undo") = "cut" \/ (IF o.cut THEN "cut" ELSE "undo") = "undo"
        BY Zenon
      <4> QED BY <4>2, <4>3, ZenonT(60)
    <3> QED BY <1>9, <3>1, ZenonT(60) DEF UndoStep
  <2> QED BY <1>9, <2>1, ZenonT(60) DEF UndoStep, TakesUndo
<1>10. CASE UndoDone(c)
  BY <1>10, Zenon DEF UndoDone, Ends
<1>11. CASE NetworkCrash(c)
  BY <1>11 DEF NetworkCrash, Ends
<1> QED BY <1>1, <1>2, <1>3, <1>4, <1>5, <1>6, <1>7, <1>8, <1>9, <1>10, <1>11, ZenonT(60) DEF NetworkStep

\* StagesInOrder for one container.
Staged(c) ==
  /\ InSetup(c) => recorded[c] = DoneAt(npc[c]) /\ Clean(c)
  /\ At(c, "undo") => /\ undo[c] \in Seq(recorded[c])
                      /\ \A i, j \in 1..Len(undo[c]) : undo[c][i] = undo[c][j] => i = j

\* What is recorded when a step of setup begins: each step adds what it sets up.
LEMMA DoneTable ==
  /\ {"reserve", "link", "configure", "nat", "forward", "port", "egress", "running"} = SetupSteps
  /\ DoneAt("link") = DoneAt("reserve") \cup {"ip"}
  /\ DoneAt("configure") = DoneAt("link") \cup {"veth"} /\ DoneAt("nat") = DoneAt("configure")
  /\ DoneAt("forward") = DoneAt("nat") \cup {"masquerade"}
  /\ DoneAt("port") = DoneAt("forward") \cup {"forward"}
  /\ DoneAt("egress") = DoneAt("port") \cup {"port"} /\ DoneAt("running") = DoneAt("egress")
BY DEF SetupSteps, DoneAt, Resources

\* Setup goes through its stages in order; an undo takes each step once.
LEMMA StagesStep ==
  ASSUME BridgeTypeOK, StagesInOrder, NEW c \in Containers, NetworkStep(c)
  PROVE  StagesInOrder'
<1>0. SameElsewhere(c) /\ recorded[c] \subseteq Resources
  BY StepElsewhere, ZenonT(60) DEF BridgeTypeOK
<1>1. Staged(c) /\ \A d \in Containers \ {c} : Staged(d)'
  BY <1>0 DEF SameElsewhere, StagesInOrder, Staged, InSetup, At, Clean
<1>2. ASSUME Fails(c)
      PROVE  Staged(c)'
  <2>1. npc'[c] = "undo" /\ (undo'[c] = RollbackOrder(c) \/ undo'[c] = CleanupOrder(c)) /\ recorded'[c] = recorded[c]
    BY <1>2 DEF BridgeTypeOK, Fails, StartUndo, Move
  <2>2. Lists(undo'[c], recorded[c])
    BY <1>0, <2>1, OrdersList, ZenonT(60)
  <2> QED BY <2>1, <2>2, ZenonT(60) DEF Staged, InSetup, SetupSteps, At, Lists
<1>3. ASSUME UNCHANGED blame, NEW l \in SetupSteps, Move(c, l), InSetup(c),
             recorded'[c] = DoneAt(l)
      PROVE  Staged(c)'
  <2>1. npc'[c] = l /\ blame'[c] = blame[c] /\ Clean(c)
    BY <1>1, <1>3, Zenon DEF BridgeTypeOK, Move, Staged
  <2>2. ~At(c, "undo")' /\ Clean(c)'
    BY <1>3, <2>1 DEF SetupSteps, At, Clean
  <2> QED BY <1>3, <2>1, <2>2, Zenon DEF Staged
<1>4. ASSUME NEW l \in SetupSteps, NEW r, NEW m \in SetupSteps, Records(c, l, r, m),
             DoneAt(m) = DoneAt(l) \cup {r}
      PROVE  Staged(c)'
  <2>1. npc[c] = l /\ InSetup(c) /\ recorded[c] = DoneAt(l)
    BY <1>1, <1>4, Zenon DEF Records, At, InSetup, Staged
  <2>2. recorded'[c] = recorded[c] \cup {r}
    BY <1>4, Zenon DEF BridgeTypeOK, Records, Record
  <2> QED BY <1>3, <1>4, <2>1, <2>2, Zenon DEF Records
<1>5. ASSUME Records(c, "reserve", "ip", "link")
      PROVE  Staged(c)'
  BY <1>4, <1>5, DoneTable, Zenon
<1>6. ASSUME Records(c, "link", "veth", "configure")
      PROVE  Staged(c)'
  BY <1>4, <1>6, DoneTable, Zenon
<1>7. ASSUME Records(c, "nat", "masquerade", "forward")
      PROVE  Staged(c)'
  BY <1>4, <1>7, DoneTable, Zenon
<1>8. ASSUME Records(c, "forward", "forward", "port")
      PROVE  Staged(c)'
  BY <1>4, <1>8, DoneTable, Zenon
<1>9. ASSUME Records(c, "port", "port", "egress")
      PROVE  Staged(c)'
  BY <1>4, <1>9, DoneTable, Zenon
<1>10. ASSUME GoesOn(c, "configure", "nat")
       PROVE  Staged(c)'
  <2>1. InSetup(c) /\ recorded'[c] = DoneAt("nat")
    BY <1>1, <1>10, DoneTable, Zenon DEF GoesOn, Staged, InSetup, At
  <2> QED BY <1>3, <1>10, <2>1, DoneTable, Zenon DEF GoesOn
<1>11. ASSUME GoesOn(c, "egress", "running")
       PROVE  Staged(c)'
  <2>1. InSetup(c) /\ recorded'[c] = DoneAt("running")
    BY <1>1, <1>11, DoneTable, Zenon DEF GoesOn, Staged, InSetup, At
  <2> QED BY <1>3, <1>11, <2>1, DoneTable, Zenon DEF GoesOn
<1>12. ASSUME TakesUndo(c)
       PROVE  Staged(c)'
  <2>0. At(c, "undo") /\ undo[c] # <<>> /\ undo' = [undo EXCEPT ![c] = Tail(@)] /\ UNCHANGED <<npc, recorded>>
    BY <1>12, Zenon DEF TakesUndo
  <2>1. /\ undo[c] \in Seq(recorded[c]) /\ \A i, j \in 1..Len(undo[c]) : undo[c][i] = undo[c][j] => i = j
        /\ undo'[c] = Tail(undo[c]) /\ npc'[c] = "undo"
    BY <1>1, <2>0 DEF Staged, BridgeTypeOK, At
  <2>2. Tail(undo[c]) \in Seq(recorded[c])
        /\ \A i, j \in 1..Len(Tail(undo[c])) : Tail(undo[c])[i] = Tail(undo[c])[j] => i = j
    BY <2>0, <2>1, ListTaken, ZenonT(60)
  <2> QED BY <2>0, <2>1, <2>2, ZenonT(60) DEF Staged, InSetup, SetupSteps, At
<1>13. ASSUME Ends(c)
       PROVE  Staged(c)'
  BY <1>13 DEF BridgeTypeOK, Ends, Move, Staged, InSetup, SetupSteps, At
<1>14. Staged(c)'
  BY <1>2, <1>5, <1>6, <1>7, <1>8, <1>9, <1>10, <1>11, <1>12, <1>13, Moves, Zenon
<1> QED BY <1>1, <1>14, ZenonT(60) DEF StagesInOrder, Staged

\* What belongs to one process, and what only grows or stays.
LEMMA OwnTyped ==
  ASSUME BridgeTypeOK, NEW c \in Containers, NetworkStep(c)
  PROVE  /\ npc' \in [Containers -> {"reserve", "link", "configure", "nat", "forward", "port",
                                     "egress", "running", "bare", "undo", "closed", "refused"}]
         /\ recorded' \in [Containers -> SUBSET Resources] /\ undo' \in [Containers -> Seq(Resources)]
         /\ blame' \in [Containers -> SUBSET {"crash", "cut", "half", "undo"}]
<1>1. \E l \in {"link", "configure", "nat", "forward", "port", "egress", "running", "bare", "undo",
                "closed", "refused"} : npc' = npc \/ Move(c, l)
  BY Moves, Zenon DEF Fails, StartUndo, Records, GoesOn, TakesUndo, Ends
<1>2. \E r \in Resources : recorded' = recorded \/ Record(c, r)
  BY Moves, ZenonT(60) DEF Fails, Records, GoesOn, TakesUndo, Ends, Resources
<1>7. \E b \in {"crash", "cut", "half", "undo"} : blame' = blame \/ Blame(c, b)
  BY Moves DEF Fails, Records, GoesOn, TakesUndo, Ends
<1>8. \E s \in Seq(Resources) : undo' = undo \/ undo' = [undo EXCEPT ![c] = s]
  <2>1. recorded[c] \subseteq Resources /\ undo[c] \in Seq(Resources)
    BY Zenon DEF BridgeTypeOK
  <2>2. RollbackOrder(c) \in Seq(Resources) /\ CleanupOrder(c) \in Seq(Resources)
    BY <2>1, OrdersList DEF Lists
  <2>3. undo[c] # <<>> => Tail(undo[c]) \in Seq(Resources)
    BY <2>1
  <2> QED BY <2>1, <2>2, <2>3, Moves, ZenonT(60) DEF Fails, StartUndo, Records, GoesOn, TakesUndo, Ends
<1>3. npc' \in [Containers -> {"reserve", "link", "configure", "nat", "forward", "port",
                               "egress", "running", "bare", "undo", "closed", "refused"}]
  BY <1>1, ZenonT(60) DEF BridgeTypeOK, Move
<1>4. recorded' \in [Containers -> SUBSET Resources]
  <2>1. PICK r \in Resources : recorded' = recorded \/ recorded' = [recorded EXCEPT ![c] = recorded[c] \cup {r}]
    BY <1>2 DEF Record
  <2>2. recorded \in [Containers -> SUBSET Resources] /\ recorded[c] \cup {r} \in SUBSET Resources
    BY DEF BridgeTypeOK
  <2> QED BY <2>1, <2>2
<1>5. blame' \in [Containers -> SUBSET {"crash", "cut", "half", "undo"}]
  <2>1. PICK b \in {"crash", "cut", "half", "undo"} : blame' = blame \/ blame' = [blame EXCEPT ![c] = blame[c] \cup {b}]
    BY <1>7 DEF Blame
  <2>2. /\ blame \in [Containers -> SUBSET {"crash", "cut", "half", "undo"}]
        /\ blame[c] \cup {b} \in SUBSET {"crash", "cut", "half", "undo"}
    BY DEF BridgeTypeOK
  <2> QED BY <2>1, <2>2
<1>6. undo' \in [Containers -> Seq(Resources)]
  BY <1>8, ZenonT(60) DEF BridgeTypeOK
<1> QED BY <1>3, <1>4, <1>5, <1>6, ZenonT(60)

\* Every step keeps the types, given that what it leaves is accounted for.
LEMMA TypesStep ==
  ASSUME BridgeTypeOK, NEW c \in Containers, NetworkStep(c), Accounted'
  PROVE  BridgeTypeOK'
<1>1. /\ lock_dir \in [Containers -> Addresses \cup {"none"}] /\ container_ip \in [Containers -> Addresses \cup {"none"}]
      /\ egress \in [Containers -> {"open", "partial", "full"}] /\ veths \subseteq Containers /\ bridge_up \in BOOLEAN
      /\ faults \in 0..MaxFaults /\ isolated \in [Containers -> BOOLEAN]
  BY DEF BridgeTypeOK
<1>2. lock_dir' = lock_dir \/ \E a \in Addresses \cup {"none"} : lock_dir' = [lock_dir EXCEPT ![c] = a]
  <2>1. CASE UndoStep(c)
    BY <2>1, Zenon DEF UndoStep, UndoIp, UndoMasquerade, UndoVeth, UndoPort, UndoHalfPort
  <2>2. CASE ~UndoStep(c)
    BY <2>2, ZenonT(60) DEF NetworkStep, ReserveIp, CreateLinks, ConfigureLinks, EnableNat, EnableForwarding, ForwardPort,
                ApplyEgress, EndNetwork, UndoDone, NetworkCrash, hostState
  <2> QED BY <2>1, <2>2
<1>3. container_ip' = container_ip \/ \E a \in Addresses : container_ip' = [container_ip EXCEPT ![c] = a]
  BY Zenon DEF NetworkStep, ReserveIp, CreateLinks, ConfigureLinks, EnableNat, EnableForwarding, ForwardPort,
         ApplyEgress, EndNetwork, UndoStep, UndoDone, NetworkCrash
<1>4. egress' = egress \/ \E e \in {"open", "partial", "full"} : egress' = [egress EXCEPT ![c] = e]
  BY Zenon DEF NetworkStep, ReserveIp, CreateLinks, ConfigureLinks, EnableNat, EnableForwarding, ForwardPort,
         ApplyEgress, EndNetwork, UndoStep, UndoDone, NetworkCrash
<1>5. veths' \subseteq Containers
  <2>1. CASE UndoStep(c)
    BY <1>1, <2>1, ZenonT(60) DEF UndoStep, UndoIp, UndoMasquerade, UndoVeth, UndoPort, UndoHalfPort
  <2>2. CASE ~UndoStep(c)
    BY <1>1, <2>2, ZenonT(60) DEF NetworkStep, ReserveIp, CreateLinks, ConfigureLinks, EnableNat, EnableForwarding, ForwardPort,
                ApplyEgress, EndNetwork, UndoDone, NetworkCrash, hostState
  <2> QED BY <2>1, <2>2, Zenon
<1>6. isolated' = isolated /\ bridge_up' \in BOOLEAN
  BY <1>1, ZenonT(60) DEF NetworkStep, ReserveIp, CreateLinks, ConfigureLinks, EnableNat, EnableForwarding, ForwardPort,
         ApplyEgress, EndNetwork, UndoStep, UndoDone, NetworkCrash, hostState
<1>7. faults' = faults \/ Fault
  BY Zenon DEF NetworkStep, ReserveIp, CreateLinks, ConfigureLinks, EnableNat, EnableForwarding, ForwardPort,
         ApplyEgress, EndNetwork, UndoStep, UndoDone, NetworkCrash, SetupFails
<1>8. faults' \in 0..MaxFaults
  BY <1>1, <1>7, BridgeAssumption DEF Fault
<1>9. /\ lock_dir' \in [Containers -> Addresses \cup {"none"}] /\ container_ip' \in [Containers -> Addresses \cup {"none"}]
      /\ egress' \in [Containers -> {"open", "partial", "full"}]
  BY <1>1, <1>2, <1>3, <1>4
<1> QED BY <1>1, <1>5, <1>6, <1>8, <1>9, OwnTyped, Zenon DEF BridgeTypeOK, Accounted

\* No strict container passes the egress step without its policy.
LEMMA StrictStep ==
  ASSUME BridgeTypeOK, StrictNetwork, StagesInOrder, StagesInOrder', NEW c \in Containers, NetworkStep(c)
  PROVE  StrictNetwork'
<1>0. SameElsewhere(c) /\ isolated' = isolated
  BY StepElsewhere, Zenon
<1>1. \A d \in Containers \ {c} : isolated'[d] =>
         npc'[d] # "bare" /\ (npc'[d] = "running" => egress'[d] = "full" /\ recorded'[d] = Resources)
  BY <1>0 DEF SameElsewhere, StrictNetwork
<1>2. isolated[c] /\ npc'[c] = "running" => recorded'[c] = Resources
  BY Zenon DEF StagesInOrder, InSetup, SetupSteps, DoneAt
<1>3. ASSUME isolated[c]
      PROVE  npc'[c] # "bare" /\ (npc'[c] = "running" => egress'[c] = "full")
  <2>1. CASE ReserveIp(c)
    BY <1>3, <2>1, ZenonT(60) DEF ReserveIp, Move, BridgeTypeOK
  <2>2. CASE CreateLinks(c) \/ ConfigureLinks(c) \/ EnableNat(c) \/ ForwardPort(c)
    BY <2>2, ZenonT(60) DEF CreateLinks, ConfigureLinks, EnableNat, ForwardPort, SetupFails, StartUndo, Move, BridgeTypeOK
  <2>3. CASE EnableForwarding(c)
    <3>1. Move(c, "port") \/ Move(c, "undo")
      BY <2>3, Zenon DEF EnableForwarding, SetupFails, StartUndo
    <3> QED BY <3>1 DEF Move, BridgeTypeOK
  <2>4. CASE ApplyEgress(c)
    BY <1>3, <2>4 DEF ApplyEgress, StartUndo, Move, BridgeTypeOK
  <2>5. CASE EndNetwork(c)
    BY <2>5, Zenon DEF EndNetwork, StartUndo, Move, BridgeTypeOK
  <2>6. CASE UndoStep(c)
    BY <2>6, Zenon DEF UndoStep, At
  <2>7. CASE UndoDone(c) \/ NetworkCrash(c)
    BY <1>3, <2>7, ZenonT(60) DEF UndoDone, NetworkCrash, Move, BridgeTypeOK
  <2> QED BY <2>1, <2>2, <2>3, <2>4, <2>5, <2>6, <2>7, ZenonT(60) DEF NetworkStep
<1> QED BY <1>0, <1>1, <1>2, <1>3, Zenon DEF StrictNetwork
---------------------------------------------------------------------------
(* What the account says of every state, and the theorem.                  *)

\* The facts on sizes that NetworkSteps assumes, from the finiteness of Containers.
LEMMA SizesOfContainers == SizesCount
<1>0. IsFiniteSet(Containers) /\ Cardinality(Containers) \in Nat
  BY BridgeAssumption, FS_CardinalityType, Zenon
<1>1. ASSUME NEW S \in SUBSET Containers
      PROVE  /\ IsFiniteSet(S) /\ Cardinality(S) \in Nat /\ Cardinality(S) <= Cardinality(Containers)
             /\ Cardinality(S) = 0 <=> S = {}
  <2>1. IsFiniteSet(S) /\ Cardinality(S) <= Cardinality(Containers)
    BY <1>0, FS_Subset
  <2>2. Cardinality(S) \in Nat /\ (Cardinality(S) = 0 <=> S = {})
    BY <2>1, FS_CardinalityType, FS_EmptySet, Zenon
  <2> QED BY <2>1, <2>2, Zenon
<1>2. ASSUME NEW S \in SUBSET Containers, NEW T \in SUBSET Containers, S \subseteq T
      PROVE  Cardinality(S) <= Cardinality(T)
  BY <1>1, <1>2, FS_Subset, ZenonT(60)
<1>3. ASSUME NEW S \in SUBSET Containers, NEW T \in SUBSET Containers, NEW c \in Containers, S \subseteq T \cup {c}
      PROVE  Cardinality(S) <= Cardinality(T) + 1
  <2>1. /\ T \cup {c} \in SUBSET Containers
        /\ Cardinality(T \cup {c}) = IF c \in T THEN Cardinality(T) ELSE Cardinality(T) + 1
    BY <1>1, FS_AddElement, Zenon
  <2>2. Cardinality(S) <= Cardinality(T \cup {c})
    BY <1>2, <1>3, <2>1, ZenonT(60)
  <2> QED BY <1>1, <2>1, <2>2
<1>4. ASSUME NEW S \in SUBSET Containers, NEW T \in SUBSET Containers, NEW c \in T, S \subseteq T \ {c}
      PROVE  Cardinality(S) + 1 <= Cardinality(T)
  <2>1. T \ {c} \in SUBSET Containers /\ Cardinality(T \ {c}) = Cardinality(T) - 1
    BY <1>1, FS_RemoveElement, Zenon
  <2>2. Cardinality(S) <= Cardinality(T \ {c})
    BY <1>2, <1>4, <2>1, Zenon
  <2> QED BY <1>1, <2>1, <2>2
<1> QED BY <1>0, <1>1, <1>2, <1>3, <1>4, Zenon DEF SizesCount

\* What the account says once every setup and undo is over: nothing is left, unless
\* somebody died or a removal failed; and while a container is up, forwarding is on.
LEMMA AccountSays ==
  ASSUME BridgeTypeOK, StagesInOrder, ResourcesOwned, ReferencesCounted
  PROVE  AddressesUnique /\ ForwardingWhileActive /\ CleanedUp
<1>1. AddressesUnique
  BY Zenon DEF AddressesUnique, Active, ResourcesOwned, AddressesOwned, InSetup, SetupSteps, At
<1>2. ForwardingWhileActive
  <2> SUFFICES ASSUME NEW c \in Containers, Active(c), \A d \in Containers : "cut" \notin blame[d]
               PROVE  ip_forward = "1"
    BY Zenon DEF ForwardingWhileActive
  <2>1. InSetup(c) /\ recorded[c] = Resources
    BY DEF Active, InSetup, SetupSteps, StagesInOrder, DoneAt
  <2>2. c \in PendingFor("forward")
    BY <2>1, Zenon DEF PendingFor, Pending, Resources
  <2> QED BY <2>2, Zenon DEF ReferencesCounted
<1>3. CleanedUp
  <2> SUFFICES ASSUME \A c \in Containers : npc[c] \in {"closed", "refused", "bare"} /\ blame[c] = {}
               PROVE  /\ lock_dir = [c \in Containers |-> "none"]
                      /\ veths = {} /\ masquerade = 0 /\ dnat = [rule \in DnatRules |-> 0]
                      /\ ip_forward = HostValue /\ refs.kind = "none"
    BY Zenon DEF CleanedUp
  <2>1. \A c \in Containers : \A r : ~Pending(c, r) /\ ~Kept(c, r) /\ Clean(c)
    BY Zenon DEF Pending, Kept, Clean, InSetup, SetupSteps, At
  <2>2. lock_dir = [c \in Containers |-> "none"]
    BY <2>1, Zenon DEF ResourcesOwned, AddressesOwned, BridgeTypeOK
  <2>3. veths = {}
    BY <2>1, Zenon DEF ResourcesOwned, BridgeTypeOK
  <2>4. KeptBy("masquerade") = {} /\ KeptBy("forward") = {}
    BY <2>1, Zenon DEF KeptBy
  <2>5. Cardinality(KeptBy("masquerade")) = 0 /\ Cardinality(KeptBy("forward")) = 0
    BY <2>4, FS_EmptySet, Zenon
  <2>6. masquerade = 0
    BY <2>5 DEF ResourcesOwned, MasqueradesOwned, BridgeTypeOK
  <2>7. dnat = [rule \in DnatRules |-> 0]
    <3>1. dnat \in [DnatRules -> Nat]
      BY DEF BridgeTypeOK
    <3>2. ASSUME NEW rule \in DnatRules
          PROVE  dnat[rule] = 0
      <4>1. PICK chain \in Chains, a \in Addresses, d \in Containers : rule = <<chain, a, d>>
        BY DEF DnatRules
      <4>2. ~(dnat[rule] > 0) /\ dnat[rule] \in Nat
        BY <2>1, <3>1, <4>1, ZenonT(60) DEF ResourcesOwned, RulesOwned
      <4> QED BY <4>2
    <3> QED BY <3>1, <3>2, Zenon
  <2>8. refs.kind = "none" /\ ip_forward = HostValue
    <3>1. refs.refcount \in Nat
      BY DEF BridgeTypeOK
    <3>2. \A c \in Containers : Clean(c)
      BY <2>1, Zenon
    <3> QED BY <2>5, <3>1, <3>2 DEF ReferencesCounted
  <2> QED BY <2>2, <2>3, <2>6, <2>7, <2>8, ZenonT(60)
<1> QED BY <1>1, <1>2, <1>3, Zenon

\* Before the first setup the host has none of the resources.
LEMMA BridgeStart == BridgeInit => BridgeTypeOK /\ StrictNetwork /\ StagesInOrder /\ ResourcesOwned /\ ReferencesCounted
<1> SUFFICES ASSUME BridgeInit
             PROVE  BridgeTypeOK /\ StrictNetwork /\ StagesInOrder /\ ResourcesOwned /\ ReferencesCounted
  OBVIOUS
<1>1. /\ dnat \in [DnatRules -> Nat]
      /\ \A chain \in Chains, a \in Addresses, c \in Containers : dnat[<<chain, a, c>>] = 0
  BY DEF BridgeInit, DnatRules
<1>2. Cardinality(Containers) \in Nat
  BY BridgeAssumption, FS_CardinalityType, ZenonT(60)
<1>3. BridgeTypeOK
  <2>1. /\ masquerade \in 0..Cardinality(Containers) /\ faults \in 0..MaxFaults /\ ip_forward \in {"0", "1"}
        /\ refs \in [kind : {"none", "torn", "ok"}, refcount : 0..Cardinality(Containers), original : {"0", "1"}]
    BY <1>2, BridgeAssumption DEF BridgeInit, NoRefs
  <2>2. <<>> \in Seq(Resources) /\ undo \in [Containers -> Seq(Resources)]
    BY DEF BridgeInit
  <2>3. /\ lock_dir \in [Containers -> Addresses \cup {"none"}] /\ container_ip \in [Containers -> Addresses \cup {"none"}]
        /\ npc \in [Containers -> {"reserve", "link", "configure", "nat", "forward", "port",
                                   "egress", "running", "bare", "undo", "closed", "refused"}]
        /\ egress \in [Containers -> {"open", "partial", "full"}]
    BY DEF BridgeInit
  <2>4. /\ recorded \in [Containers -> SUBSET Resources]
        /\ blame \in [Containers -> SUBSET {"crash", "cut", "half", "undo"}]
    BY DEF BridgeInit
  <2>5. isolated \in [Containers -> BOOLEAN] /\ bridge_up \in BOOLEAN /\ veths \subseteq Containers
    BY Zenon DEF BridgeInit
  <2> QED BY <1>1, <2>1, <2>2, <2>3, <2>4, <2>5, ZenonT(60) DEF BridgeTypeOK
<1>4. StrictNetwork /\ StagesInOrder
  BY DEF BridgeInit, StrictNetwork, StagesInOrder, InSetup, SetupSteps, At, DoneAt, Clean
<1>5. \A c \in Containers : \A r : ~Pending(c, r) /\ ~Kept(c, r) /\ Clean(c)
  BY DEF BridgeInit, Pending, Kept, Clean
<1>6. PendingFor("masquerade") = {} /\ KeptBy("masquerade") = {} /\ PendingFor("forward") = {}
  BY <1>5 DEF PendingFor, KeptBy
<1>7. Cardinality(PendingFor("masquerade")) = 0 /\ Cardinality(KeptBy("masquerade")) = 0
  BY <1>6, FS_EmptySet, Zenon
<1>8. MasqueradesOwned /\ RulesOwned
  BY <1>1, <1>7 DEF BridgeInit, MasqueradesOwned, RulesOwned
<1>9. AddressesOwned /\ \A c \in veths : Kept(c, "veth")
  BY Zenon DEF BridgeInit, AddressesOwned, At
<1>10. ReferencesCounted
  BY <1>6 DEF BridgeInit, ReferencesCounted, NoRefs
<1> QED BY <1>3, <1>4, <1>8, <1>9, <1>10, ZenonT(60) DEF ResourcesOwned

\* Each step of setup, rollback and cleanup of any container keeps the network sound.
LEMMA BridgeKept ==
  BridgeTypeOK /\ StrictNetwork /\ StagesInOrder /\ ResourcesOwned /\ ReferencesCounted /\ [BridgeNext]_bridgeVars
    => (BridgeTypeOK /\ StrictNetwork /\ StagesInOrder /\ ResourcesOwned /\ ReferencesCounted)'
<1> SUFFICES ASSUME BridgeTypeOK, StrictNetwork, StagesInOrder, ResourcesOwned, ReferencesCounted,
                    [BridgeNext]_bridgeVars
             PROVE  (BridgeTypeOK /\ StrictNetwork /\ StagesInOrder /\ ResourcesOwned /\ ReferencesCounted)'
  OBVIOUS
<1>1. ASSUME NEW c \in Containers, NetworkStep(c)
      PROVE  (BridgeTypeOK /\ StrictNetwork /\ StagesInOrder /\ ResourcesOwned /\ ReferencesCounted)'
  <2>1. Accounted'
    BY <1>1, SizesOfContainers, StepAccounted, Zenon
  <2>2. BridgeTypeOK' /\ StagesInOrder'
    BY <1>1, <2>1, TypesStep, StagesStep, ZenonT(60)
  <2>3. StrictNetwork'
    BY <1>1, <2>2, StrictStep, Zenon
  <2> QED BY <2>1, <2>2, <2>3, Zenon DEF Accounted
<1>2. CASE UNCHANGED bridgeVars
  <2>1. UNCHANGED <<lock_dir, masquerade, dnat, bridge_up, veths, ip_forward, refs, isolated, npc, container_ip,
                    recorded, undo, egress, faults, blame>>
    BY <1>2, Zenon DEF bridgeVars, hostState, own
  <2>2. \A c, r : (Pending(c, r)' <=> Pending(c, r)) /\ (Kept(c, r)' <=> Kept(c, r))
    BY <2>1, Zenon DEF Kept, Pending, InSetup, At, Clean
  <2>3. BridgeTypeOK' /\ StrictNetwork'
    BY <2>1, Zenon DEF BridgeTypeOK, StrictNetwork
  <2>4. StagesInOrder'
    BY <2>1, ZenonT(60) DEF StagesInOrder, InSetup, At, Clean
  <2>5. ResourcesOwned'
    <3>1. AddressesOwned'
      BY <2>1, <2>2, ZenonT(60) DEF ResourcesOwned, AddressesOwned, InSetup, At, Clean
    <3>2. MasqueradesOwned'
      BY <2>1, <2>2, ZenonT(60) DEF ResourcesOwned, MasqueradesOwned, PendingFor, KeptBy
    <3>3. RulesOwned'
      BY <2>1, <2>2, ZenonT(60) DEF ResourcesOwned, RulesOwned, PendingFor, KeptBy, Clean
    <3>4. (\A c \in veths : Kept(c, "veth"))'
      BY <2>1, <2>2, ZenonT(60) DEF ResourcesOwned
    <3> QED
      BY <2>1, <2>2, <3>1, <3>2, <3>3, <3>4, ZenonT(60) DEF ResourcesOwned
  <2>6. ReferencesCounted'
    BY <2>1, <2>2, Zenon DEF ReferencesCounted, PendingFor, KeptBy, Clean
  <2> QED BY <2>3, <2>4, <2>5, <2>6, ZenonT(60)
<1> QED BY <1>1, <1>2, Zenon DEF BridgeNext

\* Kernel bridge networking (network/bridge.rs, egress.rs) for any number of
\* containers, addresses and faults: no two active containers share an address,
\* forwarding is on while one is active, a strict container runs only with its whole
\* egress policy, and when all are gone uninterrupted the host is as it was.
THEOREM NetworkCorrect == BridgeSpec => []NetworkSound
<1>1. BridgeTypeOK /\ StrictNetwork /\ StagesInOrder /\ ResourcesOwned /\ ReferencesCounted => NetworkSound
  BY AccountSays DEF NetworkSound
<1> QED BY <1>1, BridgeStart, BridgeKept, PTL DEF BridgeSpec
=============================================================================
