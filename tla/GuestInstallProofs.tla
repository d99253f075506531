------------------------- MODULE GuestInstallProofs --------------------------
(***************************************************************************)
(* Theorems about GuestInstall, for any boot entries, seeds and number of  *)
(* install requests: the guest drives the server as the abstract install   *)
(* tickets allow; network boot goes first only when the server no longer   *)
(* wants the install that put it there; BootOrder stays a permutation of   *)
(* the firmware's entries in which the disk is reached, and settles; and   *)
(* the rendering of a seed settles and runs its helper in its place.       *)
(***************************************************************************)
EXTENDS GuestInstall, SubsequenceProofs, FiniteSetTheorems,
        SequenceTheorems, WellFoundedInduction, TLAPS

(***************************************************************************)
(* The inductive invariant.  A number that was never drawn is nobody's:    *)
(* neither the ticket, nor the installer's, nor the one remembered in      *)
(* wrote exceeds used, so a new request cannot revive an old install.      *)
(***************************************************************************)
GuestInv ==
    /\ used \in 0..MaxTicket
    /\ ticket \in 0..used
    /\ wrote \in 0..used
    /\ "inst" \in DOMAIN run
    /\ run.inst \in 0..used
    /\ PxeFirstMeansDone

LEMMA Bound == MaxTicket \in Nat
  BY GuestAssumption DEF GuestAssumption

\* What a step of the host may do to the variables that GuestInv is about
HostStep ==
    /\ "inst" \in DOMAIN run'
    /\ run'.inst \in {run.inst, 0, ticket}
    /\ wrote' \in {wrote, 0, run.inst}

\* Either keeping the ticket or losing it, but never drawing one
ServerStep == used' = used /\ ticket' \in {ticket, 0}

\* A host that starts runs no installer.
LEMMA FirmwareIsIdle ==
  \A k : "inst" \in DOMAIN Firmware(k) /\ Firmware(k).inst = 0
  BY DEF Firmware

LEMMA GuestInit == Init => GuestInv
  <1> SUFFICES ASSUME Init PROVE GuestInv
    OBVIOUS
  <1>1. "inst" \in DOMAIN run /\ run.inst = 0
    BY FirmwareIsIdle DEF Init, PowerOn
  <1>2. used = 0 /\ ticket = 0 /\ wrote = 0
    BY DEF Init
  <1> QED BY <1>1, <1>2, Bound
          DEF GuestInv, PxeFirstMeansDone

\* The two ways on from the boot-order helper move the host alone.
LEMMA HelperMovesHost ==
  ASSUME GuestInv, ApplyOrder \/ LeaveOrder PROVE HostStep
  BY DEF GuestInv, ApplyOrder, LeaveOrder, HostStep

LEMMA LeavingKeepsWrote ==
  ASSUME LeaveOrder PROVE wrote' = wrote
  BY DEF LeaveOrder

\* A helper that writes the order for the policy "disk" forgets, or leaves
\* alone, which install put network boot first.
LEMMA DiskPolicyForgets ==
  ASSUME ApplyOrder, run.policy # "pxe" PROVE wrote' \in {wrote, 0}
  BY DEF ApplyOrder

\* A host that moves without writing the order for "pxe" keeps the invariant.
LEMMA QuietStepKeeps ==
  ASSUME GuestInv, HostStep, ServerStep, wrote' \in {wrote, 0} \/ ticket' = 0
  PROVE  GuestInv'
  BY Bound DEF GuestInv, HostStep, ServerStep,
     PxeFirstMeansDone

\* The gate: network boot goes first after a phone-home that has arrived,
\* whatever the server answered.
LEMMA GateKeeps ==
  ASSUME GuestInv, Gate PROVE GuestInv'
  <1>1. CASE PhoneHomeArrives /\ ApplyOrder
    <2>1. HostStep /\ ServerStep /\ ticket' = 0
      BY <1>1, HelperMovesHost DEF PhoneHomeArrives, ServerStep
    <2> QED BY <2>1, QuietStepKeeps
  <1>2. CASE LeaveOrder /\ UNCHANGED server
    <2>1. HostStep /\ ServerStep /\ wrote' = wrote
      BY <1>2, HelperMovesHost, LeavingKeepsWrote DEF server, ServerStep
    <2> QED BY <2>1, QuietStepKeeps
  <1>3. CASE GateUnanswered
    <2>1. ServerStep
      BY <1>3 DEF GateUnanswered, PhoneHomeArrives, ServerStep, server
    <2>2. HostStep /\ wrote' = wrote
      <3>1. CASE run.tries = 2
        <4>1. LeaveOrder
          BY <1>3, <3>1 DEF GateUnanswered
        <4> QED BY <4>1, HelperMovesHost, LeavingKeepsWrote
      <3>2. CASE run.tries # 2
        BY <1>3, <3>2 DEF GateUnanswered, GuestInv, HostStep
      <3> QED BY <3>1, <3>2
    <2> QED BY <2>1, <2>2, QuietStepKeeps
  <1> QED BY <1>1, <1>2, <1>3 DEF Gate

LEMMA GuestNext == GuestInv /\ [Next]_vars => GuestInv'
  <1> SUFFICES ASSUME GuestInv, [Next]_vars PROVE GuestInv'
    OBVIOUS
  <1>1. CASE Request
    BY <1>1, Bound DEF Request, GuestInv,
       PxeFirstMeansDone
  <1>2. CASE Withdraw
    BY <1>2 DEF Withdraw, GuestInv, PxeFirstMeansDone
  <1>3. CASE PowerCycle \/ PickEntry \/ NothingBoots \/ RunReboot
    <2>1. HostStep /\ ServerStep /\ wrote' = wrote
      BY <1>3, FirmwareIsIdle
         DEF PowerCycle, PickEntry, NothingBoots, RunReboot, PowerOn, server,
             HostStep, ServerStep
    <2> QED BY <2>1, QuietStepKeeps
  <1>4. CASE TryEntry
    <2>1. HostStep /\ ServerStep /\ wrote' = wrote
      BY <1>4, FirmwareIsIdle
         DEF TryEntry, PowerOn, HostStep, ServerStep
    <2> QED BY <2>1, QuietStepKeeps
  <1>5. CASE FetchSeed \/ Install
    <2>1. ServerStep /\ wrote' = wrote
      BY <1>5 DEF FetchSeed, Install, server, ServerStep
    <2>2. CASE FetchSeed
      <3>1. HostStep
        BY <2>2 DEF FetchSeed, FetchLinuxSeed, FetchWindowsSeed, HostStep,
           GuestInv
      <3> QED BY <2>1, <3>1, QuietStepKeeps
    <2>3. CASE Install
      <3>1. HostStep
        BY <2>3 DEF Install, PowerOn, Firmware, HostStep, GuestInv
      <3> QED BY <2>1, <3>1, QuietStepKeeps
    <2> QED BY <1>5, <2>2, <2>3
  <1>6. CASE RunPhoneHome \/ RunOther
    <2>1. HostStep /\ ServerStep /\ wrote' = wrote
      BY <1>6 DEF RunPhoneHome, RunOther, RunNext, PhoneHomeArrives, server,
         HostStep, ServerStep, GuestInv
    <2> QED BY <2>1, QuietStepKeeps
  <1>7. CASE HelperSkips
    <2>1. HostStep /\ ServerStep /\ wrote' = wrote
      BY <1>7, HelperMovesHost, LeavingKeepsWrote
         DEF HelperSkips, server, ServerStep
    <2> QED BY <2>1, QuietStepKeeps
  <1>8. CASE HelperStarts
    <2>1. ServerStep
      BY <1>8 DEF HelperStarts, server, ServerStep
    <2>2. HostStep /\ wrote' \in {wrote, 0}
      <3>1. CASE run.policy = "pxe"
        BY <1>8, <3>1 DEF HelperStarts, GuestInv, HostStep
      <3>2. CASE run.policy # "pxe"
        <4>1. ApplyOrder
          BY <1>8, <3>2 DEF HelperStarts
        <4> QED BY <4>1, <3>2, HelperMovesHost, DiskPolicyForgets
      <3> QED BY <3>1, <3>2
    <2> QED BY <2>1, <2>2, QuietStepKeeps
  <1>9. CASE Gate
    BY <1>9, GateKeeps
  <1>10. CASE UNCHANGED vars
    BY <1>10 DEF vars, GuestInv, PxeFirstMeansDone
  <1> QED BY <1>1, <1>2, <1>3, <1>4, <1>5, <1>6, <1>7, <1>8, <1>9, <1>10 DEF Next

LEMMA GuestInvariant == Spec => []GuestInv
  BY GuestInit, GuestNext, PTL DEF Spec

(***************************************************************************)
(* Once a boot-order helper has put network boot first, the server no      *)
(* longer wants the install that the helper belonged to (uefi_order.py,    *)
(* _confirm_pxe), however requests and replies are lost.                   *)
(***************************************************************************)
THEOREM NetworkFirstMeansDone == Spec => []PxeFirstMeansDone
  <1>1. GuestInv => PxeFirstMeansDone
    BY DEF GuestInv
  <1> QED BY <1>1, GuestInvariant, PTL
-----------------------------------------------------------------------------
(* Refinement *)

\* One step of the server as a step of the tickets
LEMMA TicketStep ==
  ASSUME GuestInv,
         NEW n \in 0..MaxTicket,
         n = ticket \/ n > used,
         used' = IF n > used THEN n ELSE used,
         ticket' \in {n, 0},
         given' \in {given, given \union ({n} \ {0})}
  PROVE  Server!Next
  BY DEF Server!Next, Server!MachineStep

\* A ticket is kept or withdrawn, and its installer perhaps handed out.
LEMMA HeldTicketStep ==
  ASSUME GuestInv, ServerStep,
         given' \in {given, given \union ({ticket} \ {0})}
  PROVE  Server!Next
  <1>1. ticket \in 0..MaxTicket /\ ~(ticket > used)
    BY Bound DEF GuestInv
  <1> QED BY <1>1, TicketStep DEF ServerStep

LEMMA GuestSteps == GuestInv /\ [Next]_vars => [Server!Next]_Server!ticketVars
  <1> SUFFICES ASSUME GuestInv, [Next]_vars
               PROVE  Server!Next \/ UNCHANGED server
    BY DEF Server!ticketVars, server
  <1>1. CASE Request
    <2>1. used + 1 \in 0..MaxTicket /\ used + 1 > used
      BY <1>1, Bound DEF Request, GuestInv
    <2> QED BY <1>1, <2>1, TicketStep DEF Request
  <1>2. CASE Withdraw
    BY <1>2, HeldTicketStep DEF Withdraw, ServerStep
  <1>3. CASE TryEntry
    BY <1>3, HeldTicketStep DEF TryEntry, ServerStep
  <1>4. CASE RunPhoneHome
    BY <1>4, HeldTicketStep DEF RunPhoneHome, PhoneHomeArrives, ServerStep
  <1>5. CASE Gate
    BY <1>5, HeldTicketStep DEF Gate, GateUnanswered, PhoneHomeArrives,
       ServerStep
  <1>6. CASE \/ PowerCycle \/ PickEntry \/ NothingBoots \/ FetchSeed
             \/ Install \/ RunOther \/ RunReboot \/ HelperSkips
             \/ HelperStarts
    BY <1>6 DEF PowerCycle, PickEntry, NothingBoots, FetchSeed, Install,
       RunOther, RunReboot, HelperSkips, HelperStarts
  <1>7. CASE UNCHANGED vars
    BY <1>7 DEF vars, server
  <1> QED BY <1>1, <1>2, <1>3, <1>4, <1>5, <1>6, <1>7 DEF Next

(***************************************************************************)
(* The guest, its firmware and the answers it gets are a behaviour of the  *)
(* abstract install tickets, which MachineLifecycle implements: nothing in *)
(* this module relies on a server that the inventory service is not.       *)
(***************************************************************************)
THEOREM GuestKeepsTickets == Spec => KeepsTickets
  <1>1. Init => Server!Init
    BY DEF Init, Server!Init
  <1> QED BY <1>1, GuestInvariant, GuestSteps, PTL
      DEF Spec, KeepsTickets, Server!Spec
-----------------------------------------------------------------------------
(* Sequences in buckets, as sequences sorted by the bucket *)

\* p is the list of the numbers in D, those of a smaller b first, and by size
\* where b is the same.
SortedBy(p, b, D) ==
    /\ p \in Seq(D)
    /\ \A k \in D : \E i \in DOMAIN p : p[i] = k
    /\ \A i, j \in DOMAIN p :
           i < j => \/ b[p[i]] < b[p[j]]
                    \/ b[p[i]] = b[p[j]] /\ p[i] < p[j]

\* t has the elements of s at the positions D, sorted by b
Arranged(t, s, b, D) == \E p : SortedBy(p, b, D) /\ t = Through(s, p)

LEMMA PickedArranged ==
  ASSUME NEW S, NEW s \in Seq(S), NEW keep \in SUBSET (1..Len(s)), NEW b,
         \A x, y \in keep : b[x] = b[y]
  PROVE  Arranged(Picked(s, keep), s, b, keep)
  <1>1. PICK p : Lists(p, keep) /\ Picked(s, keep) = Through(s, p)
    BY PickedThrough
  <1>2. SortedBy(p, b, keep)
    <2>1. \A i \in DOMAIN p : p[i] \in keep
      BY <1>1 DEF Lists
    <2> QED BY <1>1, <2>1 DEF Lists, SortedBy
  <1> QED BY <1>1, <1>2 DEF Arranged

LEMMA ArrangedJoin ==
  ASSUME NEW S, NEW s \in Seq(S), NEW n \in Nat, NEW b \in [1..Len(s) -> Nat],
         NEW D \in SUBSET (1..Len(s)), NEW E \in SUBSET (1..Len(s)),
         \A x \in D : \A y \in E : b[x] < b[y],
         NEW t, NEW u, Arranged(t, s, b, D), Arranged(u, s, b, E)
  PROVE  Arranged(t \o u, s, b, D \union E)
  <1>1. PICK p : SortedBy(p, b, D) /\ t = Through(s, p)
    BY DEF Arranged
  <1>2. PICK q : SortedBy(q, b, E) /\ u = Through(s, q)
    BY DEF Arranged
  <1> DEFINE r == p \o q
  <1>3. p \in Seq(D) /\ q \in Seq(E)
    BY <1>1, <1>2 DEF SortedBy
  <1>4. /\ r \in Seq(D \union E)
        /\ Len(p) \in Nat /\ Len(q) \in Nat /\ DOMAIN p = 1..Len(p)
        /\ DOMAIN q = 1..Len(q) /\ DOMAIN r = 1..(Len(p) + Len(q))
        /\ \A i \in 1..Len(p) : r[i] = p[i] /\ p[i] \in D
        /\ \A i \in 1..Len(q) : r[i + Len(p)] = q[i] /\ q[i] \in E
    <2>1. p \in Seq(D \union E) /\ q \in Seq(D \union E)
      BY <1>3
    <2>2. \A i \in 1..Len(q) : i + Len(p) - Len(p) = i
      BY <2>1
    <2> QED BY <1>3, <2>1, <2>2
  <1>5. \A i \in DOMAIN r : \/ i \in 1..Len(p)
                            \/ i > Len(p) /\ i - Len(p) \in 1..Len(q)
                                 /\ r[i] = q[i - Len(p)] /\ r[i] \in E
    <2> SUFFICES ASSUME NEW i \in DOMAIN r, i \notin 1..Len(p)
                 PROVE  /\ i > Len(p) /\ i - Len(p) \in 1..Len(q)
                        /\ r[i] = q[i - Len(p)] /\ r[i] \in E
      OBVIOUS
    <2> HIDE DEF r
    <2>1. i \in Int /\ i > Len(p) /\ i - Len(p) \in 1..Len(q)
      BY <1>4
    <2>2. i = (i - Len(p)) + Len(p)
      BY <1>4, <2>1
    <2> QED BY <1>4, <2>1, <2>2
  <1>6. SortedBy(r, b, D \union E)
    <2>1. \A k \in D \union E : \E i \in DOMAIN r : r[i] = k
      <3>1. ASSUME NEW k \in D PROVE \E i \in DOMAIN r : r[i] = k
        <4>1. PICK i \in DOMAIN p : p[i] = k
          BY <1>1 DEF SortedBy
        <4> HIDE DEF r
        <4> QED BY <1>4, <4>1
      <3>2. ASSUME NEW k \in E PROVE \E i \in DOMAIN r : r[i] = k
        <4>1. PICK i \in DOMAIN q : q[i] = k
          BY <1>2 DEF SortedBy
        <4>2. i + Len(p) \in DOMAIN r /\ r[i + Len(p)] = k
          <5> HIDE DEF r
          <5> QED BY <1>4, <4>1
        <4> QED BY <4>2
      <3> QED BY <3>1, <3>2
    <2>2. ASSUME NEW i \in DOMAIN r, NEW j \in DOMAIN r, i < j
          PROVE  \/ b[r[i]] < b[r[j]]
                 \/ b[r[i]] = b[r[j]] /\ r[i] < r[j]
      <3> HIDE DEF r
      <3>1. CASE i \in 1..Len(p) /\ j \in 1..Len(p)
        <4>1. r[i] = p[i] /\ r[j] = p[j] /\ i \in DOMAIN p /\ j \in DOMAIN p
          BY <1>4, <3>1
        <4> QED BY <1>1, <2>2, <4>1 DEF SortedBy
      <3>2. CASE i \in 1..Len(p) /\ j \notin 1..Len(p)
        <4>1. r[i] \in D /\ r[j] \in E
          BY <1>4, <1>5, <3>2
        <4> QED BY <4>1
      <3>3. CASE i \notin 1..Len(p) /\ j \notin 1..Len(p)
        <4>1. i - Len(p) < j - Len(p)
          BY <1>4, <1>5, <2>2, <3>3
        <4>2. /\ r[i] = q[i - Len(p)] /\ i - Len(p) \in DOMAIN q
              /\ r[j] = q[j - Len(p)] /\ j - Len(p) \in DOMAIN q
          BY <1>4, <1>5, <3>3
        <4> QED BY <1>2, <4>1, <4>2 DEF SortedBy
      <3>4. CASE i \notin 1..Len(p) /\ j \in 1..Len(p)
        BY <1>4, <1>5, <2>2, <3>4
      <3> QED BY <3>1, <3>2, <3>3, <3>4
    <2> QED BY <1>4, <2>1, <2>2 DEF SortedBy
  <1>7. t \o u = Through(s, r)
    <2> DEFINE v == t \o u
    <2>1. /\ t \in Seq(S) /\ Len(t) = Len(p) /\ DOMAIN t = 1..Len(p)
          /\ \A i \in 1..Len(p) : t[i] = s[p[i]]
      <3>1. \A i \in 1..Len(p) : p[i] \in 1..Len(s)
        BY <1>4
      <3> QED BY <1>1, <1>4, <3>1 DEF Through
    <2>2. /\ u \in Seq(S) /\ Len(u) = Len(q) /\ DOMAIN u = 1..Len(q)
          /\ \A i \in 1..Len(q) : u[i] = s[q[i]]
      <3>1. \A i \in 1..Len(q) : q[i] \in 1..Len(s)
        BY <1>4
      <3> QED BY <1>2, <1>4, <3>1 DEF Through
    <2>3. /\ v \in Seq(S) /\ Len(v) = Len(p) + Len(q)
          /\ \A i \in 1..(Len(p) + Len(q)) :
                 v[i] = IF i <= Len(p) THEN t[i] ELSE u[i - Len(p)]
      <3>1. t \in Seq(S) /\ u \in Seq(S)
        BY <2>1, <2>2
      <3>2. /\ v \in Seq(S) /\ Len(v) = Len(t) + Len(u)
            /\ \A i \in 1..(Len(t) + Len(u)) :
                   v[i] = IF i <= Len(t) THEN t[i] ELSE u[i - Len(t)]
        BY <3>1, ConcatProperties
      <3> HIDE DEF v
      <3> QED BY <2>1, <2>2, <3>2
    <2>4. DOMAIN v = 1..(Len(p) + Len(q)) /\ \A i \in 1..Len(p) : v[i] = t[i]
      <3> HIDE DEF v
      <3> QED BY <1>4, <2>3
    <2>5. \A i \in DOMAIN r : i \notin 1..Len(p) => v[i] = u[i - Len(p)]
      <3> HIDE DEF v, r
      <3>1. \A i \in DOMAIN r : i \in 1..(Len(p) + Len(q))
                                /\ (i \notin 1..Len(p) => ~(i <= Len(p)))
        BY <1>4
      <3> QED BY <2>3, <3>1
    <2>6. \A i \in DOMAIN r : v[i] = s[r[i]]
      <3> SUFFICES ASSUME NEW i \in DOMAIN r PROVE v[i] = s[r[i]]
        OBVIOUS
      <3> HIDE DEF v, r
      <3>1. CASE i \in 1..Len(p)
        BY <1>4, <2>1, <2>4, <3>1
      <3>2. CASE i \notin 1..Len(p)
        <4>1. v[i] = u[i - Len(p)] /\ i - Len(p) \in 1..Len(q)
              /\ r[i] = q[i - Len(p)]
          BY <1>5, <2>5, <3>2
        <4> QED BY <2>2, <4>1
      <3> QED BY <3>1, <3>2
    <2>7. v = [i \in 1..(Len(p) + Len(q)) |-> v[i]]
      <3> HIDE DEF v
      <3>1. v = [i \in DOMAIN v |-> v[i]]
        BY <2>3
      <3> QED BY <2>4, <3>1
    <2>8. v = Through(s, r)
      <3> HIDE DEF v, r
      <3> QED BY <1>4, <2>6, <2>7 DEF Through
    <2> QED BY <2>8
  <1> QED BY <1>6, <1>7 DEF Arranged

\* A list is arranged by a relabelling of the ranks that agrees on it.
LEMMA ArrangedAgree ==
  ASSUME NEW t, NEW s, NEW b, NEW c, NEW D, Arranged(t, s, b, D),
         \A k \in D : b[k] = c[k]
  PROVE  Arranged(t, s, c, D)
  <1>1. PICK p : SortedBy(p, b, D) /\ t = Through(s, p)
    BY DEF Arranged
  <1>2. \A i \in DOMAIN p : p[i] \in D
    BY <1>1 DEF SortedBy
  <1>3. SortedBy(p, c, D)
    BY <1>1, <1>2 DEF SortedBy
  <1> QED BY <1>1, <1>3 DEF Arranged

\* Positions that are sorted by a b that never falls are all in their places.
LEMMA MonotoneStays ==
  ASSUME NEW n \in Nat, NEW b \in [1..n -> Nat], NEW p,
         SortedBy(p, b, 1..n),
         \A i, j \in 1..n : i < j => b[i] <= b[j]
  PROVE  p = [i \in 1..n |-> i]
  <1>1. /\ p \in Seq(1..n) /\ Len(p) \in Nat /\ DOMAIN p = 1..Len(p)
        /\ \A i \in 1..Len(p) : p[i] \in 1..n
    <2>1. p \in Seq(1..n)
      BY DEF SortedBy
    <2> QED BY <2>1
  <1>2. \A i, j \in 1..Len(p) : i < j => p[i] < p[j]
    <2> SUFFICES ASSUME NEW i \in 1..Len(p), NEW j \in 1..Len(p), i < j
                 PROVE  p[i] < p[j]
      OBVIOUS
    <2>1. b[p[i]] < b[p[j]] \/ (b[p[i]] = b[p[j]] /\ p[i] < p[j])
      <3>1. i \in DOMAIN p /\ j \in DOMAIN p
        BY <1>1
      <3> QED BY <3>1 DEF SortedBy
    <2>2. p[i] \in 1..n /\ p[j] \in 1..n
      BY <1>1
    <2>3. p[j] < p[i] => b[p[j]] <= b[p[i]]
      BY <2>2
    <2>4. b[p[i]] \in Nat /\ b[p[j]] \in Nat
      BY <2>2
    <2> QED BY <2>1, <2>2, <2>3, <2>4
  <1>3. \A k \in 1..n : \E i \in 1..Len(p) : p[i] = k
    BY <1>1 DEF SortedBy
  <1> DEFINE Bad == {i \in 1..Len(p) : p[i] # i}
  <1>4. Bad = {}
    <2>1. SUFFICES ASSUME Bad # {} PROVE FALSE
      OBVIOUS
    <2>2. PICK i \in Bad : \A j \in Bad : i <= j
      <3>1. Bad \subseteq Nat
        BY <1>1
      <3> HIDE DEF Bad
      <3> QED BY <2>1, <3>1, LeastExists
    <2>3. /\ i \in 1..Len(p) /\ p[i] # i
          /\ \A j \in 1..Len(p) : j < i => p[j] = j
      BY <1>1, <2>2
    <2> HIDE DEF Bad
    <2>4. p[i] > i
      <3>1. CASE p[i] < i
        <4>1. p[i] \in 1..Len(p)
          BY <1>1, <2>3, <3>1
        <4>2. p[p[i]] = p[i] /\ p[p[i]] < p[i]
          BY <1>1, <1>2, <2>3, <3>1, <4>1
        <4> QED BY <1>1, <4>1, <4>2
      <3> QED BY <1>1, <2>3, <3>1
    <2>5. i \in 1..n
      BY <1>1, <2>3, <2>4
    <2>6. PICK j \in 1..Len(p) : p[j] = i
      BY <1>3, <2>5
    <2>7. CASE j < i
      BY <1>1, <2>3, <2>6, <2>7
    <2>8. CASE j > i
      <3>1. p[i] < p[j]
        BY <1>2, <2>3, <2>8
      <3> QED BY <1>1, <2>3, <2>4, <2>6, <3>1
    <2>9. CASE j = i
      BY <2>3, <2>6, <2>9
    <2> QED BY <1>1, <2>3, <2>6, <2>7, <2>8, <2>9
  <1>5. \A i \in 1..Len(p) : p[i] = i
    BY <1>4
  <1>6. Len(p) = n
    <2>1. Len(p) <= n
      <3>1. CASE Len(p) > 0
        <4>1. Len(p) \in 1..Len(p)
          BY <1>1, <3>1
        <4>2. p[Len(p)] = Len(p) /\ p[Len(p)] \in 1..n
          BY <1>1, <1>5, <4>1
        <4> QED BY <4>2
      <3> QED BY <1>1, <3>1
    <2>2. n <= Len(p)
      <3>1. CASE n > 0
        <4>1. PICK i \in 1..Len(p) : p[i] = n
          BY <1>3, <3>1
        <4> QED BY <1>1, <1>5, <4>1
      <3> QED BY <1>1, <3>1
    <2>3. Len(p) \in Nat
      BY <1>1
    <2> QED BY <2>1, <2>2, <2>3
  <1>7. p = [i \in 1..Len(p) |-> p[i]]
    BY <1>1
  <1> QED BY <1>5, <1>6, <1>7

\* A list whose ranks never fall is arranged as it is.
LEMMA ArrangedStays ==
  ASSUME NEW S, NEW s \in Seq(S), NEW b \in [1..Len(s) -> Nat], NEW t,
         Arranged(t, s, b, 1..Len(s)),
         \A i, j \in 1..Len(s) : i < j => b[i] <= b[j]
  PROVE  t = s
  <1>1. PICK p : SortedBy(p, b, 1..Len(s)) /\ t = Through(s, p)
    BY DEF Arranged
  <1>2. Len(s) \in Nat /\ s = [i \in 1..Len(s) |-> s[i]]
    OBVIOUS
  <1>3. p = [i \in 1..Len(s) |-> i]
    BY <1>1, <1>2, MonotoneStays
  <1>4. t = [i \in 1..Len(s) |-> s[i]]
    BY <1>1, <1>3 DEF Through
  <1> QED BY <1>2, <1>4
-----------------------------------------------------------------------------
(* The boot entries of a listing, and the buckets of the two policies *)

Kinds == {"network", "disk", "other"}

\* What the helpers make of a listing: only a network entry is an IPv4 one.
AreItems(items, S) ==
    /\ items \in Seq([id : S, kind : Kinds, ipv4 : BOOLEAN])
    /\ \A k \in DOMAIN items : items[k].ipv4 => items[k].kind = "network"

\* The place of an item's bucket, by policy
PxeRank(item) ==
    IF item.ipv4 THEN 1 ELSE IF item.kind = "disk" THEN 2
    ELSE IF item.kind = "network" THEN 3 ELSE 4

DiskRank(item) ==
    IF item.kind = "disk" THEN 1 ELSE IF item.kind = "other" THEN 2 ELSE 3

PxeRanks(items) == [k \in 1..Len(items) |-> PxeRank(items[k])]

DiskRanks(items) == [k \in 1..Len(items) |-> DiskRank(items[k])]

\* The ranks when the entry at k goes before all others
FirstRanks(items, k) ==
    [j \in 1..Len(items) |-> IF j = k THEN 0 ELSE PxeRank(items[j])]

LEMMA ItemFacts ==
  ASSUME NEW S, NEW items, AreItems(items, S)
  PROVE  /\ Len(items) \in Nat /\ DOMAIN items = 1..Len(items)
         /\ \A k \in 1..Len(items) :
                /\ items[k] \in [id : S, kind : Kinds, ipv4 : BOOLEAN]
                /\ items[k].kind \in {"network", "disk", "other"}
                /\ items[k].ipv4 \in BOOLEAN
                /\ items[k].ipv4 => items[k].kind = "network"
  <1>1. items \in Seq([id : S, kind : Kinds, ipv4 : BOOLEAN])
    BY DEF AreItems
  <1>2. Len(items) \in Nat /\ DOMAIN items = 1..Len(items)
    BY <1>1
  <1>3. \A k \in 1..Len(items) :
            items[k] \in [id : S, kind : Kinds, ipv4 : BOOLEAN]
    <2> DEFINE T == [id : S, kind : Kinds, ipv4 : BOOLEAN]
    <2>1. items \in Seq(T)
      BY <1>1
    <2> HIDE DEF T
    <2>2. \A k \in 1..Len(items) : items[k] \in T
      BY <2>1
    <2> QED BY <2>2 DEF T
  <1> QED BY <1>2, <1>3 DEF AreItems, Kinds

LEMMA BucketArranged ==
  ASSUME NEW S, NEW items, AreItems(items, S), NEW b, NEW kinds, NEW ipv4,
         \A x, y \in InBucket(items, kinds, ipv4) : b[x] = b[y]
  PROVE  Arranged(Bucket(items, kinds, ipv4), items, b,
                  InBucket(items, kinds, ipv4))
  <1>1. items \in Seq([id : S, kind : Kinds, ipv4 : BOOLEAN])
    BY DEF AreItems
  <1>2. InBucket(items, kinds, ipv4) \in SUBSET (1..Len(items))
    BY ItemFacts DEF InBucket
  <1> QED BY <1>1, <1>2, PickedArranged DEF Bucket

LEMMA PxeArranged ==
  ASSUME NEW S, NEW items, AreItems(items, S)
  PROVE  Arranged(PxeBuckets(items), items, PxeRanks(items), 1..Len(items))
  <1> DEFINE b == PxeRanks(items)
             A == InBucket(items, {"network"}, {TRUE})
             B == InBucket(items, {"disk"}, {FALSE})
             C == InBucket(items, {"network"}, {FALSE})
             D == InBucket(items, {"other"}, {FALSE})
  <1>1. /\ items \in Seq([id : S, kind : Kinds, ipv4 : BOOLEAN])
        /\ Len(items) \in Nat
    BY ItemFacts DEF AreItems
  <1>2. /\ A \subseteq 1..Len(items) /\ B \subseteq 1..Len(items)
        /\ C \subseteq 1..Len(items) /\ D \subseteq 1..Len(items)
        /\ \A k \in 1..Len(items) : k \in A \/ k \in B \/ k \in C \/ k \in D
    <2>1. A \subseteq 1..Len(items) /\ B \subseteq 1..Len(items)
          /\ C \subseteq 1..Len(items) /\ D \subseteq 1..Len(items)
      BY ItemFacts DEF InBucket
    <2>2. ASSUME NEW k \in 1..Len(items) PROVE k \in A \/ k \in B \/ k \in C \/ k \in D
      <3>1. /\ k \in DOMAIN items /\ items[k].kind \in {"network", "disk", "other"}
            /\ items[k].ipv4 \in {TRUE, FALSE}
            /\ items[k].ipv4 => items[k].kind = "network"
        BY ItemFacts
      <3> QED BY <3>1 DEF InBucket
    <2> QED BY <2>1, <2>2
  <1>3. /\ \A k \in A : b[k] = 1
        /\ \A k \in B : b[k] = 2
        /\ \A k \in C : b[k] = 3
        /\ \A k \in D : b[k] = 4
    BY ItemFacts DEF InBucket, PxeRanks, PxeRank
  <1>4. b \in [1..Len(items) -> Nat]
    BY DEF PxeRanks, PxeRank
  <1>5. /\ Arranged(Bucket(items, {"network"}, {TRUE}), items, b, A)
        /\ Arranged(Bucket(items, {"disk"}, {FALSE}), items, b, B)
        /\ Arranged(Bucket(items, {"network"}, {FALSE}), items, b, C)
        /\ Arranged(Bucket(items, {"other"}, {FALSE}), items, b, D)
    BY <1>3, BucketArranged
  <1> HIDE DEF b, A, B, C, D
  <1>6. Arranged(Bucket(items, {"network"}, {TRUE})
                     \o Bucket(items, {"disk"}, {FALSE}), items, b, A \union B)
    BY <1>1, <1>2, <1>3, <1>4, <1>5, ArrangedJoin
  <1>7. Arranged(Bucket(items, {"network"}, {TRUE})
                     \o Bucket(items, {"disk"}, {FALSE})
                     \o Bucket(items, {"network"}, {FALSE}),
                 items, b, (A \union B) \union C)
    <2>1. A \union B \in SUBSET (1..Len(items))
          /\ \A x \in A \union B : \A y \in C : b[x] < b[y]
      BY <1>2, <1>3
    <2> QED BY <1>1, <1>2, <1>4, <1>5, <1>6, <2>1, ArrangedJoin
  <1>8. Arranged(PxeBuckets(items), items, b, ((A \union B) \union C) \union D)
    <2>1. (A \union B) \union C \in SUBSET (1..Len(items))
          /\ \A x \in (A \union B) \union C : \A y \in D : b[x] < b[y]
      BY <1>2, <1>3
    <2> QED BY <1>1, <1>2, <1>4, <1>5, <1>7, <2>1, ArrangedJoin DEF PxeBuckets
  <1>9. ((A \union B) \union C) \union D = 1..Len(items)
    BY <1>2
  <1> QED BY <1>8, <1>9 DEF b

LEMMA DiskArranged ==
  ASSUME NEW S, NEW items, AreItems(items, S)
  PROVE  Arranged(DiskBuckets(items), items, DiskRanks(items), 1..Len(items))
  <1> DEFINE b == DiskRanks(items)
             A == InBucket(items, {"disk"}, {FALSE})
             B == InBucket(items, {"other"}, {FALSE})
             C == InBucket(items, {"network"}, BOOLEAN)
  <1>1. /\ items \in Seq([id : S, kind : Kinds, ipv4 : BOOLEAN])
        /\ Len(items) \in Nat
    BY ItemFacts DEF AreItems
  <1>2. /\ A \subseteq 1..Len(items) /\ B \subseteq 1..Len(items)
        /\ C \subseteq 1..Len(items)
        /\ \A k \in 1..Len(items) : k \in A \/ k \in B \/ k \in C
    <2>1. A \subseteq 1..Len(items) /\ B \subseteq 1..Len(items)
          /\ C \subseteq 1..Len(items)
      BY ItemFacts DEF InBucket
    <2>2. ASSUME NEW k \in 1..Len(items) PROVE k \in A \/ k \in B \/ k \in C
      <3>1. /\ k \in DOMAIN items /\ items[k].kind \in {"network", "disk", "other"}
            /\ items[k].ipv4 \in {TRUE, FALSE}
            /\ items[k].ipv4 => items[k].kind = "network"
        BY ItemFacts
      <3> QED BY <3>1 DEF InBucket
    <2> QED BY <2>1, <2>2
  <1>3. /\ \A k \in A : b[k] = 1
        /\ \A k \in B : b[k] = 2
        /\ \A k \in C : b[k] = 3
    BY ItemFacts DEF InBucket, DiskRanks, DiskRank
  <1>4. b \in [1..Len(items) -> Nat]
    BY DEF DiskRanks, DiskRank
  <1>5. /\ Arranged(Bucket(items, {"disk"}, {FALSE}), items, b, A)
        /\ Arranged(Bucket(items, {"other"}, {FALSE}), items, b, B)
        /\ Arranged(Bucket(items, {"network"}, BOOLEAN), items, b, C)
    BY <1>3, BucketArranged
  <1> HIDE DEF b, A, B, C
  <1>6. Arranged(Bucket(items, {"disk"}, {FALSE})
                     \o Bucket(items, {"other"}, {FALSE}), items, b, A \union B)
    BY <1>1, <1>2, <1>3, <1>4, <1>5, ArrangedJoin
  <1>7. Arranged(DiskBuckets(items), items, b, (A \union B) \union C)
    <2>1. A \union B \in SUBSET (1..Len(items))
          /\ \A x \in A \union B : \A y \in C : b[x] < b[y]
      BY <1>2, <1>3
    <2> QED BY <1>1, <1>2, <1>4, <1>5, <1>6, <2>1, ArrangedJoin DEF DiskBuckets
  <1>8. (A \union B) \union C = 1..Len(items)
    BY <1>2
  <1> QED BY <1>7, <1>8 DEF b

LEMMA ThroughTypes ==
  ASSUME NEW S, NEW s \in Seq(S), NEW D \in SUBSET (1..Len(s)), NEW p \in Seq(D)
  PROVE  /\ Through(s, p) \in Seq(S) /\ Len(Through(s, p)) = Len(p)
         /\ Len(p) \in Nat /\ DOMAIN p = 1..Len(p)
         /\ DOMAIN Through(s, p) = 1..Len(p)
         /\ \A i \in 1..Len(p) :
                p[i] \in D /\ p[i] \in 1..Len(s) /\ Through(s, p)[i] = s[p[i]]
  <1>1. Len(p) \in Nat /\ DOMAIN p = 1..Len(p)
    OBVIOUS
  <1>2. \A i \in 1..Len(p) : p[i] \in D
    OBVIOUS
  <1>3. \A i \in 1..Len(p) : p[i] \in 1..Len(s)
    BY <1>2
  <1>4. \A i \in 1..Len(p) : s[p[i]] \in S
    BY <1>3
  <1> QED BY <1>1, <1>2, <1>3, <1>4 DEF Through

LEMMA ItemsThrough ==
  ASSUME NEW S, NEW items, AreItems(items, S),
         NEW D \in SUBSET (1..Len(items)), NEW p \in Seq(D)
  PROVE  AreItems(Through(items, p), S)
  <1> DEFINE T == [id : S, kind : Kinds, ipv4 : BOOLEAN]
  <1>1. items \in Seq(T)
    BY DEF AreItems
  <1> HIDE DEF T
  <1>2. /\ Through(items, p) \in Seq(T)
        /\ DOMAIN Through(items, p) = 1..Len(p)
        /\ \A i \in 1..Len(p) : p[i] \in 1..Len(items)
                                /\ Through(items, p)[i] = items[p[i]]
    BY <1>1, ThroughTypes
  <1>3. \A k \in 1..Len(items) : items[k].ipv4 => items[k].kind = "network"
    BY ItemFacts
  <1> QED BY <1>2, <1>3 DEF AreItems, T

LEMMA ArrangedWithin ==
  ASSUME NEW S, NEW s \in Seq(S), NEW E \in SUBSET (1..Len(s)), NEW b,
         NEW q, Lists(q, E), NEW c,
         \A i \in 1..Len(q) : c[i] = b[q[i]],
         NEW t, Arranged(t, Through(s, q), c, 1..Len(q))
  PROVE  Arranged(t, s, b, E)
  <1>1. PICK r : SortedBy(r, c, 1..Len(q)) /\ t = Through(Through(s, q), r)
    BY DEF Arranged
  <1>2. /\ q \in Seq(E) /\ Len(q) \in Nat /\ DOMAIN q = 1..Len(q)
        /\ \A i \in 1..Len(q) : q[i] \in E /\ q[i] \in 1..Len(s)
                                /\ Through(s, q)[i] = s[q[i]]
    BY ThroughTypes DEF Lists
  <1>3. /\ r \in Seq(1..Len(q)) /\ Len(r) \in Nat /\ DOMAIN r = 1..Len(r)
        /\ \A i \in 1..Len(r) : r[i] \in 1..Len(q)
    <2>1. r \in Seq(1..Len(q))
      BY <1>1 DEF SortedBy
    <2> QED BY <2>1
  <1> DEFINE p == [i \in 1..Len(r) |-> q[r[i]]]
  <1>4. p \in Seq(E) /\ DOMAIN p = 1..Len(r) /\ Len(p) = Len(r)
        /\ \A i \in 1..Len(r) : p[i] = q[r[i]]
    BY <1>2, <1>3
  <1> HIDE DEF p
  <1>5. t = Through(s, p)
    BY <1>1, <1>2, <1>3, <1>4 DEF Through
  <1>6. \A k \in E : \E i \in DOMAIN p : p[i] = k
    <2> SUFFICES ASSUME NEW k \in E PROVE \E i \in DOMAIN p : p[i] = k
      OBVIOUS
    <2>1. PICK j \in 1..Len(q) : q[j] = k
      BY <1>2 DEF Lists
    <2>2. PICK i \in 1..Len(r) : r[i] = j
      BY <1>1, <1>3 DEF SortedBy
    <2> QED BY <1>4, <2>1, <2>2
  <1>7. ASSUME NEW i \in DOMAIN p, NEW j \in DOMAIN p, i < j
        PROVE  \/ b[p[i]] < b[p[j]]
               \/ b[p[i]] = b[p[j]] /\ p[i] < p[j]
    <2>1. \/ c[r[i]] < c[r[j]]
          \/ c[r[i]] = c[r[j]] /\ r[i] < r[j]
      BY <1>1, <1>3, <1>4, <1>7 DEF SortedBy
    <2>2. /\ c[r[i]] = b[p[i]] /\ c[r[j]] = b[p[j]]
          /\ r[i] \in 1..Len(q) /\ r[j] \in 1..Len(q)
          /\ p[i] = q[r[i]] /\ p[j] = q[r[j]]
      BY <1>3, <1>4
    <2>3. r[i] < r[j] => p[i] < p[j]
      BY <1>2, <2>2 DEF Lists
    <2> QED BY <2>1, <2>2, <2>3
  <1>8. SortedBy(p, b, E)
    BY <1>4, <1>6, <1>7 DEF SortedBy
  <1> QED BY <1>5, <1>8 DEF Arranged

LEMMA FirstArranged ==
  ASSUME NEW S, NEW items, AreItems(items, S), NEW k \in 1..Len(items)
  PROVE  Arranged(<<items[k]>> \o PxeBuckets(Picked(items, DOMAIN items \ {k})),
                  items, FirstRanks(items, k), 1..Len(items))
  <1> DEFINE T == [id : S, kind : Kinds, ipv4 : BOOLEAN]
             E == (1..Len(items)) \ {k}
             b == FirstRanks(items, k)
  <1>1. /\ items \in Seq(T) /\ Len(items) \in Nat
        /\ DOMAIN items = 1..Len(items) /\ E \in SUBSET (1..Len(items))
    BY ItemFacts DEF AreItems
  <1>2. b \in [1..Len(items) -> Nat] /\ b[k] = 0
        /\ \A j \in E : b[j] = PxeRank(items[j]) /\ b[j] > 0
    BY DEF FirstRanks, PxeRank
  <1> HIDE DEF T, b
  <1>3. PICK q : Lists(q, E) /\ Picked(items, E) = Through(items, q)
    <2> HIDE DEF E
    <2> QED BY <1>1, PickedThrough
  <1>4. /\ q \in Seq(E) /\ Len(q) \in Nat
        /\ \A i \in 1..Len(q) : q[i] \in E /\ q[i] \in 1..Len(items)
               /\ Through(items, q)[i] = items[q[i]]
        /\ Len(Through(items, q)) = Len(q)
    <2>1. q \in Seq(E)
      BY <1>3 DEF Lists
    <2> HIDE DEF E
    <2>2. /\ Len(Through(items, q)) = Len(q) /\ Len(q) \in Nat
          /\ \A i \in 1..Len(q) : q[i] \in E /\ q[i] \in 1..Len(items)
                 /\ Through(items, q)[i] = items[q[i]]
      BY <1>1, <2>1, ThroughTypes
    <2> QED BY <2>1, <2>2
  <1>5. AreItems(Through(items, q), S)
    <2> HIDE DEF E
    <2> QED BY <1>1, <1>4, ItemsThrough
  <1>6. Arranged(PxeBuckets(Through(items, q)), Through(items, q),
                 PxeRanks(Through(items, q)), 1..Len(q))
    BY <1>4, <1>5, PxeArranged
  <1>7. \A i \in 1..Len(q) : PxeRanks(Through(items, q))[i] = b[q[i]]
    BY <1>2, <1>4 DEF PxeRanks
  <1>8. Arranged(PxeBuckets(Through(items, q)), items, b, E)
    <2> HIDE DEF E
    <2> QED BY <1>1, <1>3, <1>6, <1>7, ArrangedWithin
  <1>9. Arranged(<<items[k]>>, items, b, {k})
    <2>1. SortedBy(<<k>>, b, {k})
      BY DEF SortedBy
    <2>2. <<items[k]>> = Through(items, <<k>>)
      BY DEF Through
    <2> QED BY <2>1, <2>2 DEF Arranged
  <1>10. Arranged(<<items[k]>> \o PxeBuckets(Through(items, q)), items, b,
                  {k} \union E)
    <2>1. \A x \in {k} : \A y \in E : b[x] < b[y]
      BY <1>2
    <2>2. {k} \in SUBSET (1..Len(items))
      OBVIOUS
    <2> HIDE DEF E
    <2> QED BY <1>1, <1>2, <1>8, <1>9, <2>1, <2>2, ArrangedJoin
  <1>11. {k} \union E = 1..Len(items)
    OBVIOUS
  <1> QED BY <1>1, <1>3, <1>10, <1>11 DEF b
-----------------------------------------------------------------------------
(* Why an order that was written is left alone *)

\* new has the items of old, each at some other place: sorted by some b
Reordered(new, old) ==
    \E b \in [1..Len(old) -> Nat] : Arranged(new, old, b, 1..Len(old))

LEMMA IntervalSize ==
  ASSUME NEW n \in Nat
  PROVE  IsFiniteSet(1..n) /\ Cardinality(1..n) = n
  <1>1. 1 \in Int /\ n \in Int
    OBVIOUS
  <1>2. /\ IsFiniteSet(1..n)
        /\ Cardinality(1..n) = IF 1 > n THEN 0 ELSE n - 1 + 1
    BY ONLY <1>1, FS_Interval
  <1>3. (IF 1 > n THEN 0 ELSE n - 1 + 1) = n
    OBVIOUS
  <1> QED BY <1>2, <1>3

LEMMA ReorderedItems ==
  ASSUME NEW S, NEW items, AreItems(items, S), NEW new, Reordered(new, items)
  PROVE  /\ AreItems(new, S)
         /\ Len(new) = Len(items)
         /\ \A i \in 1..Len(new) : \E k \in 1..Len(items) : new[i] = items[k]
         /\ \A k \in 1..Len(items) : \E i \in 1..Len(new) : new[i] = items[k]
  <1> DEFINE T == [id : S, kind : Kinds, ipv4 : BOOLEAN]
  <1>1. PICK b \in [1..Len(items) -> Nat] :
            Arranged(new, items, b, 1..Len(items))
    BY DEF Reordered
  <1>2. PICK p : SortedBy(p, b, 1..Len(items)) /\ new = Through(items, p)
    BY <1>1 DEF Arranged
  <1>3. p \in Seq(1..Len(items))
    BY <1>2 DEF SortedBy
  <1>4. Len(items) \in Nat /\ items \in Seq(T)
    BY ItemFacts DEF AreItems
  <1>5. AreItems(new, S)
    BY <1>2, <1>3, ItemsThrough
  <1> HIDE DEF T
  <1>6. /\ Len(new) = Len(p) /\ DOMAIN p = 1..Len(p) /\ Len(p) \in Nat
        /\ \A i \in 1..Len(p) : p[i] \in 1..Len(items) /\ new[i] = items[p[i]]
    <2>1. 1..Len(items) \in SUBSET (1..Len(items))
      OBVIOUS
    <2>2. /\ Len(new) = Len(p) /\ DOMAIN p = 1..Len(p)
          /\ \A i \in 1..Len(p) : p[i] \in 1..Len(items) /\ new[i] = items[p[i]]
      BY <1>2, <1>3, <1>4, <2>1, ThroughTypes
    <2>3. Len(p) \in Nat
      BY <1>3
    <2> QED BY <2>2, <2>3
  <1>7. \A k \in 1..Len(items) : \E i \in 1..Len(p) : p[i] = k
    BY <1>2, <1>6 DEF SortedBy
  <1>8. Len(p) = Len(items)
    <2>1. p \in Injection(1..Len(p), 1..Len(items))
      <3>1. p \in [1..Len(p) -> 1..Len(items)]
        BY <1>3, <1>6
      <3>2. \A i, j \in 1..Len(p) : i < j => p[i] # p[j]
        <4> SUFFICES ASSUME NEW i \in 1..Len(p), NEW j \in 1..Len(p), i < j
                     PROVE  p[i] # p[j]
          OBVIOUS
        <4>1. \/ b[p[i]] < b[p[j]]
              \/ b[p[i]] = b[p[j]] /\ p[i] < p[j]
          BY <1>2, <1>6 DEF SortedBy
        <4>2. b[p[i]] \in Nat /\ p[i] \in Int
          BY <1>6
        <4> QED BY <4>1, <4>2
      <3>3. \A i, j \in 1..Len(p) : p[i] = p[j] => i = j
        BY <1>6, <3>2
      <3> QED BY <3>1, <3>3 DEF Injection, IsInjective
    <2>2. p \in Surjection(1..Len(p), 1..Len(items))
      <3>1. p \in [1..Len(p) -> 1..Len(items)]
        BY <1>3, <1>6
      <3> QED BY <1>7, <3>1 DEF Surjection
    <2>3. ExistsBijection(1..Len(p), 1..Len(items))
      BY <2>1, <2>2 DEF ExistsBijection, Bijection
    <2>4. IsFiniteSet(1..Len(p)) /\ Cardinality(1..Len(p)) = Len(p)
      BY <1>6, IntervalSize
    <2>5. Cardinality(1..Len(items)) = Len(items)
      BY <1>4, IntervalSize
    <2> QED BY <2>3, <2>4, <2>5, FS_Bijection
  <1> QED BY <1>5, <1>6, <1>7, <1>8

LEMMA RanksRise ==
  ASSUME NEW n \in Nat, NEW b \in [1..n -> Nat], NEW p, SortedBy(p, b, 1..n)
  PROVE  \A i, j \in DOMAIN p : i < j => b[p[i]] <= b[p[j]]
  <1> SUFFICES ASSUME NEW i \in DOMAIN p, NEW j \in DOMAIN p, i < j
               PROVE  b[p[i]] <= b[p[j]]
    OBVIOUS
  <1>1. p[i] \in 1..n /\ p[j] \in 1..n
    <2>1. p \in Seq(1..n)
      BY DEF SortedBy
    <2> QED BY <2>1
  <1>2. b[p[i]] \in Nat /\ b[p[j]] \in Nat
    BY <1>1
  <1>3. b[p[i]] < b[p[j]] \/ b[p[i]] = b[p[j]]
    BY DEF SortedBy
  <1> QED BY <1>2, <1>3

\* The rank of each item of a list
RanksOf(items, rank) == [k \in 1..Len(items) |-> rank[items[k]]]

\* Items in the order of their ranks are in the order of their ranks.
LEMMA RankSettles ==
  ASSUME NEW S, NEW items, AreItems(items, S),
         NEW rank \in [[id : S, kind : Kinds, ipv4 : BOOLEAN] -> Nat], NEW new,
         Arranged(new, items, RanksOf(items, rank), 1..Len(items)),
         NEW again,
         Arranged(again, new, RanksOf(new, rank), 1..Len(new))
  PROVE  again = new
  <1> DEFINE T == [id : S, kind : Kinds, ipv4 : BOOLEAN]
             b == RanksOf(items, rank)
             c == RanksOf(new, rank)
  <1>1. /\ Len(items) \in Nat /\ items \in Seq(T)
        /\ \A k \in 1..Len(items) : items[k] \in T
    BY ItemFacts DEF AreItems
  <1>2. b \in [1..Len(items) -> Nat]
    BY <1>1 DEF RanksOf
  <1>3. AreItems(new, S)
    BY <1>2, ReorderedItems DEF Reordered
  <1>4. PICK p : SortedBy(p, b, 1..Len(items)) /\ new = Through(items, p)
    BY DEF Arranged
  <1>5. p \in Seq(1..Len(items))
    BY <1>4 DEF SortedBy
  <1>6. /\ Len(new) \in Nat /\ new \in Seq(T)
        /\ \A k \in 1..Len(new) : new[k] \in T
    BY <1>3, ItemFacts DEF AreItems
  <1> HIDE DEF T
  <1>7. /\ Len(new) = Len(p) /\ DOMAIN p = 1..Len(p)
        /\ \A i \in 1..Len(p) : p[i] \in 1..Len(items) /\ new[i] = items[p[i]]
    <2>1. 1..Len(items) \in SUBSET (1..Len(items))
      OBVIOUS
    <2> QED BY <1>1, <1>4, <1>5, <2>1, ThroughTypes
  <1>8. \A i \in 1..Len(new) : c[i] = b[p[i]]
    BY <1>7 DEF RanksOf
  <1>9. c \in [1..Len(new) -> Nat]
    BY <1>6 DEF RanksOf, T
  <1> HIDE DEF b, c
  <1>10. \A i, j \in 1..Len(new) : i < j => c[i] <= c[j]
    <2>1. \A i, j \in DOMAIN p : i < j => b[p[i]] <= b[p[j]]
      BY <1>1, <1>2, <1>4, RanksRise
    <2> QED BY <1>7, <1>8, <2>1
  <1> QED BY <1>6, <1>9, <1>10, ArrangedStays DEF c

LEMMA PxeSettles ==
  ASSUME NEW S, NEW items, AreItems(items, S)
  PROVE  PxeBuckets(PxeBuckets(items)) = PxeBuckets(items)
  <1> DEFINE rank == [item \in [id : S, kind : Kinds, ipv4 : BOOLEAN] |->
                          PxeRank(item)]
  <1>1. rank \in [[id : S, kind : Kinds, ipv4 : BOOLEAN] -> Nat]
    BY DEF PxeRank
  <1>2. ASSUME NEW list, AreItems(list, S)
        PROVE  Arranged(PxeBuckets(list), list, RanksOf(list, rank),
                        1..Len(list))
    <2>1. RanksOf(list, rank) = PxeRanks(list)
      BY <1>2, ItemFacts DEF RanksOf, PxeRanks
    <2> QED BY <1>2, <2>1, PxeArranged
  <1> HIDE DEF rank
  <1>3. PxeRanks(items) \in [1..Len(items) -> Nat]
    BY DEF PxeRanks, PxeRank
  <1>4. AreItems(PxeBuckets(items), S)
    BY <1>3, PxeArranged, ReorderedItems DEF Reordered
  <1>5. Arranged(PxeBuckets(items), items, RanksOf(items, rank),
                 1..Len(items))
    BY <1>2
  <1>6. Arranged(PxeBuckets(PxeBuckets(items)), PxeBuckets(items),
                 RanksOf(PxeBuckets(items), rank), 1..Len(PxeBuckets(items)))
    BY <1>2, <1>4
  <1> QED BY <1>1, <1>5, <1>6, RankSettles

LEMMA DiskSettles ==
  ASSUME NEW S, NEW items, AreItems(items, S)
  PROVE  DiskBuckets(DiskBuckets(items)) = DiskBuckets(items)
  <1> DEFINE rank == [item \in [id : S, kind : Kinds, ipv4 : BOOLEAN] |->
                          DiskRank(item)]
  <1>1. rank \in [[id : S, kind : Kinds, ipv4 : BOOLEAN] -> Nat]
    BY DEF DiskRank
  <1>2. ASSUME NEW list, AreItems(list, S)
        PROVE  Arranged(DiskBuckets(list), list, RanksOf(list, rank),
                        1..Len(list))
    <2>1. RanksOf(list, rank) = DiskRanks(list)
      BY <1>2, ItemFacts DEF RanksOf, DiskRanks
    <2> QED BY <1>2, <2>1, DiskArranged
  <1> HIDE DEF rank
  <1>3. DiskRanks(items) \in [1..Len(items) -> Nat]
    BY DEF DiskRanks, DiskRank
  <1>4. AreItems(DiskBuckets(items), S)
    BY <1>3, DiskArranged, ReorderedItems DEF Reordered
  <1>5. Arranged(DiskBuckets(items), items, RanksOf(items, rank),
                 1..Len(items))
    BY <1>2
  <1>6. Arranged(DiskBuckets(DiskBuckets(items)), DiskBuckets(items),
                 RanksOf(DiskBuckets(items), rank), 1..Len(DiskBuckets(items)))
    BY <1>2, <1>4
  <1> QED BY <1>1, <1>5, <1>6, RankSettles

\* The network entries that are the current one
Currents(items, c) ==
    {k \in 1..Len(items) : items[k].id = c /\ items[k].kind = "network"}

Foremost(items, k) ==
    <<items[k]>> \o PxeBuckets(Picked(items, DOMAIN items \ {k}))

LEMMA CurrentCases ==
  ASSUME NEW S, NEW items, AreItems(items, S), NEW c
  PROVE  \/ Currents(items, c) = {} /\ CurrentFirst(items, c) = PxeBuckets(items)
         \/ \E k \in Currents(items, c) :
                /\ \A j \in Currents(items, c) : k <= j
                /\ CurrentFirst(items, c) = Foremost(items, k)
  <1>1. DOMAIN items = 1..Len(items) /\ Len(items) \in Nat
    BY ItemFacts
  <1>2. {k \in DOMAIN items : items[k].id = c /\ items[k].kind = "network"}
            = Currents(items, c)
    BY <1>1 DEF Currents
  <1>3. CASE Currents(items, c) = {}
    BY <1>2, <1>3 DEF CurrentFirst
  <1>4. CASE Currents(items, c) # {}
    <2>1. Currents(items, c) \subseteq Nat
      BY <1>1 DEF Currents
    <2>2. \E k \in Currents(items, c) : \A j \in Currents(items, c) : k <= j
      BY <1>4, <2>1, LeastExists
    <2> DEFINE k == CHOOSE p \in Currents(items, c) :
                        \A q \in Currents(items, c) : p <= q
    <2>3. k \in Currents(items, c) /\ \A j \in Currents(items, c) : k <= j
      BY <2>2
    <2>4. CurrentFirst(items, c) = Foremost(items, k)
      BY <1>2, <1>4 DEF CurrentFirst, Foremost
    <2> HIDE DEF k
    <2> QED BY <2>3, <2>4
  <1> QED BY <1>3, <1>4

LEMMA CurrentReordered ==
  ASSUME NEW S, NEW items, AreItems(items, S), NEW c
  PROVE  Reordered(CurrentFirst(items, c), items)
  <1>1. CASE CurrentFirst(items, c) = PxeBuckets(items)
    <2>1. PxeRanks(items) \in [1..Len(items) -> Nat]
      BY DEF PxeRanks, PxeRank
    <2> QED BY <1>1, <2>1, PxeArranged DEF Reordered
  <1>2. ASSUME NEW k \in 1..Len(items),
               CurrentFirst(items, c) = Foremost(items, k)
        PROVE  Reordered(CurrentFirst(items, c), items)
    <2>1. FirstRanks(items, k) \in [1..Len(items) -> Nat]
      BY DEF FirstRanks, PxeRank
    <2> QED BY <1>2, <2>1, FirstArranged DEF Reordered, Foremost
  <1>3. Currents(items, c) \subseteq 1..Len(items)
    BY DEF Currents
  <1> QED BY <1>1, <1>2, <1>3, CurrentCases

\* The entry that goes before all others is the first, and only it has the
\* rank 0.
PutsFirst(p, items, k) ==
    /\ SortedBy(p, FirstRanks(items, k), 1..Len(items))
    /\ Foremost(items, k) = Through(items, p)
    /\ 1 \in DOMAIN p
    /\ p[1] = k
    /\ \A i \in DOMAIN p : i # 1 => p[i] # k

LEMMA ForemostPlaces ==
  ASSUME NEW S, NEW items, AreItems(items, S), NEW k \in 1..Len(items)
  PROVE  \E p : PutsFirst(p, items, k)
  <1> DEFINE b == FirstRanks(items, k)
  <1>1. b \in [1..Len(items) -> Nat] /\ b[k] = 0
        /\ \A j \in 1..Len(items) : b[j] = 0 => j = k
    BY DEF FirstRanks, PxeRank
  <1>2. PICK p : SortedBy(p, b, 1..Len(items))
                 /\ Foremost(items, k) = Through(items, p)
    BY FirstArranged DEF Arranged, Foremost
  <1> HIDE DEF b
  <1>3. /\ DOMAIN p = 1..Len(p) /\ Len(p) \in Nat
        /\ \A i \in 1..Len(p) : p[i] \in 1..Len(items)
    <2>1. p \in Seq(1..Len(items))
      BY <1>2 DEF SortedBy
    <2> QED BY <2>1
  <1>4. PICK m \in 1..Len(p) : p[m] = k
    BY <1>2, <1>3 DEF SortedBy
  <1>5. ASSUME NEW i \in 1..Len(p), i # m PROVE m < i /\ p[i] # k
    <2>1. CASE i < m
      <3>1. \/ b[p[i]] < b[p[m]]
            \/ b[p[i]] = b[p[m]] /\ p[i] < p[m]
        BY <1>2, <1>3, <2>1 DEF SortedBy
      <3>2. b[p[i]] \in Nat /\ p[i] \in 1..Len(items)
        BY <1>1, <1>3
      <3>3. p[i] # k
        BY <1>1, <1>4, <3>1, <3>2
      <3> QED BY <1>1, <1>4, <3>1, <3>2, <3>3
    <2>2. CASE i > m
      <3>1. \/ b[p[m]] < b[p[i]]
            \/ b[p[m]] = b[p[i]] /\ p[m] < p[i]
        BY <1>2, <1>3, <2>2 DEF SortedBy
      <3>2. p[i] # k
        BY <1>1, <1>4, <3>1
      <3> QED BY <1>3, <2>2, <3>2
    <2> QED BY <1>3, <1>5, <2>1, <2>2
  <1>6. m = 1
    <2>1. 1 \in 1..Len(p)
      BY <1>3, <1>4
    <2> QED BY <1>3, <1>5, <2>1
  <1>7. PutsFirst(p, items, k)
    BY <1>2, <1>3, <1>4, <1>5, <1>6 DEF b, PutsFirst
  <1> QED BY <1>7

LEMMA ForemostSettles ==
  ASSUME NEW S, NEW items, AreItems(items, S), NEW k \in 1..Len(items)
  PROVE  Foremost(Foremost(items, k), 1) = Foremost(items, k)
  <1> DEFINE b == FirstRanks(items, k)
             new == Foremost(items, k)
             c == FirstRanks(new, 1)
             T == [id : S, kind : Kinds, ipv4 : BOOLEAN]
  <1>1. b \in [1..Len(items) -> Nat] /\ b[k] = 0
        /\ \A j \in 1..Len(items) : j # k => b[j] = PxeRank(items[j])
    BY DEF FirstRanks, PxeRank
  <1>2. PICK p : PutsFirst(p, items, k)
    BY ForemostPlaces
  <1>3. /\ SortedBy(p, b, 1..Len(items)) /\ new = Through(items, p)
        /\ 1 \in DOMAIN p /\ p[1] = k
        /\ \A i \in DOMAIN p : i # 1 => p[i] # k
    BY <1>2 DEF PutsFirst
  <1>4. p \in Seq(1..Len(items))
    BY <1>3 DEF SortedBy
  <1>5. items \in Seq(T) /\ Len(items) \in Nat
    BY ItemFacts DEF AreItems
  <1>6. AreItems(new, S)
    BY <1>3, <1>4, ItemsThrough
  <1>7. new \in Seq(T) /\ Len(new) \in Nat
    BY <1>6, ItemFacts DEF AreItems
  <1>8. c \in [1..Len(new) -> Nat] /\ c[1] = 0
        /\ \A j \in 1..Len(new) : j # 1 => c[j] = PxeRank(new[j])
    <2> HIDE DEF new
    <2>1. c \in [1..Len(new) -> Nat]
          /\ \A j \in 1..Len(new) : j # 1 => c[j] = PxeRank(new[j])
      BY DEF FirstRanks, PxeRank
    <2>2. 1 \in 1..Len(new)
      <3>1. DOMAIN new = DOMAIN p
        BY <1>3 DEF Through
      <3> QED BY <1>3, <1>7, <3>1
    <2> QED BY <2>1, <2>2 DEF FirstRanks
  <1> HIDE DEF T, b, c, new
  <1>9. /\ Len(new) = Len(p) /\ DOMAIN p = 1..Len(p)
        /\ \A i \in 1..Len(p) : p[i] \in 1..Len(items) /\ new[i] = items[p[i]]
    <2>1. 1..Len(items) \in SUBSET (1..Len(items))
      OBVIOUS
    <2> QED BY <1>3, <1>4, <1>5, <2>1, ThroughTypes
  <1>10. \A i \in 1..Len(new) : c[i] = b[p[i]]
    <2>1. ASSUME NEW i \in 1..Len(new), i # 1 PROVE c[i] = b[p[i]]
      <3>1. p[i] \in 1..Len(items) /\ p[i] # k /\ new[i] = items[p[i]]
        BY <1>3, <1>9, <2>1
      <3> QED BY <1>1, <1>8, <2>1, <3>1
    <2>2. c[1] = b[p[1]]
      BY <1>1, <1>3, <1>8
    <2> QED BY <2>1, <2>2
  <1>11. \A i, j \in 1..Len(new) : i < j => c[i] <= c[j]
    <2>1. \A i, j \in DOMAIN p : i < j => b[p[i]] <= b[p[j]]
      BY <1>1, <1>3, <1>5, RanksRise
    <2> QED BY <1>9, <1>10, <2>1
  <1>12. Arranged(Foremost(new, 1), new, c, 1..Len(new))
    <2>1. 1 \in 1..Len(new)
      BY <1>3, <1>9
    <2> QED BY <1>6, <2>1, FirstArranged DEF Foremost, c
  <1>13. Foremost(new, 1) = new
    BY <1>7, <1>8, <1>11, <1>12, ArrangedStays
  <1> QED BY <1>13 DEF new

LEMMA CurrentSettles ==
  ASSUME NEW S, NEW items, AreItems(items, S), NEW c
  PROVE  CurrentFirst(CurrentFirst(items, c), c) = CurrentFirst(items, c)
  <1> DEFINE new == CurrentFirst(items, c)
  <1>1. /\ AreItems(new, S) /\ Len(new) = Len(items)
        /\ \A i \in 1..Len(new) : \E k \in 1..Len(items) : new[i] = items[k]
    BY CurrentReordered, ReorderedItems
  <1>2. CASE Currents(items, c) = {} /\ new = PxeBuckets(items)
    <2> HIDE DEF new
    <2>1. Currents(new, c) = {}
      BY <1>1, <1>2 DEF Currents
    <2>2. CurrentFirst(new, c) = PxeBuckets(new)
      BY <1>1, <2>1, CurrentCases
    <2> QED BY <1>2, <2>2, PxeSettles DEF new
  <1>3. ASSUME NEW k \in Currents(items, c), new = Foremost(items, k)
        PROVE  CurrentFirst(new, c) = new
    <2> HIDE DEF new
    <2>1. /\ k \in 1..Len(items) /\ items[k].id = c
          /\ items[k].kind = "network"
      BY <1>3 DEF Currents
    <2>2. 1 \in 1..Len(new) /\ new[1] = items[k]
      <3>1. PICK p : PutsFirst(p, items, k)
        BY <2>1, ForemostPlaces
      <3>2. /\ new = [i \in DOMAIN p |-> items[p[i]]]
            /\ 1 \in DOMAIN p /\ p[1] = k
        BY <1>3, <3>1 DEF Through, PutsFirst
      <3>3. DOMAIN new = 1..Len(new)
        BY <1>1, ItemFacts
      <3> QED BY <3>2, <3>3
    <2>3. 1 \in Currents(new, c)
      BY <2>1, <2>2 DEF Currents
    <2>4. \A j \in Currents(new, c) : j \in Nat /\ 1 <= j
      BY DEF Currents
    <2>5. CurrentFirst(new, c) = Foremost(new, 1)
      <3>1. PICK j \in Currents(new, c) :
                /\ \A i \in Currents(new, c) : j <= i
                /\ CurrentFirst(new, c) = Foremost(new, j)
        BY <1>1, <2>3, CurrentCases
      <3>2. j = 1
        BY <2>3, <2>4, <3>1
      <3> QED BY <3>1, <3>2
    <2> QED BY <1>3, <2>1, <2>5, ForemostSettles
  <1> HIDE DEF new
  <1>4. CurrentFirst(new, c) = new
    <2>1. \/ Currents(items, c) = {} /\ new = PxeBuckets(items)
          \/ \E k \in Currents(items, c) : new = Foremost(items, k)
      BY CurrentCases DEF new
    <2>2. CASE Currents(items, c) = {} /\ new = PxeBuckets(items)
      BY <1>2, <2>2 DEF new
    <2> QED BY <1>3, <2>1, <2>2
  <1> QED BY <1>4 DEF new
-----------------------------------------------------------------------------
(* Both helpers' orders, as functions of BootOrder *)

\* The listing when the firmware's order is o
ListingOf(o) == [order |-> o, current |-> current, lines |-> Lines]

\* What the helper of an operating system reads
ItemsOf(family, o) ==
    IF family = "linux" THEN Items(ListingOf(o)) ELSE WindowsItems(ListingOf(o))

\* The order it makes of these items by a policy
Rule(family, items, policy) ==
    IF policy # "pxe" THEN DiskBuckets(items)
    ELSE IF family = "linux" THEN CurrentFirst(items, current)
    ELSE PxeBuckets(items)

OrderOf(family, o, policy) ==
    IF family = "linux" THEN LinuxOrder(ListingOf(o), policy)
    ELSE WindowsOrder(ListingOf(o), policy)

LEMMA OrderByRule ==
  ASSUME NEW family, NEW o, NEW policy
  PROVE  OrderOf(family, o, policy) =
             Planned(ItemsOf(family, o),
                     Rule(family, ItemsOf(family, o), policy))
  BY DEF OrderOf, ItemsOf, Rule, LinuxOrder, WindowsOrder, ListingOf

\* What is known of an entry by its id alone
ItemOf(family, id) ==
    IF family = "linux" THEN LinuxItem(Lines, id) ELSE WindowsItem(Lines, id)

LEMMA ItemsById ==
  ASSUME NEW family, NEW o
  PROVE  ItemsOf(family, o) = [k \in DOMAIN o |-> ItemOf(family, o[k])]
  <1>1. Items(ListingOf(o)) = [k \in DOMAIN o |-> LinuxItem(Lines, o[k])]
    BY DEF Items, ListingOf
  <1>2. WindowsItems(ListingOf(o)) =
            [k \in DOMAIN o |-> WindowsItem(Lines, o[k])]
    BY DEF WindowsItems, ListingOf
  <1> QED BY <1>1, <1>2 DEF ItemsOf, ItemOf

LEMMA ItemTyped ==
  ASSUME NEW family, NEW id
  PROVE  LET item == ItemOf(family, id)
         IN  /\ item \in [id : {id}, kind : Kinds, ipv4 : BOOLEAN]
             /\ item.ipv4 => item.kind = "network"
  <1>1. \A desc, path : Classify(desc, path) \in Kinds
    BY DEF Classify, Kinds
  <1>2. "disk" \in Kinds
    BY DEF Kinds
  <1> HIDE DEF Kinds
  <1> QED BY <1>1, <1>2 DEF ItemOf, LinuxItem, WindowsItem

LEMMA ItemsTyped ==
  ASSUME NEW S, NEW o \in Seq(S), NEW family
  PROVE  /\ AreItems(ItemsOf(family, o), S)
         /\ Len(ItemsOf(family, o)) = Len(o)
         /\ Ids(ItemsOf(family, o)) = o
  <1> DEFINE items == ItemsOf(family, o)
             T == [id : S, kind : Kinds, ipv4 : BOOLEAN]
  <1>1. /\ Len(o) \in Nat /\ DOMAIN o = 1..Len(o)
        /\ \A k \in 1..Len(o) : o[k] \in S
        /\ o = [k \in 1..Len(o) |-> o[k]]
    OBVIOUS
  <1>2. items = [k \in 1..Len(o) |-> ItemOf(family, o[k])]
    BY <1>1, ItemsById
  <1>3. \A k \in 1..Len(o) : /\ ItemOf(family, o[k]) \in T
                             /\ ItemOf(family, o[k]).id = o[k]
                             /\ ItemOf(family, o[k]).ipv4 =>
                                    ItemOf(family, o[k]).kind = "network"
    <2> SUFFICES ASSUME NEW k \in 1..Len(o)
                 PROVE  /\ ItemOf(family, o[k]) \in T
                        /\ ItemOf(family, o[k]).id = o[k]
                        /\ ItemOf(family, o[k]).ipv4 =>
                               ItemOf(family, o[k]).kind = "network"
      OBVIOUS
    <2> DEFINE it == ItemOf(family, o[k])
    <2>1. /\ it \in [id : {o[k]}, kind : Kinds, ipv4 : BOOLEAN]
          /\ it.ipv4 => it.kind = "network"
      BY ItemTyped
    <2>2. o[k] \in S
      BY <1>1
    <2> HIDE DEF it
    <2>3. it \in T /\ it.id = o[k]
      BY <2>1, <2>2
    <2> QED BY <2>1, <2>3 DEF it
  <1> HIDE DEF items, T
  <1>4. items \in Seq(T) /\ Len(items) = Len(o) /\ DOMAIN items = 1..Len(o)
    BY <1>1, <1>2, <1>3
  <1>5. \A k \in DOMAIN items : items[k].ipv4 => items[k].kind = "network"
    BY <1>2, <1>3, <1>4
  <1>6. Ids(items) = o
    BY <1>1, <1>2, <1>3, <1>4 DEF Ids
  <1> QED BY <1>4, <1>5, <1>6 DEF AreItems, items, T

LEMMA RuleReordered ==
  ASSUME NEW S, NEW items, AreItems(items, S), NEW family, NEW policy
  PROVE  Reordered(Rule(family, items, policy), items)
  <1>1. Reordered(PxeBuckets(items), items)
    <2>1. PxeRanks(items) \in [1..Len(items) -> Nat]
      BY DEF PxeRanks, PxeRank
    <2> QED BY <2>1, PxeArranged DEF Reordered
  <1>2. Reordered(DiskBuckets(items), items)
    <2>1. DiskRanks(items) \in [1..Len(items) -> Nat]
      BY DEF DiskRanks, DiskRank
    <2> QED BY <2>1, DiskArranged DEF Reordered
  <1>3. Reordered(CurrentFirst(items, current), items)
    BY CurrentReordered
  <1> QED BY <1>1, <1>2, <1>3 DEF Rule

LEMMA RuleSettles ==
  ASSUME NEW S, NEW items, AreItems(items, S), NEW family, NEW policy
  PROVE  Rule(family, Rule(family, items, policy), policy) =
             Rule(family, items, policy)
  BY PxeSettles, DiskSettles, CurrentSettles DEF Rule

\* A new order is a listing of the same entries.
LEMMA ItemsReordered ==
  ASSUME NEW S, NEW o \in Seq(S), NEW family, NEW new,
         Reordered(new, ItemsOf(family, o))
  PROVE  ItemsOf(family, Ids(new)) = new
  <1> DEFINE items == ItemsOf(family, o)
  <1>1. AreItems(items, S) /\ Len(items) = Len(o)
    BY ItemsTyped
  <1>2. /\ AreItems(new, S)
        /\ \A i \in 1..Len(new) : \E k \in 1..Len(items) : new[i] = items[k]
    BY <1>1, ReorderedItems
  <1>3. \A k \in 1..Len(items) : items[k] = ItemOf(family, items[k].id)
    <2> SUFFICES ASSUME NEW k \in 1..Len(items)
                 PROVE  items[k] = ItemOf(family, items[k].id)
      OBVIOUS
    <2>1. items[k] = ItemOf(family, o[k])
      BY <1>1, ItemsById
    <2>2. Ids(items)[k] = items[k].id /\ Ids(items) = o
      BY <1>1, ItemFacts, ItemsTyped DEF Ids
    <2> QED BY <2>1, <2>2
  <1>4. DOMAIN new = 1..Len(new) /\ Len(new) \in Nat
    BY <1>2, ItemFacts
  <1> HIDE DEF items
  <1>5. \A i \in 1..Len(new) : new[i] = ItemOf(family, new[i].id)
    BY <1>2, <1>3
  <1>6. DOMAIN Ids(new) = 1..Len(new)
        /\ \A i \in 1..Len(new) : Ids(new)[i] = new[i].id
    BY <1>4 DEF Ids
  <1>7. ItemsOf(family, Ids(new)) = [i \in 1..Len(new) |-> new[i]]
    BY <1>5, <1>6, ItemsById
  <1>8. new = [i \in 1..Len(new) |-> new[i]]
    <2> DEFINE T == [id : S, kind : Kinds, ipv4 : BOOLEAN]
    <2>1. new \in Seq(T)
      BY <1>2 DEF AreItems
    <2> HIDE DEF T
    <2> QED BY <2>1
  <1> QED BY <1>7, <1>8

LEMMA OrderOfSettles ==
  ASSUME NEW S, NEW o \in Seq(S), NEW family, NEW policy
  PROVE  OrderOf(family, OrderOf(family, o, policy), policy) =
             OrderOf(family, o, policy)
  <1> DEFINE items == ItemsOf(family, o)
             new == Rule(family, items, policy)
  <1>1. AreItems(items, S) /\ Ids(items) = o
    BY ItemsTyped
  <1>2. Reordered(new, items)
    BY <1>1, RuleReordered
  <1>3. OrderOf(family, o, policy) = Planned(items, new)
    BY OrderByRule
  <1>4. CASE ~HasNetwork(items)
    <2>1. OrderOf(family, o, policy) = o
      BY <1>1, <1>3, <1>4 DEF Planned
    <2> QED BY <2>1
  <1>5. CASE HasNetwork(items)
    <2>1. OrderOf(family, o, policy) = Ids(new)
      BY <1>3, <1>5 DEF Planned
    <2>2. ItemsOf(family, Ids(new)) = new
      BY <1>2, ItemsReordered
    <2>3. Rule(family, new, policy) = new
      BY <1>1, RuleSettles
    <2>4. OrderOf(family, Ids(new), policy) = Planned(new, new)
      BY <2>2, <2>3, OrderByRule
    <2>5. HasNetwork(new)
      <3>1. /\ AreItems(new, S) /\ DOMAIN items = 1..Len(items)
            /\ \A k \in 1..Len(items) : \E i \in 1..Len(new) : new[i] = items[k]
        <4>1. DOMAIN items = 1..Len(items)
          BY <1>1, ItemFacts
        <4> HIDE DEF items, new
        <4>2. AreItems(new, S)
          BY <1>1, <1>2, ReorderedItems
        <4>3. \A k \in 1..Len(items) : \E i \in 1..Len(new) : new[i] = items[k]
          BY <1>1, <1>2, ReorderedItems
        <4> QED BY <4>1, <4>2, <4>3
      <3>2. DOMAIN new = 1..Len(new)
        BY <3>1, ItemFacts
      <3> HIDE DEF items, new
      <3> QED BY <1>5, <3>1, <3>2 DEF HasNetwork
    <2> QED BY <2>1, <2>4, <2>5 DEF Planned
  <1> QED BY <1>4, <1>5
-----------------------------------------------------------------------------
(* BootOrder stays a permutation, and the disk can be reached *)

\* A permutation of the firmware's entries
IsOrder(o) ==
    /\ o \in Seq(DOMAIN Lines)
    /\ Len(o) = Cardinality(DOMAIN Lines)
    /\ \A id \in DOMAIN Lines : \E k \in 1..Len(o) : o[k] = id

LEMMA OrderStaysOrder ==
  ASSUME NEW o, IsOrder(o), NEW family, NEW policy
  PROVE  IsOrder(OrderOf(family, o, policy))
  <1> DEFINE S == DOMAIN Lines
             items == ItemsOf(family, o)
             new == Rule(family, items, policy)
  <1>1. o \in Seq(S)
    BY DEF IsOrder
  <1>2. AreItems(items, S) /\ Ids(items) = o /\ Len(items) = Len(o)
    BY <1>1, ItemsTyped
  <1>3. Reordered(new, items)
    BY <1>2, RuleReordered
  <1>4. OrderOf(family, o, policy) = Planned(items, new)
    BY OrderByRule
  <1>5. Ids(new) \in Seq(S) /\ Len(Ids(new)) = Len(o)
        /\ \A id \in S : \E k \in 1..Len(Ids(new)) : Ids(new)[k] = id
    <2> HIDE DEF items, new
    <2>1. AreItems(new, S) /\ Len(new) = Len(o)
      BY <1>2, <1>3, ReorderedItems
    <2>2. \A k \in 1..Len(items) : \E i \in 1..Len(new) : new[i] = items[k]
      BY <1>2, <1>3, ReorderedItems
    <2>3. /\ Len(new) \in Nat /\ DOMAIN new = 1..Len(new)
          /\ \A k \in 1..Len(new) : new[k].id \in S
      BY <2>1, ItemFacts
    <2>4. Ids(new) = [k \in 1..Len(new) |-> new[k].id]
      BY <2>3 DEF Ids
    <2>5. Ids(new) \in Seq(S) /\ Len(Ids(new)) = Len(new)
      BY <2>3, <2>4
    <2>6. DOMAIN items = 1..Len(items) /\ \A k \in 1..Len(items) : items[k].id = o[k]
      BY <1>2, ItemFacts DEF Ids
    <2>7. \A id \in S : \E k \in 1..Len(new) : new[k].id = id
      <3> SUFFICES ASSUME NEW id \in S PROVE \E k \in 1..Len(new) : new[k].id = id
        OBVIOUS
      <3>1. PICK k \in 1..Len(items) : items[k].id = id
        BY <1>2, <2>6 DEF IsOrder
      <3>2. PICK i \in 1..Len(new) : new[i] = items[k]
        BY <2>2
      <3> QED BY <3>1, <3>2
    <2> QED BY <2>1, <2>4, <2>5, <2>7
  <1>6. IsOrder(Ids(new))
    BY <1>5 DEF IsOrder
  <1> HIDE DEF items, new
  <1> QED BY <1>2, <1>4, <1>6 DEF Planned

\* Apart from the first, the items are sorted by their ranks.
ByPxeRank(new, items, p, b) ==
    /\ b \in [1..Len(items) -> Nat]
    /\ SortedBy(p, b, 1..Len(items))
    /\ new = Through(items, p)
    /\ \A i \in DOMAIN p : i = 1 \/ b[p[i]] = PxeRank(items[p[i]])

\* What an order made for the policy "pxe" puts before the disk
LEMMA BeforeTheDisk ==
  ASSUME NEW o, IsOrder(o), NEW family,
         OrderOf(family, o, "pxe") # o,
         NEW k \in 1..Len(o), NEW j \in 1..Len(o), j < k, j # 1,
         NEW new, new = OrderOf(family, o, "pxe"),
         ItemOf(family, new[k]).kind = "disk",
         ItemOf(family, new[j]).kind # "disk"
  PROVE  ItemOf(family, new[j]).ipv4
  <1> DEFINE S == DOMAIN Lines
             items == ItemsOf(family, o)
             rule == Rule(family, items, "pxe")
  <1>1. o \in Seq(S)
    BY DEF IsOrder
  <1>2. AreItems(items, S) /\ Ids(items) = o /\ Len(items) = Len(o)
    BY <1>1, ItemsTyped
  <1>3. new = Ids(rule)
    BY <1>2, OrderByRule DEF Planned
  <1>4. Reordered(rule, items)
    BY <1>2, RuleReordered
  <1>5. ItemsOf(family, Ids(rule)) = rule
    BY <1>1, <1>4, ItemsReordered
  <1>6. AreItems(rule, S) /\ Len(rule) = Len(items)
    BY <1>2, <1>4, ReorderedItems
  <1>7. rule[k] = ItemOf(family, new[k]) /\ rule[j] = ItemOf(family, new[j])
    <2>1. DOMAIN Ids(rule) = 1..Len(o)
      BY <1>2, <1>6, ItemFacts DEF Ids
    <2>2. rule = [i \in DOMAIN Ids(rule) |-> ItemOf(family, Ids(rule)[i])]
      BY <1>5, ItemsById
    <2> HIDE DEF rule
    <2> QED BY <1>3, <2>1, <2>2
  <1>8. \E p, b : ByPxeRank(rule, items, p, b)
    <2>1. CASE rule = PxeBuckets(items)
      <3>1. PICK p : SortedBy(p, PxeRanks(items), 1..Len(items))
                     /\ PxeBuckets(items) = Through(items, p)
        BY <1>2, PxeArranged DEF Arranged
      <3>2. PxeRanks(items) \in [1..Len(items) -> Nat]
        BY DEF PxeRanks, PxeRank
      <3>3. \A i \in DOMAIN p : p[i] \in 1..Len(items)
        <4>1. p \in Seq(1..Len(items))
          BY <3>1 DEF SortedBy
        <4> QED BY <4>1
      <3>4. \A i \in DOMAIN p : PxeRanks(items)[p[i]] = PxeRank(items[p[i]])
        BY <3>3 DEF PxeRanks
      <3>5. ByPxeRank(rule, items, p, PxeRanks(items))
        <4> HIDE DEF items, rule
        <4> QED BY <2>1, <3>1, <3>2, <3>4 DEF ByPxeRank
      <3> QED BY <3>5
    <2>2. ASSUME NEW m \in 1..Len(items), rule = Foremost(items, m)
          PROVE  \E p, b : ByPxeRank(rule, items, p, b)
      <3> HIDE DEF items, rule
      <3>1. PICK p : PutsFirst(p, items, m)
        BY <1>2, <2>2, ForemostPlaces
      <3>2. FirstRanks(items, m) \in [1..Len(items) -> Nat]
        BY DEF FirstRanks, PxeRank
      <3>3. \A i \in DOMAIN p : p[i] \in 1..Len(items)
        <4>1. p \in Seq(1..Len(items))
          BY <3>1 DEF SortedBy, PutsFirst
        <4> QED BY <4>1
      <3>4. \A i \in DOMAIN p :
                i = 1 \/ FirstRanks(items, m)[p[i]] = PxeRank(items[p[i]])
        BY <3>1, <3>3 DEF FirstRanks, PutsFirst
      <3>5. ByPxeRank(rule, items, p, FirstRanks(items, m))
        BY <2>2, <3>1, <3>2, <3>4 DEF PutsFirst, ByPxeRank
      <3> QED BY <3>5
    <2>3. \/ rule = PxeBuckets(items)
          \/ \E m \in 1..Len(items) : rule = Foremost(items, m)
      <3>1. Currents(items, current) \subseteq 1..Len(items)
        BY DEF Currents
      <3> HIDE DEF items
      <3> QED BY <1>2, <3>1, CurrentCases DEF Rule
    <2> HIDE DEF items, rule
    <2> QED BY <2>1, <2>2, <2>3
  <1>9. PICK p, b : ByPxeRank(rule, items, p, b)
    BY <1>8
  <1>10. /\ b \in [1..Len(items) -> Nat]
        /\ SortedBy(p, b, 1..Len(items)) /\ rule = Through(items, p)
        /\ \A i \in DOMAIN p : i = 1 \/ b[p[i]] = PxeRank(items[p[i]])
    BY <1>9 DEF ByPxeRank
  <1>11. /\ DOMAIN p = 1..Len(o)
        /\ \A i \in 1..Len(o) : p[i] \in 1..Len(items) /\ rule[i] = items[p[i]]
    <2> HIDE DEF items, rule
    <2>1. p \in Seq(1..Len(items))
      BY <1>10 DEF SortedBy
    <2>2. DOMAIN rule = 1..Len(o)
      BY <1>2, <1>6, ItemFacts
    <2> QED BY <1>10, <2>1, <2>2 DEF Through
  <1> HIDE DEF items, rule
  <1>12. b[p[j]] <= b[p[k]]
    <2>1. Len(items) \in Nat
      BY <1>2, ItemFacts
    <2> QED BY <1>10, <1>11, <2>1, RanksRise
  <1>13. k # 1
    BY <1>1
  <1>14. PxeRank(rule[j]) <= PxeRank(rule[k])
    BY <1>10, <1>11, <1>12, <1>13
  <1>15. /\ rule[k].ipv4 => rule[k].kind = "network"
         /\ rule[k].kind = "disk"
    BY <1>2, <1>6, <1>7, ItemFacts
  <1> QED BY <1>7, <1>14, <1>15 DEF PxeRank

LEMMA FirstOrder ==
  ASSUME NEW o, o \in SetToSeqs(DOMAIN Lines)
  PROVE  IsOrder(o)
  <1> DEFINE S == DOMAIN Lines
             n == Cardinality(DOMAIN Lines)
  <1>1. IsFiniteSet(S) /\ n \in Nat
    BY GuestAssumption, FS_CardinalityType DEF GuestAssumption
  <1>2. o \in [1..n -> S] /\ \A i, j \in 1..n : i # j => o[i] # o[j]
    BY DEF SetToSeqs
  <1> HIDE DEF S, n
  <1>3. o \in Seq(S) /\ Len(o) = n /\ DOMAIN o = 1..n
    BY <1>1, <1>2
  <1>4. o \in Surjection(1..n, S)
    <2>1. o \in Injection(1..n, S)
      BY <1>2 DEF Injection, IsInjective
    <2>2. Cardinality(1..n) = Cardinality(S)
      BY <1>1, IntervalSize DEF n, S
    <2> QED BY <1>1, <2>1, <2>2, FS_Injection
  <1>5. \A id \in S : \E k \in 1..n : o[k] = id
    BY <1>4 DEF Surjection
  <1> QED BY <1>3, <1>5 DEF IsOrder, S, n

\* ContinueReachesDisk of one order
ReachesDisk(o) ==
    \A k \in DOMAIN o : \A j \in 1..(k - 1) :
        Bootable[o[k]] = "disk" /\ Bootable[o[j]] # "disk"
            => \/ j = 1
               \/ IsIpv4Network(Lines[o[j]].desc)
               \/ IsIpv4Network(EntryOf(Lines, o[j]).desc)

LEMMA NewOrderReachesDisk ==
  ASSUME NEW o, IsOrder(o), NEW family, OrderOf(family, o, "pxe") # o
  PROVE  ReachesDisk(OrderOf(family, o, "pxe"))
  <1>1. PICK new : new = OrderOf(family, o, "pxe")
    OBVIOUS
  <1>2. IsOrder(new)
    BY <1>1, OrderStaysOrder
  <1>3. /\ Len(o) = Len(new) /\ DOMAIN new = 1..Len(new) /\ Len(new) \in Nat
        /\ \A i \in 1..Len(new) : new[i] \in DOMAIN Lines
    <2>1. new \in Seq(DOMAIN Lines)
      BY <1>2 DEF IsOrder
    <2> QED BY <1>2, <2>1 DEF IsOrder
  <1>4. ASSUME NEW k \in 1..Len(new), NEW j \in 1..(k - 1), j # 1,
               Bootable[new[k]] = "disk", Bootable[new[j]] # "disk"
        PROVE  \/ IsIpv4Network(Lines[new[j]].desc)
               \/ IsIpv4Network(EntryOf(Lines, new[j]).desc)
    <2>1. j \in 1..Len(o) /\ j < k /\ k \in 1..Len(o) /\ j \in 1..Len(new)
      BY <1>3
    <2>2. new[k] \in DOMAIN Lines /\ new[j] \in DOMAIN Lines
      BY <1>3, <2>1
    <2>3. /\ ItemOf(family, new[k]).kind = "disk"
          /\ ItemOf(family, new[j]).kind # "disk"
      BY <1>4, <2>2, NamesAssumption DEF ItemOf
    <2>4. ItemOf(family, new[j]).ipv4
      BY <1>1, <1>4, <2>1, <2>3, BeforeTheDisk
    <2> QED BY <2>2, <2>4 DEF ItemOf, LinuxItem, WindowsItem
  <1> QED BY <1>1, <1>3, <1>4 DEF ReachesDisk

(***************************************************************************)
(* The host's half of the inductive invariant: BootOrder stays a           *)
(* permutation of the firmware's entries, so that the helpers work on the  *)
(* entries that there are.                                                 *)
(***************************************************************************)
HostInv ==
    /\ IsOrder(order)
    /\ wrote # 0 => ReachesDisk(order)
    /\ given \subseteq 1..MaxTicket
    /\ current \in DOMAIN Lines \union {""}
    /\ disk \in 0..MaxTicket
    /\ {"phase", "at", "inst", "tries"} \subseteq DOMAIN run
    /\ run.phase \in Phases
    /\ run.tries \in 0..2

\* What a step may do to BootOrder, and to the memory of who wrote it
OrderStep ==
    \/ order' = order /\ wrote' \in {wrote, 0}
    \/ \E family, policy :
           /\ order' = OrderOf(family, order, policy)
           /\ \/ wrote' = 0
              \/ order' # order /\ policy = "pxe"

\* What a step may do to the host, apart from that
RunStep ==
    /\ {"phase", "at", "inst", "tries"} \subseteq DOMAIN run'
    /\ run'.phase \in Phases
    /\ run'.tries \in 0..2

LEMMA ApplyOrderSteps == ApplyOrder => OrderStep
  <1> SUFFICES ASSUME ApplyOrder PROVE OrderStep
    OBVIOUS
  <1>1. PICK new : new = NewOrder(run.family, run.policy)
    OBVIOUS
  <1>2. new = OrderOf(run.family, order, run.policy)
    BY <1>1 DEF NewOrder, OrderOf, Listing, ListingOf
  <1>3. /\ order' = new
        /\ wrote' = IF new = order THEN wrote
                    ELSE IF run.policy = "pxe" THEN run.inst ELSE 0
    BY <1>1 DEF ApplyOrder
  <1>4. CASE new = order
    BY <1>3, <1>4 DEF OrderStep
  <1>5. CASE new # order /\ run.policy = "pxe"
    BY <1>2, <1>3, <1>5 DEF OrderStep
  <1>6. CASE new # order /\ run.policy # "pxe"
    BY <1>2, <1>3, <1>6 DEF OrderStep
  <1> QED BY <1>4, <1>5, <1>6

LEMMA OrderStepKeeps ==
  ASSUME HostInv, OrderStep
  PROVE  IsOrder(order)' /\ (wrote # 0 => ReachesDisk(order))'
  <1>1. IsOrder(order)
    BY DEF HostInv
  <1>2. CASE order' = order /\ wrote' \in {wrote, 0}
    BY <1>1, <1>2 DEF HostInv, IsOrder, ReachesDisk
  <1>3. ASSUME NEW family, NEW policy, order' = OrderOf(family, order, policy),
               wrote' = 0 \/ (order' # order /\ policy = "pxe")
        PROVE  IsOrder(order)' /\ (wrote # 0 => ReachesDisk(order))'
    <2>1. PICK new : new = OrderOf(family, order, policy)
      OBVIOUS
    <2>2. IsOrder(new)
      BY <1>1, <2>1, OrderStaysOrder
    <2>3. new # order /\ policy = "pxe" => ReachesDisk(new)
      BY <1>1, <2>1, NewOrderReachesDisk
    <2>4. order' = new
      BY <1>3, <2>1
    <2>5. IsOrder(order')
      BY <2>2, <2>4
    <2>6. wrote' # 0 => ReachesDisk(order')
      BY <1>3, <2>3, <2>4
    <2> QED BY <2>5, <2>6 DEF IsOrder, ReachesDisk
  <1> QED BY <1>2, <1>3 DEF OrderStep

LEMMA FirmwareRuns ==
  ASSUME NEW k
  PROVE  /\ {"phase", "at", "inst", "tries"} \subseteq DOMAIN Firmware(k)
         /\ Firmware(k).phase = "firmware" /\ Firmware(k).tries = 0
         /\ \A phase, inst :
                LET r == [Firmware(k) EXCEPT !.phase = phase, !.inst = inst]
                IN  /\ {"phase", "at", "inst", "tries"} \subseteq DOMAIN r
                    /\ r.phase = phase /\ r.tries = 0
         /\ \A phase :
                LET r == [Firmware(k) EXCEPT !.phase = phase]
                IN  /\ {"phase", "at", "inst", "tries"} \subseteq DOMAIN r
                    /\ r.phase = phase /\ r.tries = 0
  BY DEF Firmware

LEMMA LeaveOrderSteps == HostInv /\ LeaveOrder => OrderStep /\ RunStep
  BY DEF HostInv, LeaveOrder, OrderStep, RunStep, Phases

LEMMA ApplyOrderRuns == HostInv /\ ApplyOrder => RunStep
  BY DEF HostInv, ApplyOrder, RunStep, Phases

\* Every step is one of these kinds, and leaves the system on the disk and
\* the entry it was booted from within their bounds.
LEMMA HostSteps ==
  ASSUME GuestInv, HostInv, [Next]_vars
  PROVE  /\ OrderStep /\ RunStep
         /\ disk' \in {disk, 0, run.inst}
         /\ current' = current \/ current' \in DOMAIN Lines
         /\ given' = given \/ (ticket # 0 /\ given' = given \union {ticket})
  <1>1. RunStep \/ run' # run
    BY DEF HostInv, RunStep
  <1>2. CASE Request \/ Withdraw
    BY <1>1, <1>2 DEF Request, Withdraw, OrderStep
  <1>3. CASE PowerCycle \/ PickEntry \/ NothingBoots \/ RunReboot
    <2>1. RunStep
      BY <1>3, FirmwareRuns
         DEF PowerCycle, PickEntry, NothingBoots, RunReboot, PowerOn, RunStep,
             Phases
    <2>2. /\ order' = order /\ wrote' = wrote /\ disk' = disk
          /\ current' = current /\ given' = given
      BY <1>3 DEF PowerCycle, PickEntry, NothingBoots, RunReboot, server
    <2> QED BY <2>1, <2>2 DEF OrderStep
  <1>4. CASE TryEntry
    <2>1. /\ order' = order /\ wrote' = wrote /\ disk' = disk
      BY <1>4 DEF TryEntry
    <2>2. order[run.at] \in DOMAIN Lines
      <3>1. order \in Seq(DOMAIN Lines) /\ run.at \in DOMAIN order
        BY <1>4 DEF TryEntry, HostInv, IsOrder
      <3> QED BY <3>1
    <2> DEFINE id == order[run.at]
    <2>3. CASE Bootable[id] = "pxe" /\ ticket # 0
      <3>1. /\ current' = id /\ given' = given \union {ticket}
            /\ run' = [PowerOn EXCEPT !.phase = "fetch", !.inst = ticket]
        BY <1>4, <2>3 DEF TryEntry
      <3>2. RunStep
        BY <3>1, FirmwareRuns DEF PowerOn, RunStep, Phases
      <3> QED BY <2>1, <2>2, <2>3, <3>1, <3>2 DEF OrderStep
    <2>4. CASE ~(Bootable[id] = "pxe" /\ ticket # 0)
               /\ Bootable[id] = "disk" /\ disk # 0
      <3>1. /\ current' = id /\ given' = given
            /\ run' = [PowerOn EXCEPT !.phase = "os"]
        BY <1>4, <2>4 DEF TryEntry
      <3>2. RunStep
        BY <3>1, FirmwareRuns DEF PowerOn, RunStep, Phases
      <3> QED BY <2>1, <2>2, <3>1, <3>2 DEF OrderStep
    <2>5. CASE ~(Bootable[id] = "pxe" /\ ticket # 0)
               /\ ~(Bootable[id] = "disk" /\ disk # 0)
      <3>1. /\ current' = current /\ given' = given
            /\ run' = Firmware(run.at + 1)
        BY <1>4, <2>5 DEF TryEntry
      <3>2. RunStep
        BY <3>1, FirmwareRuns DEF RunStep, Phases
      <3> QED BY <2>1, <3>1, <3>2 DEF OrderStep
    <2> QED BY <2>3, <2>4, <2>5
  <1>5. CASE FetchSeed
    <2>1. RunStep
      BY <1>5 DEF FetchSeed, FetchLinuxSeed, FetchWindowsSeed, HostInv,
         RunStep, Phases
    <2> QED BY <1>5, <2>1 DEF FetchSeed, server, OrderStep
  <1>6. CASE Install
    <2>1. RunStep
      <3>1. CASE run' = [run EXCEPT !.phase = "commands", !.seed = {}]
        BY <3>1 DEF HostInv, RunStep, Phases
      <3>2. CASE run' = [PowerOn EXCEPT !.phase = "halted"]
        BY <3>2, FirmwareRuns DEF PowerOn, RunStep, Phases
      <3> QED BY <1>6, <3>1, <3>2 DEF Install
    <2>2. /\ disk' \in {run.inst, 0} /\ order' = order /\ wrote' = wrote
          /\ current' = current /\ given' = given
      BY <1>6 DEF Install, server
    <2> QED BY <2>1, <2>2 DEF OrderStep
  <1>7. CASE RunPhoneHome \/ RunOther
    <2>1. RunStep
      BY <1>7 DEF RunPhoneHome, RunOther, RunNext, HostInv, RunStep
    <2>2. /\ order' = order /\ wrote' = wrote /\ disk' = disk
          /\ current' = current /\ given' = given
      BY <1>7 DEF RunPhoneHome, RunOther, PhoneHomeArrives, server
    <2> QED BY <2>1, <2>2 DEF OrderStep
  <1>8. CASE HelperSkips
    BY <1>8, LeaveOrderSteps DEF HelperSkips, LeaveOrder, server
  <1>9. CASE HelperStarts
    <2>1. CASE run.policy = "pxe"
      <3>1. run' = [run EXCEPT !.phase = "gate", !.tries = 0]
        BY <1>9, <2>1 DEF HelperStarts
      <3>2. RunStep
        <4>1. /\ {"phase", "at", "inst", "tries"} \subseteq DOMAIN run'
              /\ run'.phase = "gate" /\ run'.tries = 0
          BY <3>1 DEF HostInv
        <4> QED BY <4>1 DEF RunStep, Phases
      <3> QED BY <1>9, <2>1, <3>2 DEF HelperStarts, server, OrderStep
    <2>2. CASE run.policy # "pxe"
      <3>1. ApplyOrder /\ UNCHANGED server
        BY <1>9, <2>2 DEF HelperStarts
      <3> QED BY <3>1, ApplyOrderSteps, ApplyOrderRuns DEF ApplyOrder, server
    <2> QED BY <2>1, <2>2
  <1>10. CASE Gate
    <2>1. given' = given
      BY <1>10 DEF Gate, GateUnanswered, PhoneHomeArrives, server
    <2>2. CASE ApplyOrder
      BY <2>1, <2>2, ApplyOrderSteps, ApplyOrderRuns DEF ApplyOrder
    <2>3. CASE LeaveOrder
      BY <2>1, <2>3, LeaveOrderSteps DEF LeaveOrder
    <2>4. CASE GateUnanswered /\ run.tries # 2
      <3>1. /\ run' = [run EXCEPT !.tries = @ + 1]
            /\ order' = order /\ wrote' = wrote /\ disk' = disk
            /\ current' = current
        BY <2>4 DEF GateUnanswered
      <3>2. RunStep
        <4>1. run.tries \in {0, 1, 2} /\ run.tries # 2
          <5>1. run.tries \in 0..2
            BY DEF HostInv
          <5>2. 0..2 = {0, 1, 2}
            OBVIOUS
          <5> QED BY <2>4, <5>1, <5>2
        <4>2. run.tries + 1 \in 0..2
          BY <4>1
        <4>3. /\ {"phase", "at", "inst", "tries"} \subseteq DOMAIN run'
              /\ run'.phase = run.phase /\ run'.tries = run.tries + 1
          BY <3>1 DEF HostInv
        <4> QED BY <4>2, <4>3 DEF HostInv, RunStep
      <3> QED BY <2>1, <3>1, <3>2 DEF OrderStep
    <2> QED BY <1>10, <2>2, <2>3, <2>4 DEF Gate, GateUnanswered
  <1>11. CASE UNCHANGED vars
    BY <1>1, <1>11 DEF vars, OrderStep
  <1> QED BY <1>2, <1>3, <1>4, <1>5, <1>6, <1>7, <1>8, <1>9, <1>10, <1>11
          DEF Next

LEMMA HostInit == Init => HostInv
  <1> SUFFICES ASSUME Init PROVE HostInv
    OBVIOUS
  <1>1. IsOrder(order)
    BY FirstOrder DEF Init
  <1>2. /\ {"phase", "at", "inst", "tries"} \subseteq DOMAIN run
        /\ run.phase \in Phases /\ run.tries \in 0..2
    <2>1. run = Firmware(1)
      BY DEF Init, PowerOn
    <2>2. /\ {"phase", "at", "inst", "tries"} \subseteq DOMAIN Firmware(1)
          /\ Firmware(1).phase = "firmware" /\ Firmware(1).tries = 0
      BY FirmwareRuns
    <2> QED BY <2>1, <2>2 DEF Phases
  <1>3. /\ wrote = 0 /\ given = {} /\ current = "" /\ disk = 0
        /\ disk \in 0..MaxTicket
    <2>1. wrote = 0 /\ given = {} /\ current = "" /\ disk = 0
      BY DEF Init
    <2>2. 0 \in 0..MaxTicket
      BY Bound
    <2> QED BY <2>1, <2>2
  <1> QED BY <1>1, <1>2, <1>3 DEF HostInv

LEMMA HostNext == GuestInv /\ HostInv /\ [Next]_vars => HostInv'
  <1> SUFFICES ASSUME GuestInv, HostInv, [Next]_vars PROVE HostInv'
    OBVIOUS
  <1>1. /\ OrderStep /\ RunStep
        /\ disk' \in {disk, 0, run.inst}
        /\ current' = current \/ current' \in DOMAIN Lines
        /\ given' = given \/ (ticket # 0 /\ given' = given \union {ticket})
    BY HostSteps
  <1>2. IsOrder(order)' /\ (wrote # 0 => ReachesDisk(order))'
    BY <1>1, OrderStepKeeps
  <1>3. /\ ticket \in 0..MaxTicket /\ run.inst \in 0..MaxTicket
        /\ given \subseteq 1..MaxTicket /\ disk \in 0..MaxTicket
    <2>1. used \in 0..MaxTicket /\ ticket \in 0..used /\ run.inst \in 0..used
      BY DEF GuestInv
    <2>2. given \subseteq 1..MaxTicket /\ disk \in 0..MaxTicket
      BY DEF HostInv
    <2> QED BY <2>1, <2>2, Bound
  <1>4. given' \subseteq 1..MaxTicket
    <2>1. ticket # 0 => ticket \in 1..MaxTicket
      BY <1>3, Bound
    <2> QED BY <1>1, <1>3, <2>1
  <1>5. disk' \in 0..MaxTicket
    <2>1. 0 \in 0..MaxTicket
      BY Bound
    <2> QED BY <1>1, <1>3, <2>1
  <1>6. current' \in DOMAIN Lines \union {""}
    BY <1>1 DEF HostInv
  <1> QED BY <1>1, <1>2, <1>4, <1>5, <1>6 DEF HostInv, RunStep

LEMMA HostInvariant == Spec => [](GuestInv /\ HostInv)
  BY GuestInit, GuestNext, HostInit, HostNext, PTL DEF Spec

(***************************************************************************)
(* Every variable keeps its type, and BootOrder is always a permutation of *)
(* the firmware's entries: no helper (uefi_order.py reorder, Get-NewOrder) *)
(* loses or doubles one, however many installs follow each other.          *)
(***************************************************************************)
THEOREM GuestTypes == Spec => []TypeOK
  <1>1. GuestInv /\ HostInv => TypeOK
    <2> SUFFICES ASSUME GuestInv, HostInv PROVE TypeOK
      OBVIOUS
    <2>1. Len(order) = Cardinality(DOMAIN Lines) /\ order \in Seq(DOMAIN Lines)
      BY DEF HostInv, IsOrder
    <2>2. ToSet(order) = DOMAIN Lines
      <3>1. DOMAIN order = 1..Len(order)
            /\ \A k \in DOMAIN order : order[k] \in DOMAIN Lines
        BY <2>1
      <3>2. \A id \in DOMAIN Lines : \E k \in DOMAIN order : order[k] = id
        BY <3>1 DEF HostInv, IsOrder
      <3> QED BY <3>1, <3>2 DEF ToSet
    <2>3. /\ ticket \in 0..MaxTicket /\ used \in 0..MaxTicket
          /\ wrote \in 0..MaxTicket /\ run.inst \in 0..MaxTicket
      BY Bound DEF GuestInv
    <2> QED BY <2>1, <2>2, <2>3 DEF TypeOK, HostInv
  <1> QED BY <1>1, HostInvariant, PTL

(***************************************************************************)
(* In an order that a helper has written for the policy "pxe" (by the rule *)
(* of uefi_order.py:77), nothing but the entry the guest was booted from   *)
(* and IPv4 network entries comes before the disk, on any firmware whose   *)
(* entries the helpers know.                                               *)
(***************************************************************************)
THEOREM DiskIsReached == Spec => []ContinueReachesDisk
  <1>1. HostInv => ContinueReachesDisk
    BY DEF HostInv, ReachesDisk, ContinueReachesDisk
  <1> QED BY <1>1, HostInvariant, PTL

(***************************************************************************)
(* Both helpers' orders settle: what uefi_order.py writes by either policy *)
(* it leaves alone when it runs again.                                     *)
(***************************************************************************)
THEOREM OrdersSettle == Spec => []OrderSettles
  <1>1. HostInv => OrderSettles
    <2> SUFFICES ASSUME HostInv, NEW policy \in Policies
                 PROVE  LET linux == LinuxOrder(Listing, policy)
                            windows == WindowsOrder(Listing, policy)
                        IN  /\ LinuxOrder([Listing EXCEPT !.order = linux],
                                          policy) = linux
                            /\ WindowsOrder([Listing EXCEPT !.order = windows],
                                            policy) = windows
      BY DEF OrderSettles
    <2>1. order \in Seq(DOMAIN Lines)
      BY DEF HostInv, IsOrder
    <2>2. \A family : OrderOf(family, OrderOf(family, order, policy), policy) =
                          OrderOf(family, order, policy)
      BY <2>1, OrderOfSettles
    <2>3. /\ Listing = ListingOf(order)
          /\ \A o : [Listing EXCEPT !.order = o] = ListingOf(o)
      BY DEF Listing, ListingOf
    <2>4. /\ \A o : OrderOf("linux", o, policy)
                        = LinuxOrder(ListingOf(o), policy)
          /\ \A o : OrderOf("windows", o, policy)
                        = WindowsOrder(ListingOf(o), policy)
      BY DEF OrderOf
    <2> QED BY <2>2, <2>3, <2>4
  <1> QED BY <1>1, HostInvariant, PTL
-----------------------------------------------------------------------------
(* Lists of commands *)

LEMMA NoListFacts ==
  1 \in DOMAIN NoList /\ NoList[1] = "not a list"
  BY DEF NoList

LEMMA NoListIsNone ==
  ASSUME NEW cmds \in Seq(Commands) PROVE cmds # NoList
  <1> SUFFICES ASSUME cmds = NoList PROVE FALSE
    OBVIOUS
  <1>1. 1 \in DOMAIN NoList /\ NoList[1] = "not a list"
    BY NoListFacts
  <1>2. \A k \in DOMAIN cmds : cmds[k] \in Commands
    OBVIOUS
  <1> QED BY <1>1, <1>2 DEF Commands

LEMMA SeqFacts ==
  ASSUME NEW S, NEW s \in Seq(S)
  PROVE  /\ Len(s) \in Nat /\ DOMAIN s = 1..Len(s)
         /\ \A k \in 1..Len(s) : s[k] \in S
         /\ s = [k \in 1..Len(s) |-> s[k]]
  OBVIOUS

LEMMA MapSeq ==
  ASSUME NEW S, NEW n \in Nat, NEW f \in [1..n -> S]
  PROVE  f \in Seq(S) /\ Len(f) = n
  OBVIOUS

\* cmds is in front of the list t, and the rest of t is s.
LEMMA PrefixedFacts ==
  ASSUME NEW S, NEW s \in Seq(S), NEW x \in S
  PROVE  /\ <<x>> \o s \in Seq(S)
         /\ \A y : Has(<<x>> \o s, y) <=> y = x \/ Has(s, y)
  <1> DEFINE t == <<x>> \o s
  <1>1. /\ t \in Seq(S) /\ Len(t) = Len(s) + 1 /\ t[1] = x
        /\ \A k \in 1..Len(s) : t[k + 1] = s[k]
    <2>1. <<x>> \in Seq(S) /\ Len(<<x>>) = 1 /\ <<x>>[1] = x
      OBVIOUS
    <2>2. /\ t \in Seq(S) /\ Len(t) = 1 + Len(s)
          /\ \A i \in 1..(1 + Len(s)) :
                 t[i] = IF i <= 1 THEN <<x>>[i] ELSE s[i - 1]
      BY <2>1, ConcatProperties
    <2>3. Len(s) \in Nat
      OBVIOUS
    <2> HIDE DEF t
    <2>4. \A k \in 1..Len(s) : /\ k + 1 \in 1..(1 + Len(s)) /\ ~(k + 1 <= 1)
                               /\ (k + 1) - 1 = k
      BY <2>3
    <2>5. 1 \in 1..(1 + Len(s))
      BY <2>3
    <2> QED BY <2>1, <2>2, <2>3, <2>4, <2>5
  <1>2. Len(s) \in Nat /\ DOMAIN s = 1..Len(s)
    OBVIOUS
  <1> HIDE DEF t
  <1>3. DOMAIN t = 1..(Len(s) + 1)
    BY <1>1
  <1>4. ASSUME NEW y PROVE Has(t, y) <=> y = x \/ Has(s, y)
    <2>1. ASSUME Has(t, y) PROVE y = x \/ Has(s, y)
      <3>1. PICK k \in 1..(Len(s) + 1) : t[k] = y
        BY <1>3, <2>1 DEF Has
      <3>2. CASE k = 1
        BY <1>1, <3>1, <3>2
      <3>3. CASE k # 1
        <4>1. k - 1 \in 1..Len(s) /\ (k - 1) + 1 = k
          BY <1>2, <3>3
        <4>2. s[k - 1] = y
          BY <1>1, <3>1, <4>1
        <4> QED BY <1>2, <4>1, <4>2 DEF Has
      <3> QED BY <3>2, <3>3
    <2>2. ASSUME y = x PROVE Has(t, y)
      <3>1. 1 \in DOMAIN t
        BY <1>2, <1>3
      <3> QED BY <1>1, <2>2, <3>1 DEF Has
    <2>3. ASSUME Has(s, y) PROVE Has(t, y)
      <3>1. PICK k \in 1..Len(s) : s[k] = y
        BY <1>2, <2>3 DEF Has
      <3>2. k + 1 \in DOMAIN t /\ t[k + 1] = y
        BY <1>1, <1>2, <1>3, <3>1
      <3> QED BY <3>2 DEF Has
    <2> QED BY <2>1, <2>2, <2>3
  <1> QED BY <1>1, <1>4 DEF t

LEMMA AppendedFacts ==
  ASSUME NEW S, NEW s \in Seq(S), NEW x \in S
  PROVE  /\ Append(s, x) \in Seq(S) /\ Len(Append(s, x)) = Len(s) + 1
         /\ Append(s, x)[Len(s) + 1] = x
         /\ \A k \in 1..Len(s) : Append(s, x)[k] = s[k]
         /\ \A y : Has(Append(s, x), y) <=> y = x \/ Has(s, y)
  <1> DEFINE t == Append(s, x)
  <1>1. /\ t \in Seq(S) /\ Len(t) = Len(s) + 1 /\ t[Len(s) + 1] = x
        /\ \A k \in 1..Len(s) : t[k] = s[k]
    OBVIOUS
  <1>2. Len(s) \in Nat /\ DOMAIN s = 1..Len(s) /\ DOMAIN t = 1..(Len(s) + 1)
    OBVIOUS
  <1> HIDE DEF t
  <1>3. \A k \in 1..(Len(s) + 1) : k \in 1..Len(s) \/ k = Len(s) + 1
    BY <1>2
  <1>4. Len(s) + 1 \in 1..(Len(s) + 1) /\ 1..Len(s) \subseteq 1..(Len(s) + 1)
    BY <1>2
  <1>5. \A y : Has(t, y) <=> y = x \/ Has(s, y)
    BY <1>1, <1>2, <1>3, <1>4 DEF Has
  <1> QED BY <1>1, <1>5 DEF t

\* A list without the elements that equal x
Others(s, x) == {k \in DOMAIN s : s[k] # x}

Without(s, x) == Picked(s, Others(s, x))

LEMMA WithoutFacts ==
  ASSUME NEW S, NEW s \in Seq(S), NEW x,
         NEW t, t = Without(s, x)
  PROVE  /\ t \in Seq(S)
         /\ \A y : Has(t, y) <=> y # x /\ Has(s, y)
         /\ ~Has(s, x) => t = s
  <1>1. Len(s) \in Nat /\ DOMAIN s = 1..Len(s)
    OBVIOUS
  <1> DEFINE keep == Others(s, x)
  <1>2. keep \in SUBSET (1..Len(s)) /\ t = Picked(s, keep)
    BY <1>1 DEF Others, Without
  <1>3. \A k \in 1..Len(s) : k \in keep <=> s[k] # x
    BY <1>1 DEF Others
  <1> HIDE DEF keep
  <1>4. PICK p : Lists(p, keep) /\ Picked(s, keep) = Through(s, p)
    BY <1>2, PickedThrough
  <1>5. p \in Seq(keep)
    BY <1>4 DEF Lists
  <1>6. /\ t \in Seq(S) /\ DOMAIN p = 1..Len(p) /\ DOMAIN t = 1..Len(p)
        /\ \A i \in 1..Len(p) :
               p[i] \in keep /\ p[i] \in 1..Len(s) /\ t[i] = s[p[i]]
    <2>1. /\ Through(s, p) \in Seq(S) /\ DOMAIN p = 1..Len(p)
          /\ DOMAIN Through(s, p) = 1..Len(p)
      BY <1>2, <1>5, ThroughTypes
    <2>2. \A i \in 1..Len(p) :
              p[i] \in keep /\ p[i] \in 1..Len(s) /\ Through(s, p)[i] = s[p[i]]
      BY <1>2, <1>5, ThroughTypes
    <2>3. t = Through(s, p)
      BY <1>2, <1>4
    <2> QED BY <2>1, <2>2, <2>3
  <1>7. ASSUME NEW y PROVE Has(t, y) <=> y # x /\ Has(s, y)
    <2>1. ASSUME Has(t, y) PROVE y # x /\ Has(s, y)
      BY <1>1, <1>3, <1>6, <2>1 DEF Has
    <2>2. ASSUME y # x, Has(s, y) PROVE Has(t, y)
      <3>1. PICK k \in 1..Len(s) : s[k] = y
        BY <1>1, <2>2 DEF Has
      <3>2. k \in keep
        BY <1>3, <2>2, <3>1
      <3>3. PICK i \in 1..Len(p) : p[i] = k
        BY <1>4, <1>6, <3>2 DEF Lists
      <3> QED BY <1>6, <3>1, <3>3 DEF Has
    <2> QED BY <2>1, <2>2
  <1>8. ASSUME ~Has(s, x) PROVE t = s
    <2>1. keep = 1..Len(s)
      BY <1>1, <1>2, <1>3, <1>8 DEF Has
    <2> DEFINE b == [k \in 1..Len(s) |-> 0]
    <2>2. b \in [1..Len(s) -> Nat] /\ \A i, j \in 1..Len(s) : b[i] = b[j] /\ b[i] <= b[j]
      OBVIOUS
    <2> HIDE DEF b
    <2>3. Arranged(t, s, b, 1..Len(s))
      BY <1>2, <2>1, <2>2, PickedArranged
    <2> QED BY <2>2, <2>3, ArrangedStays
  <1> QED BY <1>6, <1>7, <1>8

LEMMA SingleFacts ==
  ASSUME NEW S, NEW x \in S
  PROVE  <<x>> \in Seq(S) /\ \A y : Has(<<x>>, y) <=> y = x
  <1>1. <<x>> \in Seq(S) /\ DOMAIN <<x>> = {1} /\ <<x>>[1] = x
    OBVIOUS
  <1> QED BY <1>1 DEF Has

\* A command that is put in front where it is missing
LEMMA PrefixedAdds ==
  ASSUME NEW cmd \in Commands, NEW cmds \in CommandLists, NEW found \in BOOLEAN,
         NEW r, r = Prefixed(cmd, cmds, found)
  PROVE  /\ r \in Seq(Commands)
         /\ ~found => Has(r, cmd)
         /\ \A y : Has(r, y) => y = cmd \/ (cmds # NoList /\ Has(cmds, y))
         /\ \A y : cmds # NoList /\ Has(cmds, y) => Has(r, y)
         /\ cmds = NoList => Has(r, cmd)
         /\ cmds # NoList /\ found => r = cmds
  <1>1. CASE cmds = NoList
    BY <1>1, SingleFacts DEF Prefixed
  <1>2. CASE cmds # NoList /\ found
    BY <1>2 DEF Prefixed, CommandLists
  <1>3. CASE cmds # NoList /\ ~found
    <2>1. cmds \in Seq(Commands)
      BY <1>3 DEF CommandLists
    <2>2. r = <<cmd>> \o cmds
      BY <1>3 DEF Prefixed
    <2> QED BY <1>3, <2>1, <2>2, PrefixedFacts
  <1> QED BY <1>1, <1>2, <1>3

LEMMA CommandNames ==
  /\ {"imaging", "imaging?", "phone", "phone?", "wifi", "confirm", "inline",
      "log", "order", "reboot", "sysrq", "other"} \subseteq Commands
  /\ \A cmd \in Commands : NormalizeCallback(cmd) \in Commands
  /\ \A cmd \in Commands : NormalizeCallback(cmd) \notin {"imaging?", "phone?"}
  /\ \A cmd \in Commands :
         cmd \notin {"imaging?", "phone?"} => NormalizeCallback(cmd) = cmd
  /\ \A cmd \in Commands : \A other \in {"wifi", "confirm", "inline", "order",
                                         "reboot", "sysrq"} :
         NormalizeCallback(cmd) = other <=> cmd = other
  BY DEF Commands, NormalizeCallback

LEMMA NormalizeFacts ==
  ASSUME NEW cmds \in Seq(Commands), NEW r, r = NormalizeCallbacks(cmds)
  PROVE  /\ r \in Seq(Commands) /\ Len(r) = Len(cmds)
         /\ \A k \in 1..Len(cmds) : r[k] = NormalizeCallback(cmds[k])
         /\ ~Has(r, "imaging?") /\ ~Has(r, "phone?")
         /\ ~Has(cmds, "imaging?") /\ ~Has(cmds, "phone?") => r = cmds
         /\ \A x \in {"wifi", "confirm", "inline", "order", "reboot", "sysrq"} :
                Has(r, x) <=> Has(cmds, x)
         /\ HasImagingCallback(cmds) => Has(r, "imaging")
  <1>1. /\ Len(cmds) \in Nat /\ DOMAIN cmds = 1..Len(cmds)
        /\ \A k \in 1..Len(cmds) : cmds[k] \in Commands
        /\ cmds = [k \in 1..Len(cmds) |-> cmds[k]]
    BY SeqFacts
  <1>2. r = [k \in 1..Len(cmds) |-> NormalizeCallback(cmds[k])]
    BY <1>1, NoListIsNone DEF NormalizeCallbacks
  <1>3. r \in [1..Len(cmds) -> Commands]
    BY <1>1, <1>2, CommandNames
  <1>4. r \in Seq(Commands) /\ Len(r) = Len(cmds) /\ DOMAIN r = 1..Len(cmds)
    BY <1>1, <1>3, MapSeq
  <1>5. \A k \in 1..Len(cmds) : r[k] = NormalizeCallback(cmds[k])
    BY <1>2
  <1>6. ~Has(r, "imaging?") /\ ~Has(r, "phone?")
    BY <1>1, <1>4, <1>5, CommandNames DEF Has
  <1>7. ~Has(cmds, "imaging?") /\ ~Has(cmds, "phone?") => r = cmds
    <2> SUFFICES ASSUME ~Has(cmds, "imaging?"), ~Has(cmds, "phone?")
                 PROVE  r = cmds
      OBVIOUS
    <2>1. \A k \in 1..Len(cmds) : cmds[k] \notin {"imaging?", "phone?"}
      BY <1>1 DEF Has
    <2>2. \A k \in 1..Len(cmds) : NormalizeCallback(cmds[k]) = cmds[k]
      BY <1>1, <2>1, CommandNames
    <2> QED BY <1>1, <1>2, <2>2
  <1>8. \A x \in {"wifi", "confirm", "inline", "order", "reboot", "sysrq"} :
            Has(r, x) <=> Has(cmds, x)
    BY <1>1, <1>4, <1>5, CommandNames DEF Has
  <1>9. ASSUME HasImagingCallback(cmds) PROVE Has(r, "imaging")
    <2>1. PICK k \in 1..Len(cmds) : cmds[k] \in {"imaging", "imaging?"}
      BY <1>1, <1>9 DEF HasImagingCallback, Has
    <2>2. r[k] = "imaging"
      BY <1>5, <2>1 DEF NormalizeCallback
    <2> QED BY <1>4, <2>2 DEF Has
  <1> QED BY <1>4, <1>5, <1>6, <1>7, <1>8, <1>9

\* What a list of early commands has once it is complete
EarlyDone(cmds) ==
    /\ cmds \in Seq(Commands)
    /\ Has(cmds, "wifi") /\ Has(cmds, "imaging") /\ Has(cmds, "confirm")
    /\ ~Has(cmds, "inline")
    /\ ~Has(cmds, "imaging?") /\ ~Has(cmds, "phone?")

LEMMA EarlyIsDone ==
  ASSUME NEW cmds \in CommandLists
  PROVE  EarlyDone(EarlyCommands(cmds))
  <1>1. PICK a : a = EnsureQuietWifi(cmds)
    OBVIOUS
  <1>2. PICK b : b = EnsureImaging(a)
    OBVIOUS
  <1>3. PICK c : c = EnsureConfirm(b)
    OBVIOUS
  <1>4. PICK d : d = NormalizeCallbacks(c)
    OBVIOUS
  <1>5. a \in Seq(Commands) /\ a # NoList /\ a \in CommandLists /\ Has(a, "wifi")
    <2>1. "wifi" \in Commands /\ Has(cmds, "wifi") \in BOOLEAN
      BY DEF Commands, Has
    <2>2. a = Prefixed("wifi", cmds, Has(cmds, "wifi"))
      BY <1>1 DEF EnsureQuietWifi
    <2>3. a \in Seq(Commands) /\ Has(a, "wifi")
      BY <2>1, <2>2, PrefixedAdds
    <2> QED BY <2>3, NoListIsNone DEF CommandLists
  <1>6. /\ b \in Seq(Commands) /\ b # NoList /\ Has(b, "wifi")
        /\ HasImagingCallback(b)
    <2>1. "imaging" \in Commands /\ HasImagingCallback(a) \in BOOLEAN
      BY DEF Commands, HasImagingCallback
    <2>2. b = Prefixed("imaging", a, HasImagingCallback(a))
      BY <1>2 DEF EnsureImaging
    <2>3. /\ b \in Seq(Commands) /\ Has(b, "wifi")
          /\ ~HasImagingCallback(a) => Has(b, "imaging")
          /\ HasImagingCallback(a) => b = a
      BY <1>5, <2>1, <2>2, PrefixedAdds
    <2> QED BY <2>3, NoListIsNone DEF HasImagingCallback
  <1>7. /\ c \in Seq(Commands) /\ Has(c, "wifi") /\ Has(c, "confirm")
        /\ HasImagingCallback(c) /\ ~Has(c, "inline")
    <2>1. PICK kept : kept = Without(b, "inline")
      OBVIOUS
    <2>2. /\ kept \in Seq(Commands)
          /\ \A y : Has(kept, y) <=> y # "inline" /\ Has(b, y)
      <3>1. b \in Seq(Commands)
        BY <1>6
      <3>2. kept \in Seq(Commands)
        BY <2>1, <3>1, WithoutFacts
      <3>3. \A y : Has(kept, y) <=> y # "inline" /\ Has(b, y)
        BY <2>1, <3>1, WithoutFacts
      <3> QED BY <3>2, <3>3
    <2>3. kept # NoList /\ kept \in CommandLists
      BY <2>2, NoListIsNone DEF CommandLists
    <2>4. c = Prefixed("confirm", kept, Has(kept, "confirm"))
      BY <1>3, <1>6, <2>1 DEF EnsureConfirm, Without, Others
    <2>5. "confirm" \in Commands /\ Has(kept, "confirm") \in BOOLEAN
      BY DEF Commands, Has
    <2>6. /\ c \in Seq(Commands)
          /\ ~Has(kept, "confirm") => Has(c, "confirm")
          /\ Has(kept, "confirm") => Has(c, "confirm")
          /\ \A y : Has(c, y) => y = "confirm" \/ Has(kept, y)
          /\ \A y : Has(kept, y) => Has(c, y)
      BY <2>3, <2>4, <2>5, PrefixedAdds
    <2> QED BY <1>6, <2>2, <2>6 DEF HasImagingCallback
  <1>8. EarlyDone(d)
    BY <1>4, <1>7, NormalizeFacts DEF EarlyDone
  <1> QED BY <1>1, <1>2, <1>3, <1>4, <1>8 DEF EarlyCommands

LEMMA EarlyDoneStays ==
  ASSUME NEW cmds, EarlyDone(cmds)
  PROVE  EarlyCommands(cmds) = cmds
  <1>1. cmds \in Seq(Commands) /\ cmds # NoList
    BY NoListIsNone DEF EarlyDone
  <1>2. EnsureQuietWifi(cmds) = cmds
    BY <1>1 DEF EarlyDone, EnsureQuietWifi, Prefixed
  <1>3. EnsureImaging(cmds) = cmds
    BY <1>1 DEF EarlyDone, EnsureImaging, HasImagingCallback, Prefixed
  <1>4. EnsureConfirm(cmds) = cmds
    <2>1. Without(cmds, "inline") = cmds
      BY <1>1, WithoutFacts DEF EarlyDone
    <2> QED BY <1>1, <2>1
            DEF EarlyDone, EnsureConfirm, Prefixed, Without, Others
  <1>5. NormalizeCallbacks(cmds) = cmds
    BY <1>1, NormalizeFacts DEF EarlyDone
  <1> QED BY <1>2, <1>3, <1>4, <1>5 DEF EarlyCommands

LEMMA InsertFacts ==
  ASSUME NEW S, NEW s \in Seq(S), NEW x \in S, NEW i \in 1..(Len(s) + 1),
         NEW t, t = InsertAt(s, i, x)
  PROVE  /\ t \in Seq(S) /\ Len(t) = Len(s) + 1
         /\ \A k \in 1..(i - 1) : t[k] = s[k]
         /\ t[i] = x
         /\ \A k \in i..Len(s) : t[k + 1] = s[k]
  <1>1. PICK a : a = SubSeq(s, 1, i - 1)
    OBVIOUS
  <1>2. PICK b : b = SubSeq(s, i, Len(s))
    OBVIOUS
  <1>3. PICK c : c = a \o <<x>>
    OBVIOUS
  <1>4. t = c \o b
    BY <1>1, <1>2, <1>3 DEF InsertAt
  <1>5. Len(s) \in Nat /\ i \in Nat /\ i >= 1 /\ i <= Len(s) + 1
    OBVIOUS
  <1>6. a \in Seq(S) /\ Len(a) = i - 1 /\ \A k \in 1..(i - 1) : a[k] = s[k]
    BY <1>1, <1>5
  <1>7. /\ b \in Seq(S) /\ Len(b) = Len(s) - i + 1
        /\ \A k \in 1..(Len(s) - i + 1) : b[k] = s[i + k - 1]
    BY <1>2, <1>5
  <1>8. /\ c \in Seq(S) /\ Len(c) = i /\ c[i] = x
        /\ \A k \in 1..(i - 1) : c[k] = s[k]
    BY <1>3, <1>5, <1>6
  <1>9. /\ t \in Seq(S) /\ Len(t) = i + (Len(s) - i + 1)
        /\ \A k \in 1..(i + (Len(s) - i + 1)) :
               t[k] = IF k <= i THEN c[k] ELSE b[k - i]
    <2>1. /\ t \in Seq(S) /\ Len(t) = Len(c) + Len(b)
          /\ \A k \in 1..(Len(c) + Len(b)) :
                 t[k] = IF k <= Len(c) THEN c[k] ELSE b[k - Len(c)]
      <3>1. c \in Seq(S) /\ b \in Seq(S)
        BY <1>7, <1>8
      <3> QED BY <1>4, <3>1, ConcatProperties
    <2> QED BY <1>7, <1>8, <2>1
  <1>10. ASSUME NEW k \in i..Len(s) PROVE t[k + 1] = s[k]
    <2>1. /\ k + 1 \in 1..(i + (Len(s) - i + 1)) /\ ~(k + 1 <= i)
          /\ (k + 1) - i \in 1..(Len(s) - i + 1) /\ i + ((k + 1) - i) - 1 = k
      BY <1>5
    <2> QED BY <1>7, <1>9, <2>1
  <1>11. ASSUME NEW k \in 1..(i - 1) PROVE t[k] = s[k]
    <2>1. k \in 1..(i + (Len(s) - i + 1)) /\ k <= i
      BY <1>5
    <2> QED BY <1>8, <1>9, <2>1
  <1>12. t[i] = x
    <2>1. i \in 1..(i + (Len(s) - i + 1)) /\ i <= i
      BY <1>5
    <2> QED BY <1>8, <1>9, <2>1
  <1>13. Len(t) = Len(s) + 1
    BY <1>5, <1>9
  <1> QED BY <1>9, <1>10, <1>11, <1>12, <1>13

\* The blocking reboot: what was there stays where it was.
LEMMA RebootFacts ==
  ASSUME NEW cmds \in Seq(Commands), NEW r, r = EnsureForceReboot(cmds)
  PROVE  /\ r \in Seq(Commands) /\ Len(r) >= Len(cmds)
         /\ \A k \in 1..Len(cmds) :
                r[k] = IF cmds[k] = "sysrq" THEN "reboot" ELSE cmds[k]
         /\ Has(r, "reboot") /\ ~Has(r, "sysrq")
         /\ \A x \in {"order", "imaging?", "phone?"} : Has(r, x) <=> Has(cmds, x)
         /\ Has(cmds, "reboot") /\ ~Has(cmds, "sysrq") => r = cmds
  <1> DEFINE w == [k \in 1..Len(cmds) |->
                      IF cmds[k] = "sysrq" THEN "reboot" ELSE cmds[k]]
  <1>1. /\ Len(cmds) \in Nat /\ DOMAIN cmds = 1..Len(cmds)
        /\ \A k \in 1..Len(cmds) : cmds[k] \in Commands
        /\ cmds = [k \in 1..Len(cmds) |-> cmds[k]]
    BY SeqFacts
  <1>2. "reboot" \in Commands
    BY DEF Commands
  <1>3. r = IF Has(w, "reboot") THEN w ELSE Append(w, "reboot")
    BY <1>1, NoListIsNone DEF EnsureForceReboot
  <1>4. w \in [1..Len(cmds) -> Commands]
    BY <1>2, <1>1
  <1>5. w \in Seq(Commands) /\ Len(w) = Len(cmds) /\ DOMAIN w = 1..Len(cmds)
    BY <1>1, <1>4, MapSeq
  <1>6. \A k \in 1..Len(cmds) :
            w[k] = IF cmds[k] = "sysrq" THEN "reboot" ELSE cmds[k]
    OBVIOUS
  <1>7. ~Has(cmds, "sysrq") => w = cmds
    <2> SUFFICES ASSUME ~Has(cmds, "sysrq") PROVE w = cmds
      OBVIOUS
    <2>1. \A k \in 1..Len(cmds) : cmds[k] # "sysrq"
      BY <1>1 DEF Has
    <2> QED BY <1>1, <2>1
  <1> HIDE DEF w
  <1>8. /\ ~Has(w, "sysrq")
        /\ \A x \in {"order", "imaging?", "phone?"} : Has(w, x) <=> Has(cmds, x)
    BY <1>1, <1>5, <1>6 DEF Has
  <1>9. CASE Has(w, "reboot")
    BY <1>3, <1>5, <1>6, <1>8, <1>9, <1>7, <1>1
  <1>10. CASE ~Has(w, "reboot")
    <2>1. r = Append(w, "reboot")
      BY <1>3, <1>10
    <2>2. /\ r \in Seq(Commands) /\ Len(r) = Len(w) + 1
          /\ \A k \in 1..Len(w) : r[k] = w[k]
          /\ \A y : Has(r, y) <=> y = "reboot" \/ Has(w, y)
      BY <1>2, <1>5, <2>1, AppendedFacts
    <2> QED BY <1>1, <1>5, <1>6, <1>8, <1>10, <1>7, <2>2
  <1> QED BY <1>9, <1>10

\* The boot-order helper: before the first reboot
OrderAt(list) ==
    IF {k \in DOMAIN list : list[k] = "reboot"} = {} THEN Len(list) + 1
    ELSE Min({k \in DOMAIN list : list[k] = "reboot"})

LEMMA OrderAtFacts ==
  ASSUME NEW list \in Seq(Commands), Has(list, "reboot"), NEW i, i = OrderAt(list)
  PROVE  /\ i \in 1..Len(list) /\ list[i] = "reboot"
         /\ \A k \in 1..(i - 1) : list[k] # "reboot"
  <1> DEFINE T == {k \in DOMAIN list : list[k] = "reboot"}
  <1>1. Len(list) \in Nat /\ DOMAIN list = 1..Len(list)
    OBVIOUS
  <1>2. T # {} /\ T \subseteq Nat
    BY <1>1 DEF Has
  <1>3. i = Min(T)
    BY <1>2 DEF OrderAt
  <1>4. \A k \in 1..Len(list) : k \in T <=> list[k] = "reboot"
    BY <1>1
  <1>5. T \subseteq 1..Len(list)
    BY <1>1
  <1> HIDE DEF T
  <1>6. \E x \in T : \A y \in T : x <= y
    BY <1>2, LeastExists
  <1>7. i \in T /\ \A y \in T : i <= y
    BY <1>3, <1>6 DEF Min
  <1>8. ASSUME NEW k \in 1..(i - 1) PROVE list[k] # "reboot"
    <2>1. k \in 1..Len(list) /\ ~(i <= k)
      BY <1>1, <1>7, <1>5
    <2> QED BY <1>7, <1>4, <2>1
  <1> QED BY <1>7, <1>8, <1>4, <1>5

LEMMA UefiOrderFacts ==
  ASSUME NEW list \in Seq(Commands), NEW policy \in Policies,
         Has(list, "reboot"), NEW r, r = EnsureUefiOrder(list, policy)
  PROVE  /\ r \in Seq(Commands) /\ Has(r, "order") /\ Has(r, "reboot")
         /\ \A x \in {"sysrq", "imaging?", "phone?"} : Has(r, x) => Has(list, x)
         /\ Has(list, "order") => r = list
         /\ ~Has(list, "order") =>
                \E i \in 1..Len(list) :
                    /\ list[i] = "reboot"
                    /\ \A k \in 1..(i - 1) : list[k] # "reboot" /\ r[k] = list[k]
                    /\ r[i] = "order" /\ i \in DOMAIN r
  <1>1. policy \in {"pxe", "disk"}
    BY DEF Policies
  <1>2. /\ Len(list) \in Nat /\ DOMAIN list = 1..Len(list)
        /\ AsList(list) = list
    BY NoListIsNone DEF AsList
  <1>3. CASE Has(list, "order")
    <2>1. r = list
      BY <1>1, <1>2, <1>3 DEF EnsureUefiOrder
    <2> QED BY <1>3, <2>1
  <1>4. CASE ~Has(list, "order")
    <2>1. PICK i : i = OrderAt(list)
      OBVIOUS
    <2>2. /\ i \in 1..Len(list) /\ list[i] = "reboot"
          /\ \A k \in 1..(i - 1) : list[k] # "reboot"
      BY <2>1, OrderAtFacts
    <2>3. r = InsertAt(list, i, "order")
      BY <1>1, <1>2, <1>4, <2>1 DEF EnsureUefiOrder, OrderAt
    <2>4. /\ r \in Seq(Commands) /\ Len(r) = Len(list) + 1
          /\ \A k \in 1..(i - 1) : r[k] = list[k]
          /\ r[i] = "order"
          /\ \A k \in i..Len(list) : r[k + 1] = list[k]
      <3>1. "order" \in Commands /\ i \in 1..(Len(list) + 1)
        BY <1>2, <2>2 DEF Commands
      <3> QED BY <2>3, <3>1, InsertFacts
    <2>5. DOMAIN r = 1..(Len(list) + 1)
      BY <2>4
    <2>6. Has(r, "order") /\ i \in DOMAIN r
      BY <1>2, <2>2, <2>4, <2>5 DEF Has
    <2>7. Has(r, "reboot")
      <3>1. i + 1 \in DOMAIN r /\ r[i + 1] = "reboot"
        BY <1>2, <2>2, <2>4, <2>5
      <3> QED BY <3>1 DEF Has
    <2>8. ASSUME NEW x \in {"sysrq", "imaging?", "phone?"}, Has(r, x)
          PROVE  Has(list, x)
      <3>1. PICK k \in 1..(Len(list) + 1) : r[k] = x
        BY <2>5, <2>8 DEF Has
      <3>2. CASE k < i
        <4>1. k \in 1..Len(list) /\ list[k] = x
          BY <1>2, <2>2, <2>4, <3>1, <3>2
        <4> QED BY <1>2, <4>1 DEF Has
      <3>3. CASE k > i
        <4>1. k - 1 \in i..Len(list) /\ (k - 1) + 1 = k
          BY <1>2, <2>2, <3>3
        <4>2. k - 1 \in 1..Len(list) /\ list[k - 1] = x
          BY <1>2, <2>2, <2>4, <3>1, <4>1
        <4> QED BY <1>2, <4>2 DEF Has
      <3>4. CASE k = i
        BY <2>4, <2>8, <3>1, <3>4
      <3> QED BY <1>2, <2>2, <3>2, <3>3, <3>4
    <2> QED BY <1>4, <2>2, <2>4, <2>6, <2>7, <2>8
  <1> QED BY <1>3, <1>4

LateDone(cmds) ==
    /\ cmds \in Seq(Commands)
    /\ Has(cmds, "reboot") /\ Has(cmds, "order")
    /\ ~Has(cmds, "sysrq") /\ ~Has(cmds, "imaging?") /\ ~Has(cmds, "phone?")

\* A list of commands without the callbacks of old seeds
LEMMA NormalizedList ==
  ASSUME NEW cmds \in CommandLists
  PROVE  LET n == NormalizeCallbacks(cmds)
         IN  \/ cmds = NoList /\ n = NoList
             \/ /\ cmds \in Seq(Commands) /\ n \in Seq(Commands)
                /\ ~Has(n, "imaging?") /\ ~Has(n, "phone?")
  <1>1. CASE cmds = NoList
    BY <1>1 DEF NormalizeCallbacks
  <1>2. CASE cmds \in Seq(Commands)
    BY <1>2, NormalizeFacts
  <1> QED BY <1>1, <1>2 DEF CommandLists

LEMMA LateIsDone ==
  ASSUME NEW cmds \in CommandLists, NEW policy \in Policies
  PROVE  LateDone(LateCommands(cmds, policy))
  <1>1. PICK n : n = NormalizeCallbacks(cmds)
    OBVIOUS
  <1>2. PICK w : w = EnsureForceReboot(n)
    OBVIOUS
  <1>3. PICK r : r = EnsureUefiOrder(w, policy)
    OBVIOUS
  <1>4. /\ w \in Seq(Commands) /\ Has(w, "reboot")
        /\ ~Has(w, "sysrq") /\ ~Has(w, "imaging?") /\ ~Has(w, "phone?")
    <2>1. CASE n = NoList
      <3>1. w = <<"reboot">> /\ "reboot" \in Commands
        BY <1>2, <2>1 DEF EnsureForceReboot, Commands
      <3> QED BY <3>1, SingleFacts
    <2>2. CASE n \in Seq(Commands) /\ ~Has(n, "imaging?") /\ ~Has(n, "phone?")
      BY <1>2, <2>2, RebootFacts
    <2> QED BY <1>1, <2>1, <2>2, NormalizedList
  <1>5. LateDone(r)
    BY <1>3, <1>4, UefiOrderFacts DEF LateDone
  <1> QED BY <1>1, <1>2, <1>3, <1>5 DEF LateCommands

LEMMA LateDoneStays ==
  ASSUME NEW cmds, LateDone(cmds), NEW policy \in Policies
  PROVE  LateCommands(cmds, policy) = cmds
  <1>1. NormalizeCallbacks(cmds) = cmds
    BY NormalizeFacts DEF LateDone
  <1>2. EnsureForceReboot(cmds) = cmds
    BY RebootFacts DEF LateDone
  <1>3. EnsureUefiOrder(cmds, policy) = cmds
    BY UefiOrderFacts DEF LateDone
  <1> QED BY <1>1, <1>2, <1>3 DEF LateCommands
-----------------------------------------------------------------------------
(* A rendered seed *)

LEMMA ErrorSettles ==
  ASSUME NEW cmds \in CommandLists
  PROVE  EnsureInstallLog(EnsureInstallLog(cmds)) = EnsureInstallLog(cmds)
  <1>1. "log" \in Commands
    BY DEF Commands
  <1>2. PICK r : r = EnsureInstallLog(cmds)
    OBVIOUS
  <1>3. r \in Seq(Commands) /\ Has(r, "log")
    <2>1. CASE cmds = NoList
      BY <1>1, <1>2, <2>1, SingleFacts DEF EnsureInstallLog
    <2>2. CASE cmds # NoList /\ Has(cmds, "log")
      BY <1>2, <2>2 DEF EnsureInstallLog, CommandLists
    <2>3. CASE cmds # NoList /\ ~Has(cmds, "log")
      <3>1. cmds \in Seq(Commands) /\ r = Append(cmds, "log")
        BY <1>2, <2>3 DEF EnsureInstallLog, CommandLists
      <3> QED BY <1>1, <3>1, AppendedFacts
    <2> QED BY <2>1, <2>2, <2>3
  <1>4. EnsureInstallLog(r) = r
    BY <1>3, NoListIsNone DEF EnsureInstallLog
  <1> QED BY <1>2, <1>4

LEMMA NicsSettle ==
  ASSUME NEW nics
  PROVE  EnsureOptionalNics(EnsureOptionalNics(nics)) = EnsureOptionalNics(nics)
  BY DEF EnsureOptionalNics

LEMMA SourceSettles ==
  ASSUME NEW source, NEW catalog
  PROVE  EnsureSource(EnsureSource(source, catalog), catalog)
             = EnsureSource(source, catalog)
  BY DEF EnsureSource

LEMMA SafeUserSettles == \A user : SafeUser(SafeUser(user)) = SafeUser(user)
  BY DEF SafeUser

LEMMA SafeUserNamed == \A user : SafeUser(user) # "" <=> user # ""
  BY DEF SafeUser

\* Completing the identity of a mapping whose identity is complete, or whose
\* user-data adds too little, changes nothing any more.
LEMMA IdentitySettles ==
  ASSUME NEW auto, NEW again,
         auto.identity \in [user : STRING, host : BOOLEAN, password : BOOLEAN],
         again.identity = CompleteIdentity(auto),
         again.userData = auto.userData
  PROVE  CompleteIdentity(again) = again.identity
  <1>1. PICK found : found = IdentityFromUserData(auto)
    OBVIOUS
  <1>2. IdentityFromUserData(again) = found
    BY <1>1 DEF IdentityFromUserData
  <1>3. PICK own : own = auto.identity
    OBVIOUS
  <1>4. PICK merged :
            merged = [user |-> SafeUser(IF own.user # "" THEN own.user
                                        ELSE found.user),
                      host |-> own.host \/ found.host,
                      password |-> own.password \/ found.password]
    OBVIOUS
  <1>5. PICK named : named = EnsureIdentity(auto)
    OBVIOUS
  <1>6. named = IF ~Complete3(own) /\ Complete3(merged) THEN merged ELSE own
    BY <1>1, <1>3, <1>4, <1>5 DEF EnsureIdentity
  <1>7. PICK id : id = CompleteIdentity(auto)
    OBVIOUS
  <1>8. id = [named EXCEPT !.user = SafeUser(named.user)]
    BY <1>5, <1>7 DEF CompleteIdentity
  <1>9. own = [user |-> own.user, host |-> own.host, password |-> own.password]
    BY <1>3
  <1>10. EnsureIdentity(again) = id
    <2>1. CASE ~Complete3(own) /\ Complete3(merged)
      <3>1. named = merged
        BY <1>6, <2>1
      <3>2. Complete3(id)
        BY <1>4, <1>8, <2>1, <3>1, SafeUserNamed DEF Complete3
      <3> QED BY <1>7, <3>2 DEF EnsureIdentity
    <2>2. CASE Complete3(own)
      <3>1. named = own
        BY <1>6, <2>2
      <3>2. Complete3(id)
        BY <1>8, <1>9, <2>2, <3>1, SafeUserNamed DEF Complete3
      <3> QED BY <1>7, <3>2 DEF EnsureIdentity
    <2>3. CASE ~Complete3(own) /\ ~Complete3(merged)
      <3>1. id = [user |-> SafeUser(own.user), host |-> own.host,
                  password |-> own.password]
        BY <1>6, <1>8, <1>9, <2>3
      <3>2. PICK again3 :
                again3 = [user |-> SafeUser(IF id.user # "" THEN id.user
                                            ELSE found.user),
                          host |-> id.host \/ found.host,
                          password |-> id.password \/ found.password]
        OBVIOUS
      <3>3. EnsureIdentity(again) =
                IF ~Complete3(id) /\ Complete3(again3) THEN again3 ELSE id
        BY <1>2, <1>7, <3>2 DEF EnsureIdentity
      <3>4. again3 = merged
        <4>1. again3.user = merged.user
          BY <1>4, <3>1, <3>2, SafeUserNamed, SafeUserSettles
        <4> QED BY <1>4, <3>1, <3>2, <4>1
      <3> QED BY <2>3, <3>3, <3>4
    <2> QED BY <2>1, <2>2, <2>3
  <1>11. id.user = SafeUser(named.user) /\ id = [id EXCEPT !.user = id.user]
    <2>1. named = [user |-> named.user, host |-> named.host,
                   password |-> named.password]
      BY <1>4, <1>6, <1>9
    <2> QED BY <1>8, <2>1
  <1>12. CompleteIdentity(again) = [id EXCEPT !.user = SafeUser(id.user)]
    BY <1>10 DEF CompleteIdentity
  <1>13. SafeUser(id.user) = id.user
    BY <1>11, SafeUserSettles
  <1> QED BY <1>7, <1>11, <1>12, <1>13

LEMMA SeedSettles ==
  ASSUME NEW auto \in AutoInstalls, NEW policy \in Policies, NEW catalog
  PROVE  LET full == CompleteUserData(auto, policy, catalog)
         IN  CompleteUserData(full, policy, catalog) = full
  <1>1. PICK full : full = CompleteUserData(auto, policy, catalog)
    OBVIOUS
  <1>2. /\ auto.early \in CommandLists /\ auto.error \in CommandLists
        /\ auto.late \in CommandLists
        /\ auto.identity \in [user : STRING, host : BOOLEAN, password : BOOLEAN]
    BY DEF AutoInstalls
  <1>3. /\ full.keys = DropAutoinstallTimezone(auto.keys \union UnattendedKeys)
        /\ full.early = EarlyCommands(auto.early)
        /\ full.error = EnsureInstallLog(auto.error)
        /\ full.late = LateCommands(auto.late, policy)
        /\ full.identity = CompleteIdentity(auto)
        /\ full.userData = auto.userData
        /\ full.source = EnsureSource(auto.source, catalog)
        /\ full.nics = EnsureOptionalNics(auto.nics)
        /\ full.sshKeys = DropEmptySshKeyLists(auto.sshKeys)
    BY <1>1 DEF CompleteUserData
  <1>4. EarlyCommands(full.early) = full.early
    BY <1>2, <1>3, EarlyIsDone, EarlyDoneStays
  <1>5. EnsureInstallLog(full.error) = full.error
    BY <1>2, <1>3, ErrorSettles
  <1>6. LateCommands(full.late, policy) = full.late
    BY <1>2, <1>3, LateIsDone, LateDoneStays
  <1>7. CompleteIdentity(full) = full.identity
    BY <1>2, <1>3, IdentitySettles
  <1>8. EnsureSource(full.source, catalog) = full.source
    BY <1>3, SourceSettles
  <1>9. EnsureOptionalNics(full.nics) = full.nics
    BY <1>3, NicsSettle
  <1>10. DropAutoinstallTimezone(full.keys \union UnattendedKeys) = full.keys
    BY <1>3 DEF DropAutoinstallTimezone, UnattendedKeys
  <1>11. DropEmptySshKeyLists(full.sshKeys) = full.sshKeys
    BY <1>3 DEF DropEmptySshKeyLists
  <1>12. full = [keys |-> full.keys, early |-> full.early, error |-> full.error,
                 late |-> full.late, identity |-> full.identity,
                 userData |-> full.userData, source |-> full.source,
                 nics |-> full.nics, sshKeys |-> full.sshKeys]
    BY <1>1 DEF CompleteUserData
  <1>13. CompleteUserData(full, policy, catalog) = full
    BY <1>4, <1>5, <1>6, <1>7, <1>8, <1>9, <1>10, <1>11, <1>12
       DEF CompleteUserData
  <1> QED BY <1>1, <1>13
-----------------------------------------------------------------------------
(* Late commands: phone-home, reorder, reboot *)

LEMMA LateRuns ==
  ASSUME NEW cmds \in Seq(Commands), NEW policy \in Policies,
         ~Has(cmds, "order"), Before("phone", {"sysrq", "reboot"}, cmds),
         NEW r, r = LateCommands(cmds, policy)
  PROVE  /\ Before("phone", {"order", "reboot"}, r)
         /\ Before("order", {"reboot"}, r)
  <1>1. Len(cmds) \in Nat /\ DOMAIN cmds = 1..Len(cmds)
    OBVIOUS
  <1>2. PICK j \in 1..Len(cmds) :
            /\ cmds[j] = "phone"
            /\ \A k \in 1..j : cmds[k] \notin {"sysrq", "reboot"}
    BY <1>1 DEF Before
  <1>3. PICK n : n = NormalizeCallbacks(cmds)
    OBVIOUS
  <1>4. PICK w : w = EnsureForceReboot(n)
    OBVIOUS
  <1>5. r = EnsureUefiOrder(w, policy)
    BY <1>3, <1>4 DEF LateCommands
  <1>6. /\ n \in Seq(Commands) /\ Len(n) = Len(cmds)
        /\ ~Has(n, "order")
        /\ \A k \in 1..Len(cmds) : n[k] = NormalizeCallback(cmds[k])
    BY <1>3, NormalizeFacts
  <1>7. \A k \in 1..j : k \in 1..Len(cmds) /\ cmds[k] \notin {"sysrq", "reboot"}
    BY <1>1, <1>2
  <1>8. n[j] = "phone" /\ \A k \in 1..j : n[k] \notin {"sysrq", "reboot"}
    BY <1>2, <1>6, <1>7 DEF NormalizeCallback
  <1>9. /\ w \in Seq(Commands) /\ Len(w) >= Len(cmds)
        /\ Has(w, "reboot") /\ ~Has(w, "order")
        /\ \A k \in 1..Len(cmds) :
               w[k] = IF n[k] = "sysrq" THEN "reboot" ELSE n[k]
    BY <1>4, <1>6, RebootFacts
  <1>10. w[j] = "phone" /\ \A k \in 1..j : w[k] # "reboot"
    BY <1>2, <1>7, <1>8, <1>9
  <1>11. r \in Seq(Commands)
    BY <1>5, <1>9, UefiOrderFacts
  <1>12. PICK i \in 1..Len(w) :
            /\ w[i] = "reboot"
            /\ \A k \in 1..(i - 1) : w[k] # "reboot" /\ r[k] = w[k]
            /\ r[i] = "order" /\ i \in DOMAIN r
    BY <1>5, <1>9, UefiOrderFacts
  <1>13. /\ Len(w) \in Nat /\ DOMAIN w = 1..Len(w)
         /\ Len(r) \in Nat /\ DOMAIN r = 1..Len(r)
    BY <1>9, <1>11
  <1>14. \A k \in 1..Len(w) : w[k] # "order"
    BY <1>9, <1>13 DEF Has
  <1>15. i > j /\ j \in DOMAIN r
    <2>1. ~(i \in 1..j)
      BY <1>10, <1>12
    <2> QED BY <1>1, <1>12, <1>13, <2>1
  <1>16. \A k \in 1..j : k \in 1..(i - 1) /\ k \in 1..Len(w)
    BY <1>1, <1>12, <1>13, <1>15
  <1>17. r[j] = "phone" /\ \A k \in 1..j : r[k] \notin {"order", "reboot"}
    BY <1>1, <1>10, <1>12, <1>14, <1>16
  <1>18. \A k \in 1..i : r[k] # "reboot"
    <2>1. \A k \in 1..i : k = i \/ k \in 1..(i - 1)
      BY <1>13
    <2> QED BY <1>12, <2>1
  <1> QED BY <1>12, <1>15, <1>17, <1>18 DEF Before
-----------------------------------------------------------------------------
(* The order in which Windows runs the commands of an answer file *)

LEMMA SetupFacts ==
  ASSUME NEW cmds \in SetupCommands
  PROVE  /\ Len(cmds) \in Nat /\ DOMAIN cmds = 1..Len(cmds)
         /\ \A k \in 1..Len(cmds) : cmds[k].order \in Nat /\ cmds[k].cmd \in Commands
  <1> DEFINE R == [order : Nat, cmd : Commands]
  <1>1. cmds \in Seq(R)
    BY DEF SetupCommands
  <1>2. \A x \in R : x.order \in Nat /\ x.cmd \in Commands
    OBVIOUS
  <1> HIDE DEF R
  <1>3. /\ Len(cmds) \in Nat /\ DOMAIN cmds = 1..Len(cmds)
        /\ \A k \in 1..Len(cmds) : cmds[k] \in R
    BY <1>1
  <1> QED BY <1>2, <1>3

\* Every place in that order is some command's.
LEMMA PlacesTaken ==
  ASSUME NEW cmds \in SetupCommands, NEW n \in 1..Len(cmds)
  PROVE  \E k \in 1..Len(cmds) : Cardinality(Sooner(cmds, k)) = n - 1
  <1> DEFINE L == Len(cmds)
             places == 0..(L - 1)
             f == [k \in 1..L |-> Cardinality(Sooner(cmds, k))]
  <1>1. /\ L \in Nat /\ DOMAIN cmds = 1..L
        /\ \A k \in 1..L : cmds[k].order \in Nat
    BY SetupFacts
  <1>2. /\ IsFiniteSet(1..L) /\ Cardinality(1..L) = L
        /\ IsFiniteSet(places) /\ Cardinality(places) = L
    <2>1. IsFiniteSet(0..(L - 1)) /\
          Cardinality(0..(L - 1)) = IF 0 > L - 1 THEN 0 ELSE (L - 1) - 0 + 1
      <3>1. 0 \in Int /\ L - 1 \in Int
        BY <1>1
      <3> QED BY <3>1, FS_Interval
    <2> QED BY <1>1, <2>1, IntervalSize
  <1>3. \A j, k \in 1..L :
            j \in Sooner(cmds, k) <=> \/ cmds[j].order < cmds[k].order
                                      \/ cmds[j].order = cmds[k].order /\ j < k
    BY <1>1 DEF Sooner
  <1>4. \A k \in 1..L : Sooner(cmds, k) \subseteq 1..L
    BY <1>1 DEF Sooner
  <1> HIDE DEF L, places
  <1>5. ASSUME NEW k \in 1..L
        PROVE  Cardinality(Sooner(cmds, k)) \in places
    <2>1. /\ IsFiniteSet(Sooner(cmds, k))
          /\ Cardinality(Sooner(cmds, k)) <= L
          /\ L = Cardinality(Sooner(cmds, k)) => 1..L = Sooner(cmds, k)
      BY <1>2, <1>4, FS_Subset
    <2>2. k \notin Sooner(cmds, k)
      BY <1>1, <1>3
    <2>3. Cardinality(Sooner(cmds, k)) \in Nat
      BY <2>1, FS_CardinalityType
    <2> QED BY <1>1, <2>1, <2>2, <2>3 DEF places
  <1>6. ASSUME NEW j \in 1..L, NEW k \in 1..L, j \in Sooner(cmds, k)
        PROVE  Cardinality(Sooner(cmds, j)) < Cardinality(Sooner(cmds, k))
    <2>1. Sooner(cmds, j) \subseteq Sooner(cmds, k)
      <3>1. ASSUME NEW i \in 1..L, i \in Sooner(cmds, j)
            PROVE  i \in Sooner(cmds, k)
        BY <1>1, <1>3, <1>6, <3>1
      <3> QED BY <1>4, <3>1
    <2>2. j \notin Sooner(cmds, j)
      BY <1>1, <1>3
    <2>3. IsFiniteSet(Sooner(cmds, k))
      BY <1>2, <1>4, FS_Subset
    <2>4. /\ Cardinality(Sooner(cmds, j)) <= Cardinality(Sooner(cmds, k))
          /\ Cardinality(Sooner(cmds, k)) = Cardinality(Sooner(cmds, j))
                => Sooner(cmds, k) = Sooner(cmds, j)
      BY <2>1, <2>3, FS_Subset
    <2>5. /\ Cardinality(Sooner(cmds, j)) \in places
          /\ Cardinality(Sooner(cmds, k)) \in places
      BY <1>5
    <2> QED BY <1>1, <1>6, <2>2, <2>4, <2>5 DEF places
  <1>7. f \in [1..L -> places]
    BY <1>5
  <1>8. ASSUME NEW j \in 1..L, NEW k \in 1..L, f[j] = f[k]
        PROVE  j = k
    <2>1. f[j] = Cardinality(Sooner(cmds, j)) /\ f[k] = Cardinality(Sooner(cmds, k))
      OBVIOUS
    <2>2. f[j] \in Int
      BY <1>1, <1>7 DEF places
    <2>3. j \notin Sooner(cmds, k) /\ k \notin Sooner(cmds, j)
      BY <1>6, <1>8, <2>1, <2>2
    <2> QED BY <1>1, <1>3, <2>3
  <1> HIDE DEF f
  <1>9. f \in Injection(1..L, places)
    BY <1>7, <1>8 DEF Injection, IsInjective
  <1>10. f \in Surjection(1..L, places)
    BY <1>2, <1>9, FS_Injection
  <1>11. n - 1 \in places
    BY <1>1 DEF places, L
  <1>12. \E k \in 1..L : f[k] = n - 1
    BY <1>10, <1>11 DEF Surjection
  <1> QED BY <1>12 DEF f, L

\* Each of them is run once there.
LEMMA ExecutedFacts ==
  ASSUME NEW cmds \in SetupCommands, NEW n \in 1..Len(cmds)
  PROVE  \E k \in 1..Len(cmds) : /\ Cardinality(Sooner(cmds, k)) = n - 1
                                 /\ AsExecuted(cmds)[n] = cmds[k].cmd
  <1>1. DOMAIN cmds = 1..Len(cmds)
    BY SetupFacts
  <1>2. \E k \in DOMAIN cmds : Cardinality(Sooner(cmds, k)) = n - 1
    BY <1>1, PlacesTaken
  <1>3. PICK k : k = CHOOSE m \in DOMAIN cmds :
                         Cardinality(Sooner(cmds, m)) = n - 1
    OBVIOUS
  <1>4. k \in DOMAIN cmds /\ Cardinality(Sooner(cmds, k)) = n - 1
    BY <1>2, <1>3
  <1>5. AsExecuted(cmds)[n] = cmds[k].cmd
    BY <1>1, <1>3 DEF AsExecuted
  <1> QED BY <1>1, <1>4, <1>5

\* A finite set of numbers has an upper bound; here, of the Orders in a file.
LEMMA OrdersBounded ==
  ASSUME NEW cmds \in SetupCommands
  PROVE  \E b \in Nat : \A k \in 1..Len(cmds) : cmds[k].order <= b
  <1> DEFINE L == Len(cmds)
             Bounded(n) == \E b \in Nat : \A k \in 1..n : cmds[k].order <= b
             Un == {n \in 0..L : ~Bounded(n)}
  <1>1. L \in Nat /\ \A k \in 1..L : cmds[k].order \in Nat
    BY SetupFacts
  <1>2. SUFFICES ASSUME Un # {} PROVE FALSE
    <2>1. L \in 0..L
      BY <1>1
    <2> QED BY <1>2, <2>1
  <1>3. PICK n \in Un : \A m \in Un : n <= m
    <2>1. Un \subseteq Nat
      BY <1>1
    <2> HIDE DEF Un
    <2> QED BY <1>2, <2>1, LeastExists
  <1>4. /\ n \in 0..L /\ ~Bounded(n)
        /\ \A m \in 0..L : ~Bounded(m) => m \in Un
    OBVIOUS
  <1> HIDE DEF Un
  <1>5. n # 0
    <2>1. Bounded(0)
      <3>1. \A k \in 1..0 : cmds[k].order <= 0
        OBVIOUS
      <3> QED BY <3>1
    <2> QED BY <1>4, <2>1
  <1>6. n - 1 \in 0..L /\ n \in 1..L /\ ~(n <= n - 1) /\ n \in Nat
    <2> HIDE DEF L, Bounded
    <2> QED BY <1>1, <1>4, <1>5
  <1>7. Bounded(n - 1)
    BY <1>3, <1>4, <1>6
  <1>8. PICK b \in Nat : \A k \in 1..(n - 1) : cmds[k].order <= b
    BY <1>7
  <1>9. PICK c \in Nat : c = b + cmds[n].order
    <2>1. cmds[n].order \in Nat
      BY <1>1, <1>6
    <2>2. b + cmds[n].order \in Nat
      BY <1>8, <2>1
    <2> QED BY <2>2
  <1>10. ASSUME NEW k \in 1..n PROVE cmds[k].order <= c
    <2>1. k \in 1..L
      <3> HIDE DEF L, Bounded
      <3> QED BY <1>1, <1>6
    <2>2. /\ cmds[k].order \in Nat /\ cmds[n].order \in Nat
          /\ k = n \/ k \in 1..(n - 1)
      BY <1>1, <1>6, <2>1
    <2>3. k \in 1..(n - 1) => cmds[k].order <= b
      BY <1>8
    <2> QED BY <1>9, <2>2, <2>3
  <1>11. Bounded(n)
    BY <1>9, <1>10
  <1> QED BY <1>4, <1>11

\* The new command's Order is above all others.
LEMMA NextOrderLast ==
  ASSUME NEW cmds \in SetupCommands
  PROVE  /\ NextOrder(cmds) \in Nat
         /\ \A k \in 1..Len(cmds) : cmds[k].order < NextOrder(cmds)
  <1> DEFINE T == Orders(cmds) \union {0}
             Bounds == {b \in Nat : \A x \in T : x <= b}
  <1>1. /\ Len(cmds) \in Nat /\ DOMAIN cmds = 1..Len(cmds)
        /\ \A k \in 1..Len(cmds) : cmds[k].order \in Nat
    BY SetupFacts
  <1>2. T \subseteq Nat /\ \A k \in 1..Len(cmds) : cmds[k].order \in T
    BY <1>1 DEF Orders
  <1>3. Bounds # {} /\ Bounds \subseteq Nat
    <2>1. PICK b \in Nat : \A k \in 1..Len(cmds) : cmds[k].order <= b
      BY OrdersBounded
    <2>2. \A x \in T : x <= b
      BY <1>1, <2>1 DEF Orders
    <2> QED BY <2>2
  <1>4. 0 \in T /\ \A b \in Nat : b \in Bounds <=> \A x \in T : x <= b
    OBVIOUS
  <1> HIDE DEF T, Bounds
  <1>5. PICK m \in Bounds : \A b \in Bounds : m <= b
    BY <1>3, LeastExists
  <1>6. m \in Nat /\ \A x \in T : x <= m
    BY <1>3, <1>4, <1>5
  <1>7. m \in T
    <2> SUFFICES ASSUME m \notin T PROVE FALSE
      OBVIOUS
    <2>1. \A x \in T : x \in Nat /\ x <= m /\ x # m
      BY <1>2, <1>6
    <2>2. m # 0 /\ m - 1 \in Nat
      BY <1>4, <1>6, <2>1
    <2>3. \A x \in T : x <= m - 1
      BY <1>6, <2>1
    <2>4. m - 1 \in Bounds
      BY <1>4, <2>2, <2>3
    <2> QED BY <1>5, <1>6, <2>4
  <1>8. Max(T) \in T /\ \A x \in T : Max(T) >= x
    <2>1. \E y \in T : \A x \in T : y >= x
      BY <1>2, <1>6, <1>7
    <2> QED BY <2>1 DEF Max
  <1>9. NextOrder(cmds) = Max(T) + 1
    BY DEF NextOrder, T
  <1>10. Max(T) \in Nat
    BY <1>2, <1>8
  <1>11. \A k \in 1..Len(cmds) : cmds[k].order < NextOrder(cmds)
    BY <1>1, <1>2, <1>8, <1>9, <1>10
  <1> QED BY <1>9, <1>10, <1>11

\* The injected helper runs after every other command.
LEMMA InjectedLast ==
  ASSUME NEW cmds \in SetupCommands, NEW policy, NEW safeUrl,
         \A k \in DOMAIN cmds : cmds[k].cmd # "order",
         NEW todo, todo = AsExecuted(InjectUefiOrder(cmds, policy, safeUrl)),
         NEW n \in DOMAIN todo, todo[n] = "order"
  PROVE  n = Len(todo)
  <1>1. /\ Len(cmds) \in Nat /\ DOMAIN cmds = 1..Len(cmds)
        /\ \A k \in 1..Len(cmds) : cmds[k].order \in Nat
        /\ \A k \in 1..Len(cmds) : cmds[k].cmd \in Commands
    BY SetupFacts
  <1>2. PICK c : c = InjectUefiOrder(cmds, policy, safeUrl)
    OBVIOUS
  <1>3. c # cmds
    <2> SUFFICES ASSUME c = cmds PROVE FALSE
      OBVIOUS
    <2>1. DOMAIN todo = 1..Len(cmds)
      BY <1>1, <1>2 DEF AsExecuted
    <2>2. todo = AsExecuted(cmds) /\ n \in 1..Len(cmds)
      BY <1>2, <2>1
    <2>3. PICK k \in 1..Len(cmds) : AsExecuted(cmds)[n] = cmds[k].cmd
      BY <2>2, ExecutedFacts
    <2> QED BY <1>1, <2>2, <2>3
  <1>4. PICK new : new = [order |-> NextOrder(cmds), cmd |-> "order"]
    OBVIOUS
  <1>5. c = Append(cmds, new)
    BY <1>2, <1>3, <1>4 DEF InjectUefiOrder
  <1>6. /\ NextOrder(cmds) \in Nat
        /\ \A k \in 1..Len(cmds) : cmds[k].order < NextOrder(cmds)
    BY NextOrderLast
  <1>7. new.order = NextOrder(cmds)
    BY <1>4
  <1>8. new \in [order : Nat, cmd : Commands]
    BY <1>4, <1>6 DEF Commands
  <1>9. /\ c \in SetupCommands /\ Len(c) = Len(cmds) + 1
        /\ DOMAIN c = 1..(Len(cmds) + 1)
        /\ c[Len(cmds) + 1] = new
        /\ \A k \in 1..Len(cmds) : c[k] = cmds[k]
    <2> DEFINE R == [order : Nat, cmd : Commands]
    <2>1. cmds \in Seq(R) /\ new \in R
      BY <1>8 DEF SetupCommands
    <2> HIDE DEF R
    <2>2. /\ c \in Seq(R) /\ Len(c) = Len(cmds) + 1
          /\ DOMAIN c = 1..(Len(cmds) + 1)
          /\ c[Len(cmds) + 1] = new
          /\ \A k \in 1..Len(cmds) : c[k] = cmds[k]
      BY <1>5, <2>1
    <2> QED BY <2>2 DEF SetupCommands, R
  <1>10. DOMAIN todo = 1..Len(c) /\ n \in 1..Len(c)
    BY <1>2, <1>9 DEF AsExecuted
  <1>11. PICK k \in 1..Len(c) : /\ Cardinality(Sooner(c, k)) = n - 1
                                /\ todo[n] = c[k].cmd
    BY <1>2, <1>9, <1>10, ExecutedFacts
  <1>12. k = Len(cmds) + 1
    <2>1. k \in 1..Len(cmds) \/ k = Len(cmds) + 1
      BY <1>1, <1>9
    <2>2. k \in 1..Len(cmds) => c[k].cmd # "order"
      BY <1>1, <1>9
    <2> QED BY <1>11, <2>1, <2>2
  <1>13. Sooner(c, k) = 1..Len(cmds)
    <2>1. \A j \in 1..Len(cmds) : c[j].order < c[k].order
      BY <1>6, <1>7, <1>9, <1>12
    <2>2. \A j \in 1..(Len(cmds) + 1) : j \in 1..Len(cmds) \/ j = k
      BY <1>1, <1>12
    <2>3. ~(c[k].order < c[k].order) /\ ~(k < k)
      BY <1>1, <1>6, <1>7, <1>9, <1>12
    <2>4. 1..Len(cmds) \subseteq 1..(Len(cmds) + 1)
      BY <1>1
    <2> QED BY <1>9, <2>1, <2>2, <2>3, <2>4 DEF Sooner
  <1>14. n - 1 = Len(cmds)
    BY <1>1, <1>11, <1>13, IntervalSize
  <1>15. Len(todo) = Len(c)
    <2>1. todo = [m \in 1..Len(c) |-> todo[m]]
      BY <1>2, <1>9 DEF AsExecuted
    <2>2. Len(c) \in Nat
      BY <1>1, <1>9
    <2> QED BY <2>1, <2>2
  <1> QED BY <1>1, <1>9, <1>10, <1>14, <1>15
-----------------------------------------------------------------------------
(* The seed of a running installer *)

SeedFields == {"phase", "at", "inst", "tries", "family", "policy", "seed", "todo"}

LinuxRendered ==
    /\ run.family = "linux"
    /\ \E auto \in LinuxSeeds :
           /\ run.seed = {auto}
           /\ run.todo = LateCommands(auto.late, run.policy)

WindowsRendered ==
    /\ run.family = "windows"
    /\ \E cmds \in WindowsSeeds, safeUrl \in BOOLEAN :
           /\ run.seed = {cmds}
           /\ run.todo = AsExecuted(InjectUefiOrder(cmds, run.policy, safeUrl))

(***************************************************************************)
(* Inductive: until it runs its first command, an installer has the whole  *)
(* list that was rendered from its seed when it fetched it.                *)
(***************************************************************************)
SeedInv ==
    /\ SeedFields \subseteq DOMAIN run
    /\ run.phase = "install" =>
           run.policy \in Policies /\ (LinuxRendered \/ WindowsRendered)

\* A step after which no installer is about to start
NoneFetched == SeedFields \subseteq DOMAIN run' /\ run'.phase # "install"

LEMMA FirmwareFields ==
  \A k : /\ SeedFields \subseteq DOMAIN Firmware(k)
         /\ Firmware(k).phase = "firmware"
  BY DEF Firmware, SeedFields

LEMMA SeedInit == Init => SeedInv
  <1> SUFFICES ASSUME Init PROVE SeedInv
    OBVIOUS
  <1>1. run = Firmware(1)
    BY DEF Init, PowerOn
  <1> QED BY <1>1, FirmwareFields DEF SeedInv

LEMMA FetchRenders == SeedInv /\ FetchSeed => SeedInv'
  <1> SUFFICES ASSUME SeedInv, FetchSeed PROVE SeedInv'
    OBVIOUS
  <1>1. PICK policy \in Policies :
            \/ \E auto \in LinuxSeeds : FetchLinuxSeed(auto, policy)
            \/ \E cmds \in WindowsSeeds, safeUrl \in BOOLEAN :
                   FetchWindowsSeed(cmds, policy, safeUrl)
    BY DEF FetchSeed
  <1>2. ASSUME NEW auto \in LinuxSeeds, FetchLinuxSeed(auto, policy)
        PROVE  SeedInv'
    <2>1. CompleteUserData(auto, policy, "catalog").late
              = LateCommands(auto.late, policy)
      BY DEF CompleteUserData
    <2>2. run' = [run EXCEPT !.phase = "install", !.family = "linux",
                             !.policy = policy, !.seed = {auto},
                             !.todo = LateCommands(auto.late, policy)]
      BY <1>2, <2>1 DEF FetchLinuxSeed
    <2>3. /\ SeedFields \subseteq DOMAIN run'
          /\ run'.family = "linux" /\ run'.policy = policy
          /\ run'.seed = {auto} /\ run'.todo = LateCommands(auto.late, policy)
      BY <2>2 DEF SeedInv, SeedFields
    <2> QED BY <2>3 DEF SeedInv, LinuxRendered
  <1>3. ASSUME NEW cmds \in WindowsSeeds, NEW safeUrl \in BOOLEAN,
               FetchWindowsSeed(cmds, policy, safeUrl)
        PROVE  SeedInv'
    <2>1. PICK list : list = AsExecuted(InjectUefiOrder(cmds, policy, safeUrl))
      OBVIOUS
    <2>2. run' = [run EXCEPT !.phase = "install", !.family = "windows",
                             !.policy = policy, !.seed = {cmds}, !.todo = list]
      BY <1>3, <2>1 DEF FetchWindowsSeed
    <2>3. /\ SeedFields \subseteq DOMAIN run'
          /\ run'.family = "windows" /\ run'.policy = policy
          /\ run'.seed = {cmds} /\ run'.todo = list
      BY <2>2 DEF SeedInv, SeedFields
    <2> QED BY <2>1, <2>3 DEF SeedInv, WindowsRendered
  <1> QED BY <1>1, <1>2, <1>3

LEMMA OtherStepsFetchNone ==
  SeedInv /\ Next => FetchSeed \/ run' = run \/ NoneFetched
  <1> SUFFICES ASSUME SeedInv, Next, ~FetchSeed
               PROVE  run' = run \/ NoneFetched
    OBVIOUS
  <1>1. CASE Request \/ Withdraw
    BY <1>1 DEF Request, Withdraw
  <1>2. CASE PowerCycle \/ PickEntry \/ NothingBoots \/ RunReboot
    <2>1. \/ run' = Firmware(1)
          \/ \E k \in DOMAIN order : run' = Firmware(k)
          \/ run' = [Firmware(1) EXCEPT !.phase = "halted"]
      BY <1>2 DEF PowerCycle, PickEntry, NothingBoots, RunReboot, PowerOn
    <2>2. SeedFields \subseteq DOMAIN [Firmware(1) EXCEPT !.phase = "halted"]
          /\ [Firmware(1) EXCEPT !.phase = "halted"].phase = "halted"
      BY FirmwareFields DEF SeedFields
    <2> QED BY <2>1, <2>2, FirmwareFields DEF NoneFetched
  <1>3. CASE TryEntry
    <2>1. \/ run' = [PowerOn EXCEPT !.phase = "fetch", !.inst = ticket]
          \/ run' = [PowerOn EXCEPT !.phase = "os"]
          \/ run' = Firmware(run.at + 1)
      BY <1>3 DEF TryEntry
    <2> QED BY <2>1, FirmwareFields DEF PowerOn, NoneFetched, SeedFields
  <1>4. CASE Install
    <2>1. \/ run' = [run EXCEPT !.phase = "commands", !.seed = {}]
          \/ run' = [PowerOn EXCEPT !.phase = "halted"]
      BY <1>4 DEF Install
    <2> QED BY <2>1, FirmwareFields
            DEF PowerOn, NoneFetched, SeedFields, SeedInv
  <1>5. CASE RunPhoneHome \/ RunOther
    BY <1>5 DEF RunPhoneHome, RunOther, RunNext, NoneFetched, SeedInv,
       SeedFields
  <1>6. ASSUME ApplyOrder \/ LeaveOrder PROVE NoneFetched
    BY <1>6 DEF ApplyOrder, LeaveOrder, NoneFetched, SeedInv, SeedFields
  <1>7. CASE HelperSkips
    BY <1>6, <1>7 DEF HelperSkips
  <1>8. CASE HelperStarts
    <2>1. run' = [run EXCEPT !.phase = "gate", !.tries = 0] \/ ApplyOrder
      BY <1>8 DEF HelperStarts
    <2> QED BY <1>6, <2>1 DEF NoneFetched, SeedInv, SeedFields
  <1>9. CASE Gate
    <2>1. \/ ApplyOrder \/ LeaveOrder
          \/ run' = [run EXCEPT !.tries = @ + 1] /\ run.phase = "gate"
      BY <1>9 DEF Gate, GateUnanswered
    <2> QED BY <1>6, <2>1 DEF NoneFetched, SeedInv, SeedFields
  <1> QED BY <1>1, <1>2, <1>3, <1>4, <1>5, <1>7, <1>8, <1>9 DEF Next

LEMMA SeedNext == SeedInv /\ [Next]_vars => SeedInv'
  <1> SUFFICES ASSUME SeedInv, [Next]_vars PROVE SeedInv'
    OBVIOUS
  <1>1. CASE run' = run
    BY <1>1 DEF SeedInv, LinuxRendered, WindowsRendered
  <1>2. CASE NoneFetched
    BY <1>2 DEF NoneFetched, SeedInv
  <1> QED BY <1>1, <1>2, FetchRenders, OtherStepsFetchNone DEF vars

LEMMA SeedInvariant == Spec => []SeedInv
  BY SeedInit, SeedNext, PTL DEF Spec

(***************************************************************************)
(* A seed as it was rendered is rendered to itself, so a seed that was     *)
(* served and saved does not grow (complete_linux_user_data): for every    *)
(* seed an operator may have saved, not only those of the run.             *)
(***************************************************************************)
THEOREM RenderedOnce == Spec => []RenderingSettles
  <1>1. SeedInv => RenderingSettles
    <2> SUFFICES ASSUME SeedInv, run.phase = "install", run.family = "linux",
                        NEW auto \in run.seed
                 PROVE  LET full == CompleteUserData(auto, run.policy, "catalog")
                        IN  CompleteUserData(full, run.policy, "catalog") = full
      BY DEF RenderingSettles
    <2>1. run.policy \in Policies /\ LinuxRendered
      BY DEF SeedInv, WindowsRendered
    <2>2. auto \in AutoInstalls
      BY <2>1, GuestAssumption DEF LinuxRendered
    <2> QED BY <2>1, <2>2, SeedSettles
  <1> QED BY <1>1, SeedInvariant, PTL

(***************************************************************************)
(* The boot-order helper of a rendered seed runs after the phone-home and  *)
(* before the reboot, and in a Windows answer file last, whatever commands *)
(* the operator's own seed has around them (_ensure_uefi_order and         *)
(* inject_uefi_order_command).                                             *)
(***************************************************************************)
THEOREM HelperInItsPlace == Spec => []HelperAfterPhoneHome
  <1>1. SeedInv => HelperAfterPhoneHome
    <2> SUFFICES ASSUME SeedInv, run.phase = "install"
                 PROVE  HelperAfterPhoneHome
      BY DEF HelperAfterPhoneHome
    <2>1. CASE LinuxRendered
      <3>1. PICK own \in LinuxSeeds :
                /\ run.seed = {own}
                /\ run.todo = LateCommands(own.late, run.policy)
        BY <2>1 DEF LinuxRendered
      <3>2. own.late \in CommandLists /\ run.policy \in Policies
        BY GuestAssumption DEF SeedInv, AutoInstalls
      <3>3. ASSUME ~Has(AsList(own.late), "order"),
                   Before("phone", {"sysrq", "reboot"}, AsList(own.late))
            PROVE  /\ Before("phone", {"order", "reboot"}, run.todo)
                   /\ Before("order", {"reboot"}, run.todo)
        <4>1. own.late # NoList
          BY <3>3 DEF AsList, Before
        <4>2. own.late \in Seq(Commands) /\ AsList(own.late) = own.late
          BY <3>2, <4>1 DEF CommandLists, AsList
        <4> QED BY <3>1, <3>2, <3>3, <4>2, LateRuns
      <3> QED BY <2>1, <3>1, <3>3 DEF HelperAfterPhoneHome, LinuxRendered
    <2>2. CASE WindowsRendered
      <3>1. PICK own \in WindowsSeeds, safeUrl \in BOOLEAN :
                /\ run.seed = {own}
                /\ run.todo = AsExecuted(InjectUefiOrder(own, run.policy,
                                                         safeUrl))
        BY <2>2 DEF WindowsRendered
      <3>2. own \in SetupCommands
        BY GuestAssumption
      <3>3. ASSUME NEW k \in DOMAIN run.todo, run.todo[k] = "order",
                   \A c \in DOMAIN own : own[c].cmd # "order"
            PROVE  k = Len(run.todo)
        BY <3>1, <3>2, <3>3, InjectedLast
      <3>4. run.family # "linux"
        BY <2>2 DEF WindowsRendered
      <3> QED BY <3>1, <3>3, <3>4 DEF HelperAfterPhoneHome
    <2> QED BY <2>1, <2>2 DEF SeedInv
  <1> QED BY <1>1, SeedInvariant, PTL
=============================================================================
