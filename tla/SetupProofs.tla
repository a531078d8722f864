---------------------------- MODULE SetupProofs ----------------------------
(***************************************************************************)
(* What is true of setup_plugin's writes for any hosts: which they are,    *)
(* and in which order they come.  The four pipelines are first, the MAC    *)
(* tables are complete before the first route is written, and s1's marking *)
(* rule is the last write of all.                                          *)
(***************************************************************************)
EXTENDS SetupRules, TLAPS

TableOps == {"dMac", "lpm", "rewrite", "switchId", "marking"}
PreOps == {"mcast", "clone"}

PushWrites == {Push("s1"), Push("s2"), Push("s3"), Push("s4")}
ReplicationWrites ==
  {Group("s1", 1..4), Group("s4", 1..5),
   Session("s1", 100), Session("s4", 100), Session("s4", 200)}
L2Writes ==
  {L2("s1", "cc21", 4)} \cup {L2("s1", h, AccessPort(h)) : h \in Hosts1}
    \cup {L2("s4", "cc23", 4), L2("s4", "cc32", 5)}
    \cup {L2("s4", h, AccessPort(h)) : h \in Hosts2} \cup {L2("s4", "ctrl", 510)}
L3Writes ==
  {Route("s2", h, 1, h) : h \in Hosts1} \cup {Route("s2", h, 3, h) : h \in Hosts2}
    \cup {Rewrite("s2", 1, "cc21"), Rewrite("s2", 2, "cc22"), Rewrite("s2", 3, "cc23")}
    \cup {Route("s3", "subnet1", 1, "cc22")} \cup {Route("s3", h, 2, h) : h \in Hosts2}
    \cup {Rewrite("s3", 1, "cc31"), Rewrite("s3", 2, "cc32")}
IdWrites == {Id("s1", 1), Id("s2", 2), Id("s3", 3), Id("s4", 4)}

(* x is an element of s. *)
Occurs(x, s) == \E i \in 1..Len(s) : s[i] = x

(* s is a sequence of the elements of S, each of them once.                *)
Lists(s, S) ==
  /\ s \in Seq(S)
  /\ \A x \in S : Occurs(x, s)
  /\ \A i, j \in 1..Len(s) : s[i] = s[j] => i = j

-----------------------------------------------------------------------------
(* Where the elements of a concatenation come from.                        *)
LEMMA Concat ==
  ASSUME NEW S, NEW s \in Seq(S), NEW t \in Seq(S)
  PROVE  /\ s \o t \in Seq(S)
         /\ Len(s \o t) = Len(s) + Len(t)
         /\ \A i \in 1..Len(s) : (s \o t)[i] = s[i]
         /\ \A i \in 1..Len(t) : (s \o t)[Len(s) + i] = t[i]
         /\ \A i \in (Len(s) + 1)..(Len(s) + Len(t)) : (s \o t)[i] = t[i - Len(s)]
  OBVIOUS

(* A concatenation has the elements of both parts, each on its side.       *)
LEMMA ListsConcat ==
  ASSUME NEW s, NEW t, NEW S, NEW T, Lists(s, S), Lists(t, T),
         \A x \in S : x \notin T
  PROVE  /\ Lists(s \o t, S \cup T)
         /\ Len(s) \in Nat /\ Len(t) \in Nat /\ Len(s \o t) = Len(s) + Len(t)
         /\ \A i \in 1..Len(s) : (s \o t)[i] = s[i] /\ s[i] \in S
         /\ \A i \in (Len(s) + 1)..(Len(s) + Len(t)) : (s \o t)[i] \in T
<1>1. s \in Seq(S \cup T) /\ t \in Seq(S \cup T)
  BY DEF Lists
<1>2. Len(s) \in Nat /\ Len(t) \in Nat
  BY <1>1
<1>3. /\ s \o t \in Seq(S \cup T) /\ Len(s \o t) = Len(s) + Len(t)
      /\ \A i \in 1..Len(s) : (s \o t)[i] = s[i]
      /\ \A i \in 1..Len(t) : (s \o t)[Len(s) + i] = t[i]
      /\ \A i \in (Len(s) + 1)..(Len(s) + Len(t)) : (s \o t)[i] = t[i - Len(s)]
  BY <1>1, Concat
<1>4. ASSUME NEW i \in (Len(s) + 1)..(Len(s) + Len(t)) PROVE (s \o t)[i] \in T
  <2>1. i - Len(s) \in 1..Len(t)
    BY <1>2
  <2>2. t[i - Len(s)] \in T
    BY <2>1 DEF Lists
  <2>. QED  BY <1>3, <2>2
<1>5. ASSUME NEW x \in S PROVE Occurs(x, s \o t)
  <2>1. PICK i \in 1..Len(s) : s[i] = x
    BY <1>5 DEF Lists, Occurs
  <2>2. i \in 1..Len(s \o t)
    BY <1>2, <1>3
  <2>. QED  BY <1>3, <2>1, <2>2 DEF Occurs
<1>6. ASSUME NEW x \in T PROVE Occurs(x, s \o t)
  <2>1. PICK i \in 1..Len(t) : t[i] = x
    BY <1>6 DEF Lists, Occurs
  <2>2. Len(s) + i \in 1..Len(s \o t)
    BY <1>2, <1>3
  <2>. QED  BY <1>3, <2>1, <2>2 DEF Occurs
<1>7. \A i \in 1..Len(s) : s[i] \in S
  BY DEF Lists
<1>8. ASSUME NEW i \in 1..Len(s \o t), NEW j \in 1..Len(s \o t), (s \o t)[i] = (s \o t)[j]
      PROVE  i = j
  <2>1. CASE i \in 1..Len(s) /\ j \in 1..Len(s)
    BY <1>3, <1>8, <2>1 DEF Lists
  <2>2. CASE i \in (Len(s) + 1)..(Len(s) + Len(t)) /\ j \in (Len(s) + 1)..(Len(s) + Len(t))
    <3>1. i - Len(s) \in 1..Len(t) /\ j - Len(s) \in 1..Len(t)
      BY <1>2, <2>2
    <3>2. t[i - Len(s)] = t[j - Len(s)]
      BY <1>3, <1>8, <2>2
    <3>3. i - Len(s) = j - Len(s)
      BY <3>1, <3>2 DEF Lists
    <3>. QED  BY <1>2, <2>2, <3>3
  <2>3. ~(i \in 1..Len(s) /\ j \in (Len(s) + 1)..(Len(s) + Len(t)))
    BY <1>3, <1>4, <1>7, <1>8
  <2>4. ~(j \in 1..Len(s) /\ i \in (Len(s) + 1)..(Len(s) + Len(t)))
    BY <1>3, <1>4, <1>7, <1>8
  <2>5. \A k \in 1..Len(s \o t) : k \in 1..Len(s) \/ k \in (Len(s) + 1)..(Len(s) + Len(t))
    BY <1>2, <1>3
  <2>. QED  BY <2>1, <2>2, <2>3, <2>4, <2>5
<1>9. Lists(s \o t, S \cup T)
  BY <1>3, <1>5, <1>6, <1>8 DEF Lists
<1>. QED  BY <1>2, <1>3, <1>4, <1>7, <1>9

(* The hosts of a subnet, and nothing else, are in its sequence.           *)
LEMMA HostSeqs ==
  /\ Subnet1 \in Seq(Hosts1) /\ Subnet2 \in Seq(Hosts2)
  /\ DOMAIN Subnet1 = 1..Len(Subnet1) /\ DOMAIN Subnet2 = 1..Len(Subnet2)
  /\ Len(Subnet1) \in 1..3 /\ Len(Subnet2) \in 1..3
  /\ \A i \in DOMAIN Subnet1 : Subnet1[i] \in Hosts1
  /\ \A i \in DOMAIN Subnet2 : Subnet2[i] \in Hosts2
  /\ \A h \in Hosts1 : \E i \in DOMAIN Subnet1 : h = Subnet1[i]
  /\ \A h \in Hosts2 : \E i \in DOMAIN Subnet2 : h = Subnet2[i]
  BY SubnetAssumption DEF Hosts1, Hosts2, ToSet

(* A host's access port is its place in its subnet.                        *)
LEMMA AccessPorts ==
  /\ \A h \in Hosts1 : AccessPort(h) \in DOMAIN Subnet1 /\ Subnet1[AccessPort(h)] = h
  /\ \A h \in Hosts2 : AccessPort(h) \in DOMAIN Subnet2 /\ Subnet2[AccessPort(h)] = h
  /\ \A h \in Host : AccessPort(h) \in 1..3
<1>1. \A h \in Hosts1 : AccessPort(h) \in DOMAIN Subnet1 /\ Subnet1[AccessPort(h)] = h
  BY HostSeqs DEF AccessPort
<1>2. \A h \in Hosts2 : AccessPort(h) \in DOMAIN Subnet2 /\ Subnet2[AccessPort(h)] = h
  BY HostSeqs, SubnetAssumption DEF AccessPort
<1>. QED  BY <1>1, <1>2, HostSeqs DEF Host

(* The four switches. *)
LEMMA Switches ==
  /\ "s1" \in Switch /\ "s2" \in Switch /\ "s3" \in Switch /\ "s4" \in Switch
  /\ \A sw \in Switch : sw = "s1" \/ sw = "s2" \/ sw = "s3" \/ sw = "s4"
  BY DEF Switch, Edge, Router

(* One write per host of a subnet.                                         *)
LEMMA ListsHosts ==
  ASSUME NEW hosts \in {Subnet1, Subnet2}, NEW f, NEW S, f = [i \in DOMAIN hosts |-> f[i]],
         \A i \in DOMAIN hosts : f[i] \in S,
         \A x \in S : \E i \in DOMAIN hosts : f[i] = x,
         \A i, j \in DOMAIN hosts : f[i] = f[j] => hosts[i] = hosts[j]
  PROVE  Lists(f, S)
<1>1. Len(hosts) \in Nat /\ DOMAIN hosts = 1..Len(hosts)
  BY HostSeqs
<1>2. f \in [1..Len(hosts) -> S]
  BY <1>1
<1>3. f \in Seq(S) /\ Len(f) = Len(hosts)
  BY <1>1, <1>2
<1>4. \A i, j \in 1..Len(f) : f[i] = f[j] => i = j
  BY <1>1, <1>3, SubnetAssumption
<1>. QED  BY <1>1, <1>3, <1>4 DEF Lists, Occurs

(* A short sequence of different things lists them.                        *)
LEMMA ShortLists ==
  /\ \A a : Lists(<<a>>, {a})
  /\ \A a, b : a # b => Lists(<<a, b>>, {a, b})
  /\ \A a, b, c : a # b /\ a # c /\ b # c => Lists(<<a, b, c>>, {a, b, c})
<1>1. \A a : Lists(<<a>>, {a})
  BY DEF Lists, Occurs
<1>2. ASSUME NEW a, NEW b, a # b PROVE Lists(<<a, b>>, {a, b})
  <2> DEFINE s == <<a, b>>
  <2>1. s \in Seq({a, b}) /\ Len(s) = 2 /\ s[1] = a /\ s[2] = b
    OBVIOUS
  <2> HIDE DEF s
  <2>2. \A x \in {a, b} : Occurs(x, s)
    BY <2>1 DEF Occurs
  <2>3. \A i \in 1..Len(s) : i = 1 \/ i = 2
    BY <2>1
  <2>4. Lists(s, {a, b})
    BY <1>2, <2>1, <2>2, <2>3 DEF Lists
  <2>. QED  BY <2>4 DEF s
<1>3. ASSUME NEW a, NEW b, NEW c, a # b, a # c, b # c PROVE Lists(<<a, b, c>>, {a, b, c})
  <2> DEFINE s == <<a, b, c>>
  <2>1. s \in Seq({a, b, c}) /\ Len(s) = 3 /\ s[1] = a /\ s[2] = b /\ s[3] = c
    OBVIOUS
  <2> HIDE DEF s
  <2>2. \A x \in {a, b, c} : Occurs(x, s)
    BY <2>1 DEF Occurs
  <2>3. \A i \in 1..Len(s) : i = 1 \/ i = 2 \/ i = 3
    BY <2>1
  <2>4. Lists(s, {a, b, c})
    BY <1>3, <2>1, <2>2, <2>3 DEF Lists
  <2>. QED  BY <2>4 DEF s
<1>. QED  BY <1>1, <1>2, <1>3

(* No host has a name that is used for something else, or for two hosts.   *)
LEMMA OtherNamesAreNoHosts ==
  /\ \A h \in Hosts1 : h \notin Hosts2
  /\ \A x \in {"cc21", "cc23", "cc32", "ctrl", "subnet1"} : x \notin Hosts1 /\ x \notin Hosts2
  BY SubnetAssumption DEF OtherNames, Host

(* The MAC tables' writes.                                                 *)
LEMMA L2Listed == Lists(L2Rules, L2Writes)
<1> DEFINE a == <<L2("s1", "cc21", 4)>>
           b == [i \in DOMAIN Subnet1 |-> L2("s1", Subnet1[i], AccessPort(Subnet1[i]))]
           c == <<L2("s4", "cc23", 4), L2("s4", "cc32", 5)>>
           d == [i \in DOMAIN Subnet2 |-> L2("s4", Subnet2[i], AccessPort(Subnet2[i]))]
           e == <<L2("s4", "ctrl", 510)>>
           A == {L2("s1", "cc21", 4)}
           B == {L2("s1", h, AccessPort(h)) : h \in Hosts1}
           C == {L2("s4", "cc23", 4), L2("s4", "cc32", 5)}
           D == {L2("s4", h, AccessPort(h)) : h \in Hosts2}
           E == {L2("s4", "ctrl", 510)}
<1>1. L2Rules = a \o b \o c \o d \o e
  BY DEF L2Rules, PerHost
<1>2. Lists(a, A)
  BY ShortLists
<1>3. Lists(b, B)
  <2>1. \A i \in DOMAIN Subnet1 : b[i] \in B
    BY HostSeqs
  <2>2. b = [i \in DOMAIN Subnet1 |-> b[i]]
    OBVIOUS
  <2>3. \A x \in B : \E i \in DOMAIN Subnet1 : b[i] = x
    BY HostSeqs
  <2>4. \A i, j \in DOMAIN Subnet1 : b[i] = b[j] => Subnet1[i] = Subnet1[j]
    BY DEF L2
  <2> HIDE DEF b
  <2>. QED  BY <2>1, <2>2, <2>3, <2>4, ListsHosts
<1>4. Lists(c, C)
  BY ShortLists DEF L2
<1>5. Lists(d, D)
  <2>1. \A i \in DOMAIN Subnet2 : d[i] \in D
    BY HostSeqs
  <2>2. d = [i \in DOMAIN Subnet2 |-> d[i]]
    OBVIOUS
  <2>3. \A x \in D : \E i \in DOMAIN Subnet2 : d[i] = x
    BY HostSeqs
  <2>4. \A i, j \in DOMAIN Subnet2 : d[i] = d[j] => Subnet2[i] = Subnet2[j]
    BY DEF L2
  <2> HIDE DEF d
  <2>. QED  BY <2>1, <2>2, <2>3, <2>4, ListsHosts
<1>6. Lists(e, E)
  BY ShortLists
<1>11. /\ \A x \in A : x.sw = "s1" /\ x.mac = "cc21"
       /\ \A x \in B : x.sw = "s1" /\ x.mac \in Hosts1
       /\ \A x \in C : x.sw = "s4" /\ x.mac \in {"cc23", "cc32"}
       /\ \A x \in D : x.sw = "s4" /\ x.mac \in Hosts2
       /\ \A x \in E : x.sw = "s4" /\ x.mac = "ctrl"
  BY DEF L2
<1> HIDE DEF a, b, c, d, e, A, B, C, D, E
<1>7. Lists(a \o b, A \cup B)
  BY <1>2, <1>3, <1>11, OtherNamesAreNoHosts, ListsConcat
<1>8. Lists(a \o b \o c, A \cup B \cup C)
  BY <1>7, <1>4, <1>11, OtherNamesAreNoHosts, ListsConcat
<1>9. Lists(a \o b \o c \o d, A \cup B \cup C \cup D)
  BY <1>8, <1>5, <1>11, OtherNamesAreNoHosts, ListsConcat
<1>10. Lists(a \o b \o c \o d \o e, A \cup B \cup C \cup D \cup E)
  BY <1>9, <1>6, <1>11, OtherNamesAreNoHosts, ListsConcat
<1>. QED  BY <1>1, <1>10 DEF L2Writes, A, B, C, D, E

(* The routers' writes.                                                    *)
LEMMA L3Listed == Lists(L3Rules, L3Writes)
<1> DEFINE a == [i \in DOMAIN Subnet1 |-> Route("s2", Subnet1[i], 1, Subnet1[i])]
           b == [i \in DOMAIN Subnet2 |-> Route("s2", Subnet2[i], 3, Subnet2[i])]
           c == <<Rewrite("s2", 1, "cc21"), Rewrite("s2", 2, "cc22"), Rewrite("s2", 3, "cc23")>>
           d == <<Route("s3", "subnet1", 1, "cc22")>>
           e == [i \in DOMAIN Subnet2 |-> Route("s3", Subnet2[i], 2, Subnet2[i])]
           f == <<Rewrite("s3", 1, "cc31"), Rewrite("s3", 2, "cc32")>>
           A == {Route("s2", h, 1, h) : h \in Hosts1}
           B == {Route("s2", h, 3, h) : h \in Hosts2}
           C == {Rewrite("s2", 1, "cc21"), Rewrite("s2", 2, "cc22"), Rewrite("s2", 3, "cc23")}
           D == {Route("s3", "subnet1", 1, "cc22")}
           E == {Route("s3", h, 2, h) : h \in Hosts2}
           F == {Rewrite("s3", 1, "cc31"), Rewrite("s3", 2, "cc32")}
<1>1. L3Rules = a \o b \o c \o d \o e \o f
  BY DEF L3Rules, PerHost
<1>2. Lists(a, A)
  <2>0. Subnet1 \in {Subnet1, Subnet2}
    OBVIOUS
  <2>1. \A i \in DOMAIN Subnet1 : a[i] \in A
    BY HostSeqs
  <2>2. a = [i \in DOMAIN Subnet1 |-> a[i]]
    OBVIOUS
  <2>3. \A x \in A : \E i \in DOMAIN Subnet1 : a[i] = x
    BY HostSeqs
  <2>4. \A i, j \in DOMAIN Subnet1 : a[i] = a[j] => Subnet1[i] = Subnet1[j]
    BY DEF Route
  <2> HIDE DEF a, A
  <2>. QED  BY <2>0, <2>1, <2>2, <2>3, <2>4, ListsHosts
<1>3. Lists(b, B)
  <2>1. \A i \in DOMAIN Subnet2 : b[i] \in B
    BY HostSeqs
  <2>2. b = [i \in DOMAIN Subnet2 |-> b[i]]
    OBVIOUS
  <2>3. \A x \in B : \E i \in DOMAIN Subnet2 : b[i] = x
    BY HostSeqs
  <2>4. \A i, j \in DOMAIN Subnet2 : b[i] = b[j] => Subnet2[i] = Subnet2[j]
    BY DEF Route
  <2> HIDE DEF b
  <2>. QED  BY <2>1, <2>2, <2>3, <2>4, ListsHosts
<1>4. Lists(c, C)
  BY ShortLists DEF Rewrite
<1>5. Lists(d, D)
  BY ShortLists
<1>6. Lists(e, E)
  <2>1. \A i \in DOMAIN Subnet2 : e[i] \in E
    BY HostSeqs
  <2>2. e = [i \in DOMAIN Subnet2 |-> e[i]]
    OBVIOUS
  <2>3. \A x \in E : \E i \in DOMAIN Subnet2 : e[i] = x
    BY HostSeqs
  <2>4. \A i, j \in DOMAIN Subnet2 : e[i] = e[j] => Subnet2[i] = Subnet2[j]
    BY DEF Route
  <2> HIDE DEF e
  <2>. QED  BY <2>1, <2>2, <2>3, <2>4, ListsHosts
<1>7. Lists(f, F)
  BY ShortLists DEF Rewrite
<1>13. /\ \A x \in A : x.op = "lpm" /\ x.sw = "s2" /\ x.dst \in Hosts1
       /\ \A x \in B : x.op = "lpm" /\ x.sw = "s2" /\ x.dst \in Hosts2
       /\ \A x \in C : x.op = "rewrite" /\ x.sw = "s2"
       /\ \A x \in D : x.op = "lpm" /\ x.sw = "s3" /\ x.dst = "subnet1"
       /\ \A x \in E : x.op = "lpm" /\ x.sw = "s3" /\ x.dst \in Hosts2
       /\ \A x \in F : x.op = "rewrite" /\ x.sw = "s3"
  BY DEF Route, Rewrite
<1> HIDE DEF a, b, c, d, e, f, A, B, C, D, E, F
<1>8. Lists(a \o b, A \cup B)
  BY <1>2, <1>3, <1>13, OtherNamesAreNoHosts, ListsConcat
<1>9. Lists(a \o b \o c, A \cup B \cup C)
  BY <1>8, <1>4, <1>13, OtherNamesAreNoHosts, ListsConcat
<1>10. Lists(a \o b \o c \o d, A \cup B \cup C \cup D)
  BY <1>9, <1>5, <1>13, OtherNamesAreNoHosts, ListsConcat
<1>11. Lists(a \o b \o c \o d \o e, A \cup B \cup C \cup D \cup E)
  BY <1>10, <1>6, <1>13, OtherNamesAreNoHosts, ListsConcat
<1>12. Lists(a \o b \o c \o d \o e \o f, A \cup B \cup C \cup D \cup E \cup F)
  BY <1>11, <1>7, <1>13, OtherNamesAreNoHosts, ListsConcat
<1>. QED  BY <1>1, <1>12 DEF L3Writes, A, B, C, D, E, F

(* The pipelines, and the replication engines', ids' and marking writes.   *)
LEMMA OthersListed ==
  /\ Lists(Pipelines, PushWrites) /\ Len(Pipelines) = 4
  /\ Lists(Replication, ReplicationWrites)
  /\ Lists(SwitchIds, IdWrites) /\ Lists(<<Mark>>, {Mark})
<1>1. Lists(Pipelines, PushWrites) /\ Len(Pipelines) = 4
  <2>1. Lists(<<Push("s1"), Push("s2")>> \o <<Push("s3"), Push("s4")>>,
              {Push("s1"), Push("s2")} \cup {Push("s3"), Push("s4")})
    <3>1. /\ Push("s1").sw = "s1" /\ Push("s2").sw = "s2"
          /\ Push("s3").sw = "s3" /\ Push("s4").sw = "s4"
      BY DEF Push
    <3>2. /\ Lists(<<Push("s1"), Push("s2")>>, {Push("s1"), Push("s2")})
          /\ Lists(<<Push("s3"), Push("s4")>>, {Push("s3"), Push("s4")})
      BY <3>1, ShortLists
    <3>. QED  BY <3>1, <3>2, ListsConcat
  <2>2. Pipelines = <<Push("s1"), Push("s2")>> \o <<Push("s3"), Push("s4")>>
    BY DEF Pipelines
  <2>3. PushWrites = {Push("s1"), Push("s2")} \cup {Push("s3"), Push("s4")}
    BY DEF PushWrites
  <2>4. Len(Pipelines) = 4
    BY DEF Pipelines
  <2>. QED  BY <2>1, <2>2, <2>3, <2>4
<1>2. Lists(Replication, ReplicationWrites)
  <2> DEFINE groups == {Group("s1", 1..4), Group("s4", 1..5)}
             sessions == {Session("s1", 100), Session("s4", 100), Session("s4", 200)}
  <2>1. Lists(<<Group("s1", 1..4), Group("s4", 1..5)>>, groups)
    <3>1. Group("s1", 1..4).sw = "s1" /\ Group("s4", 1..5).sw = "s4"
      BY DEF Group
    <3>. QED  BY <3>1, ShortLists
  <2>2. Lists(<<Session("s1", 100), Session("s4", 100), Session("s4", 200)>>, sessions)
    BY ShortLists DEF Session
  <2>3. (\A x \in groups : x.op = "mcast") /\ (\A x \in sessions : x.op = "clone")
    BY DEF Group, Session
  <2>4. ReplicationWrites = groups \cup sessions
    BY DEF ReplicationWrites
  <2>5. Replication = <<Group("s1", 1..4), Group("s4", 1..5)>>
                        \o <<Session("s1", 100), Session("s4", 100), Session("s4", 200)>>
    BY DEF Replication
  <2> HIDE DEF groups, sessions
  <2>. QED  BY <2>1, <2>2, <2>3, <2>4, <2>5, ListsConcat
<1>3. Lists(SwitchIds, IdWrites)
  <2>1. /\ Lists(<<Id("s1", 1), Id("s2", 2)>>, {Id("s1", 1), Id("s2", 2)})
        /\ Lists(<<Id("s3", 3), Id("s4", 4)>>, {Id("s3", 3), Id("s4", 4)})
    BY ShortLists DEF Id
  <2>2. /\ \A x \in {Id("s1", 1), Id("s2", 2)} : x.sw \in {"s1", "s2"}
        /\ \A x \in {Id("s3", 3), Id("s4", 4)} : x.sw \in {"s3", "s4"}
    BY DEF Id
  <2>6. \A x \in {Id("s1", 1), Id("s2", 2)} : x \notin {Id("s3", 3), Id("s4", 4)}
    BY <2>2
  <2>3. Lists(<<Id("s1", 1), Id("s2", 2)>> \o <<Id("s3", 3), Id("s4", 4)>>,
              {Id("s1", 1), Id("s2", 2)} \cup {Id("s3", 3), Id("s4", 4)})
    BY <2>1, <2>6, ListsConcat
  <2>4. SwitchIds = <<Id("s1", 1), Id("s2", 2)>> \o <<Id("s3", 3), Id("s4", 4)>>
    BY DEF SwitchIds
  <2>5. IdWrites = {Id("s1", 1), Id("s2", 2)} \cup {Id("s3", 3), Id("s4", 4)}
    BY DEF IdWrites
  <2>. QED  BY <2>3, <2>4, <2>5
<1>4. \A x : Lists(<<x>>, {x})
  BY ShortLists
<1>. QED  BY <1>1, <1>2, <1>3, <1>4

-----------------------------------------------------------------------------

(* Every write goes to one of the four switches, and is of a known kind.   *)
LEMMA WriteKinds ==
  /\ \A w \in PushWrites : w.sw \in Switch /\ w.op = "pipeline"
  /\ \A w \in ReplicationWrites : w.sw \in Switch /\ w.op \in PreOps
  /\ \A w \in L2Writes : w.sw \in Switch /\ w.op = "dMac"
  /\ \A w \in L3Writes : w.sw \in Switch /\ w.op \in {"lpm", "rewrite"}
  /\ \A w \in IdWrites : w.sw \in Switch /\ w.op = "switchId"
  /\ Mark.sw \in Switch /\ Mark.op = "marking"
<1>1. \A w \in PushWrites : w.sw \in Switch /\ w.op = "pipeline"
  BY Switches DEF PushWrites, Push
<1>2. \A w \in ReplicationWrites : w.sw \in Switch /\ w.op \in PreOps
  BY Switches DEF ReplicationWrites, Group, Session, PreOps
<1>3. \A w \in L2Writes : w.sw \in Switch /\ w.op = "dMac"
  BY Switches DEF L2Writes, L2
<1>4. \A w \in L3Writes : w.sw \in Switch /\ w.op \in {"lpm", "rewrite"}
  BY Switches DEF L3Writes, Route, Rewrite
<1>5. \A w \in IdWrites : w.sw \in Switch /\ w.op = "switchId"
  BY Switches DEF IdWrites, Id
<1>6. Mark.sw \in Switch /\ Mark.op = "marking"
  BY Switches DEF Mark
<1>. QED  BY <1>1, <1>2, <1>3, <1>4, <1>5, <1>6

(* No write is of two kinds.                                               *)
LEMMA KindsDiffer ==
  /\ \A x \in PushWrites : x \notin ReplicationWrites
  /\ \A x \in PushWrites \cup ReplicationWrites : x \notin L2Writes
  /\ \A x \in PushWrites \cup ReplicationWrites \cup L2Writes : x \notin L3Writes
  /\ \A x \in PushWrites \cup ReplicationWrites \cup L2Writes \cup L3Writes :
       x \notin IdWrites
  /\ \A x \in PushWrites \cup ReplicationWrites \cup L2Writes \cup L3Writes \cup IdWrites :
       x \notin {Mark}
  BY WriteKinds DEF PreOps

(* The last of the writes to the MAC tables.                               *)
L2End == Len(Pipelines \o Replication \o L2Rules)

(***************************************************************************)
(* The order of the writes: pipelines, replication and MAC tables, then    *)
(* routes and switch ids, then s1's marking rule; no write comes twice.    *)
(***************************************************************************)
LEMMA SetupParts ==
  /\ Setup \in Seq(PushWrites \cup ReplicationWrites \cup L2Writes \cup L3Writes
                     \cup IdWrites \cup {Mark})
  /\ Len(Setup) \in Nat /\ DOMAIN Setup = 1..Len(Setup)
  /\ L2End \in Nat /\ 4 <= L2End /\ L2End < Len(Setup)
  /\ \A i \in 1..4 : Setup[i] = Pipelines[i]
  /\ \A i \in 5..L2End : Setup[i] \in ReplicationWrites \cup L2Writes
  /\ \A i \in (L2End + 1)..(Len(Setup) - 1) : Setup[i] \in L3Writes \cup IdWrites
  /\ Setup[Len(Setup)] = Mark
  /\ \A w \in L2Writes : \E i \in 1..L2End : Setup[i] = w
  /\ \A w \in L3Writes \cup IdWrites : Occurs(w, Setup)
  /\ \A i, j \in 1..Len(Setup) : Setup[i] = Setup[j] => i = j
<1> DEFINE p1 == Pipelines \o Replication
           p2 == p1 \o L2Rules
           p3 == p2 \o L3Rules
           p4 == p3 \o SwitchIds
           s2 == PushWrites \cup ReplicationWrites \cup L2Writes
           s3 == s2 \cup L3Writes
           s4 == s3 \cup IdWrites
           m == Len(p2)
           n == Len(p4)
<1>0. /\ \A x \in s2 : x \notin L3Writes
      /\ \A x \in s3 : x \notin IdWrites
      /\ \A x \in s4 : x \notin {Mark}
  BY KindsDiffer
<1>1. Setup = p4 \o <<Mark>> /\ L2End = m
  BY DEF Setup, L2End
<1>2. /\ Lists(p1, PushWrites \cup ReplicationWrites) /\ Len(p1) \in Nat /\ 4 <= Len(p1)
      /\ \A i \in 1..4 : p1[i] = Pipelines[i]
      /\ \A i \in 5..Len(p1) : p1[i] \in ReplicationWrites
  <2>1. p1 = Pipelines \o Replication
    OBVIOUS
  <2>2. /\ Lists(Pipelines, PushWrites) /\ Lists(Replication, ReplicationWrites)
        /\ Len(Pipelines) = 4
    BY OthersListed
  <2> HIDE DEF p1
  <2>3. LET c == Pipelines \o Replication
        IN  /\ Lists(c, PushWrites \cup ReplicationWrites)
            /\ Len(Pipelines) \in Nat /\ Len(Replication) \in Nat
            /\ Len(c) = Len(Pipelines) + Len(Replication)
            /\ \A i \in 1..Len(Pipelines) : c[i] = Pipelines[i] /\ Pipelines[i] \in PushWrites
            /\ \A i \in (Len(Pipelines) + 1)..(Len(Pipelines) + Len(Replication)) :
                 c[i] \in ReplicationWrites
    BY <2>2, KindsDiffer, ListsConcat
  <2>. QED  BY <2>1, <2>2, <2>3
<1> HIDE DEF p1
<1>3. /\ Lists(p2, s2) /\ m \in Nat /\ 4 <= m /\ Len(p1) <= m
      /\ \A i \in 1..Len(p1) : p2[i] = p1[i]
      /\ \A i \in (Len(p1) + 1)..m : p2[i] \in L2Writes
  <2>1. p2 = p1 \o L2Rules /\ s2 = (PushWrites \cup ReplicationWrites) \cup L2Writes /\ m = Len(p2)
    OBVIOUS
  <2>2. Lists(L2Rules, L2Writes)
    BY L2Listed
  <2> HIDE DEF p2, s2, m
  <2>3. Lists(p1, (PushWrites \cup ReplicationWrites)) /\ Len(p1) = Len(p1)
    BY <1>2
  <2>4. LET c == p1 \o L2Rules
        IN  /\ Lists(c, (PushWrites \cup ReplicationWrites) \cup L2Writes)
            /\ Len(p1) \in Nat /\ Len(L2Rules) \in Nat /\ Len(c) = Len(p1) + Len(L2Rules)
            /\ \A i \in 1..Len(p1) : c[i] = p1[i] /\ p1[i] \in (PushWrites \cup ReplicationWrites)
            /\ \A i \in (Len(p1) + 1)..(Len(p1) + Len(L2Rules)) : c[i] \in L2Writes
    BY <2>2, <2>3, KindsDiffer, ListsConcat
  <2>. QED  BY <1>2, <2>1, <2>3, <2>4
<1>4. /\ \A i \in 1..4 : p2[i] = Pipelines[i]
      /\ \A i \in 5..m : p2[i] \in ReplicationWrites \cup L2Writes
  <2> HIDE DEF p2, s2, m
  <2>1. ASSUME NEW i \in 1..4 PROVE p2[i] = Pipelines[i]
    <3>1. i \in 1..Len(p1)
      BY <1>2
    <3>. QED  BY <1>2, <1>3, <3>1
  <2>2. ASSUME NEW i \in 5..m PROVE p2[i] \in ReplicationWrites \cup L2Writes
    <3>1. CASE i <= Len(p1)
      <4>1. i \in 1..Len(p1) /\ i \in 5..Len(p1)
        BY <1>2, <1>3, <3>1
      <4>. QED  BY <1>2, <1>3, <4>1
    <3>2. CASE i > Len(p1)
      <4>1. i \in (Len(p1) + 1)..m
        BY <1>2, <1>3, <3>2
      <4>. QED  BY <1>3, <4>1
    <3>. QED  BY <1>2, <1>3, <3>1, <3>2
  <2>. QED  BY <2>1, <2>2
<1> HIDE DEF p2, s2
<1>5. /\ Lists(p3, s3) /\ Len(p3) \in Nat /\ m <= Len(p3)
      /\ \A i \in 1..m : p3[i] = p2[i]
      /\ \A i \in (m + 1)..Len(p3) : p3[i] \in L3Writes
  <2>1. p3 = p2 \o L3Rules /\ s3 = s2 \cup L3Writes /\ Len(p3) = Len(p3)
    OBVIOUS
  <2>2. Lists(L3Rules, L3Writes)
    BY L3Listed
  <2> HIDE DEF p3, s3
  <2>3. Lists(p2, s2) /\ m = Len(p2)
    BY <1>3 DEF m
  <2>4. LET c == p2 \o L3Rules
        IN  /\ Lists(c, s2 \cup L3Writes)
            /\ Len(p2) \in Nat /\ Len(L3Rules) \in Nat /\ Len(c) = Len(p2) + Len(L3Rules)
            /\ \A i \in 1..Len(p2) : c[i] = p2[i] /\ p2[i] \in s2
            /\ \A i \in (Len(p2) + 1)..(Len(p2) + Len(L3Rules)) : c[i] \in L3Writes
    BY <1>0, <2>2, <2>3, ListsConcat
  <2>. QED  BY <1>3, <2>1, <2>3, <2>4
<1> HIDE DEF p3, s3, m
<1>6. /\ Lists(p4, s4) /\ n \in Nat /\ Len(p3) <= n
      /\ \A i \in 1..Len(p3) : p4[i] = p3[i]
      /\ \A i \in (Len(p3) + 1)..n : p4[i] \in IdWrites
  <2>1. p4 = p3 \o SwitchIds /\ s4 = s3 \cup IdWrites /\ n = Len(p4)
    OBVIOUS
  <2>2. Lists(SwitchIds, IdWrites)
    BY OthersListed
  <2> HIDE DEF p4, s4, n
  <2>3. Lists(p3, s3) /\ Len(p3) = Len(p3)
    BY <1>5
  <2>4. LET c == p3 \o SwitchIds
        IN  /\ Lists(c, s3 \cup IdWrites)
            /\ Len(p3) \in Nat /\ Len(SwitchIds) \in Nat /\ Len(c) = Len(p3) + Len(SwitchIds)
            /\ \A i \in 1..Len(p3) : c[i] = p3[i] /\ p3[i] \in s3
            /\ \A i \in (Len(p3) + 1)..(Len(p3) + Len(SwitchIds)) : c[i] \in IdWrites
    BY <1>0, <2>2, <2>3, ListsConcat
  <2>. QED  BY <1>5, <2>1, <2>3, <2>4
<1> HIDE DEF p4, s4, n
<1>7. /\ Lists(Setup, s4 \cup {Mark}) /\ Len(Setup) = n + 1
      /\ \A i \in 1..n : Setup[i] = p4[i]
      /\ Setup[n + 1] = Mark
  <2>1. Len(<<Mark>>) = 1
    OBVIOUS
  <2>2. /\ Lists(Setup, s4 \cup {Mark}) /\ Len(Setup) = n + 1
        /\ \A i \in 1..n : Setup[i] = p4[i]
        /\ \A i \in (n + 1)..(n + 1) : Setup[i] \in {Mark}
    BY <1>0, <1>1, <1>6, <2>1, OthersListed, ListsConcat DEF n
  <2>3. n + 1 \in (n + 1)..(n + 1)
    BY <1>6
  <2>. QED  BY <2>2, <2>3
<1>8. \A i \in 1..m : i \in 1..Len(p3) /\ i \in 1..n /\ Setup[i] = p2[i]
  BY <1>3, <1>5, <1>6, <1>7
<1>9. ASSUME NEW i \in (m + 1)..n PROVE Setup[i] \in L3Writes \cup IdWrites
  <2>1. i \in 1..n
    BY <1>3, <1>6
  <2>2. CASE i <= Len(p3)
    <3>1. i \in (m + 1)..Len(p3) /\ i \in 1..Len(p3)
      BY <1>3, <1>5, <2>2
    <3>. QED  BY <1>5, <1>6, <1>7, <2>1, <3>1
  <2>3. CASE i > Len(p3)
    <3>1. i \in (Len(p3) + 1)..n
      BY <1>3, <1>5, <1>6, <2>3
    <3>. QED  BY <1>6, <1>7, <2>1, <3>1
  <2>. QED  BY <1>3, <1>5, <2>2, <2>3
<1>10. \A w \in L2Writes : \E i \in 1..m : Setup[i] = w
  <2>1. \A w \in L2Writes : Occurs(w, p2)
    BY <1>3 DEF Lists, s2
  <2>. QED  BY <1>8, <2>1 DEF Occurs, m
<1>11. \A w \in L3Writes \cup IdWrites : Occurs(w, Setup)
  BY <1>7 DEF Lists, s3, s4
<1>12. /\ Setup \in Seq(s4 \cup {Mark})
       /\ \A i, j \in 1..Len(Setup) : Setup[i] = Setup[j] => i = j
  BY <1>7 DEF Lists
<1>13. s4 = PushWrites \cup ReplicationWrites \cup L2Writes \cup L3Writes \cup IdWrites
  BY DEF s4, s3, s2
<1>14. \A i \in 1..4 : i \in 1..m
  BY <1>3
<1>15. \A i \in 5..m : i \in 1..m
  BY <1>3
<1>16. L2End = m /\ m \in Nat /\ 4 <= m /\ m < Len(Setup) /\ Len(Setup) - 1 = n
  BY <1>1, <1>3, <1>5, <1>6, <1>7
<1>17. Len(Setup) \in Nat /\ DOMAIN Setup = 1..Len(Setup)
  BY <1>12
<1>18. /\ \A i \in 1..4 : Setup[i] = Pipelines[i]
       /\ \A i \in 5..m : Setup[i] \in ReplicationWrites \cup L2Writes
  BY <1>4, <1>8, <1>14, <1>15
<1>. QED  BY <1>7, <1>9, <1>10, <1>11, <1>12, <1>13, <1>16, <1>17, <1>18

(* Every switch gets its pipeline first, s1 before the others, and only    *)
(* then are its tables and its replication engine filled.                  *)
LEMMA SetupOrder ==
  /\ Len(Setup) \in Nat /\ Len(Setup) >= 4 /\ DOMAIN Setup = 1..Len(Setup)
  /\ \A i \in 1..Len(Setup) :
       /\ Setup[i].sw \in Switch
       /\ i <= 4 => Setup[i].op = "pipeline" /\ Setup[i] = Push(Setup[i].sw)
       /\ i > 4 => Setup[i].op \in TableOps \cup PreOps /\ Setup[i].op # "pipeline"
  /\ \A sw \in Switch : \E i \in 1..4 : Setup[i] = Push(sw)
  /\ Setup[1] = Push("s1")
<1>1. Len(Setup) \in Nat /\ Len(Setup) >= 4 /\ DOMAIN Setup = 1..Len(Setup)
  BY SetupParts
<1>2. /\ Setup[1] = Push("s1") /\ Setup[2] = Push("s2")
      /\ Setup[3] = Push("s3") /\ Setup[4] = Push("s4")
  BY SetupParts DEF Pipelines
<1>3. \A sw \in Switch : \E i \in 1..4 : Setup[i] = Push(sw)
  BY <1>2, Switches
<1>4. ASSUME NEW i \in 1..Len(Setup), i <= 4
      PROVE  Setup[i].sw \in Switch /\ Setup[i].op = "pipeline" /\ Setup[i] = Push(Setup[i].sw)
  <2>1. i = 1 \/ i = 2 \/ i = 3 \/ i = 4
    BY <1>1, <1>4
  <2>2. PICK sw \in Switch : Setup[i] = Push(sw)
    BY <1>2, <2>1, Switches
  <2>. QED  BY <2>2 DEF Push
<1>5. ASSUME NEW i \in 1..Len(Setup), i > 4
      PROVE  Setup[i].sw \in Switch /\ Setup[i].op \in TableOps \cup PreOps
             /\ Setup[i].op # "pipeline"
  <2>1. Setup[i] \in ReplicationWrites \cup L2Writes \cup L3Writes \cup IdWrites \cup {Mark}
    <3>1. CASE i <= L2End
      <4>1. i \in 5..L2End
        BY SetupParts, <1>1, <1>5, <3>1
      <4>. QED  BY SetupParts, <4>1
    <3>2. CASE i > L2End /\ i < Len(Setup)
      <4>1. i \in (L2End + 1)..(Len(Setup) - 1)
        BY SetupParts, <3>2
      <4>. QED  BY SetupParts, <4>1
    <3>3. CASE i = Len(Setup)
      BY SetupParts, <3>3
    <3>4. i <= L2End \/ (i > L2End /\ i < Len(Setup)) \/ i = Len(Setup)
      <4>1. L2End \in Nat /\ Len(Setup) \in Nat
        BY SetupParts
      <4>. QED  BY <4>1
    <3>. QED  BY <3>1, <3>2, <3>3, <3>4
  <2>. QED  BY <2>1, WriteKinds DEF TableOps, PreOps
<1>. QED  BY <1>1, <1>2, <1>3, <1>4, <1>5
=============================================================================
