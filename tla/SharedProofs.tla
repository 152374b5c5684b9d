---------------------------- MODULE SharedProofs ----------------------------
(***************************************************************************)
(* What the shared directory server answers while other clients change the *)
(* directory, for any tree of files, any request and any changes.          *)
(***************************************************************************)
EXTENDS Shared, FiniteSetTheorems, SequenceTheorems, TLAPS

Types ==
    /\ fs \in [Paths -> Nodes]
    /\ url \in [path : Seq(STRING), slash : BOOLEAN]
    /\ url.path = <<>> => url.slash
    /\ want \in Requests
    /\ changes \in Nat
    /\ pc = "redirected" => answer.to \in Seq(STRING)

\* The histories: what was there all the time is there, and what is there was
\* there at some time.
Histories == always \subseteq Contents(fs) /\ Contents(fs) \subseteq ever

\* ReadDir follows a Stat that saw a directory.
Statted ==
    pc = "readdir" => \A x \in always : x[1] = url.path => x[2] = Dir

-----------------------------------------------------------------------------
(* Paths.                                                                  *)

\* The path without its last name.
LEMMA FrontFacts ==
  ASSUME NEW S, NEW s \in Seq(S), s # <<>>
  PROVE  Front(s) \in Seq(S) /\ Len(Front(s)) = Len(s) - 1
<1>1. Front(s) \in Seq(S)
  BY DEF Front
<1>2. Len(Front(s)) = Len(s) - 1
  <2>1. \A n \in Nat : (\A i \in 1 .. n : s[i] \in S) => Len(SubSeq(s, 1, n)) = n
    OBVIOUS
  <2>2. Len(s) - 1 \in Nat /\ \A i \in 1 .. Len(s) - 1 : s[i] \in S
    OBVIOUS
  <2>3. QED
    BY <2>1, <2>2, Zenon DEF Front
<1>3. QED
  BY <1>1, <1>2

\* A path is its parent and its last name.
LEMMA PathFacts ==
  ASSUME NEW p \in Paths
  PROVE  /\ p \in Seq(STRING) /\ p # <<>> /\ Len(p) \in Nat \ {0}
         /\ Last(p) \in STRING \ {".."}
         /\ Front(p) \in Seq(STRING) /\ Len(Front(p)) = Len(p) - 1
         /\ Front(p) \o <<Last(p)>> = p
         /\ Append(Front(p), Last(p)) = p
<1>1. p \in Seq(STRING \ {".."}) /\ p # <<>>
  BY SharedAssumption
<1>2. p \in Seq(STRING) /\ Len(p) \in Nat \ {0}
  BY <1>1
<1>3. Last(p) \in STRING \ {".."}
  BY <1>1, <1>2 DEF Last
<1>4. Front(p) \in Seq(STRING) /\ Len(Front(p)) = Len(p) - 1
  BY <1>1, <1>2, FrontFacts
<1>5. Append(Front(p), Last(p)) = p
  BY <1>1, <1>2 DEF Front, Last
<1>6. Front(p) \o <<Last(p)>> = p
  BY <1>1, <1>2 DEF Front, Last
<1>7. QED
  BY <1>1, <1>2, <1>3, <1>4, <1>5, <1>6

\* A node is known by its type.
LEMMA NodeFacts ==
  ASSUME Types, NEW p
  PROVE  /\ Node(p) \in Nodes
         /\ Node(p).type = "dir" <=> Node(p) = Dir
         /\ Node(p).type = "none" <=> Node(p) = None
         /\ Node(p).type = "file" => Node(p).size \in Nat
         /\ Node(p) # Dir => p # <<>>
         /\ None # Dir
<1>1. Node(p) \in Nodes
  BY DEF Types, Node, Nodes
<1>2. None # Dir
  BY DEF None, Dir
<1>3. QED
  BY <1>1, <1>2 DEF Nodes, None, Dir, Node

\* What is kept is there now.
LEMMA KeptThere ==
  ASSUME Histories, NEW x \in always
  PROVE  x[1] \in Paths /\ x[2] = Node(x[1]) /\ x[2] # None /\ x = <<x[1], x[2]>>
<1>1. PICK p \in Paths : fs[p] # None /\ x = <<p, fs[p]>>
  BY DEF Histories, Contents
<1>2. p # <<>>
  BY PathFacts
<1>3. QED
  BY <1>1, <1>2 DEF Node

-----------------------------------------------------------------------------
(* The steps of the handler, and those of the others.                      *)

HandlerStep ==
    \/ statError \/ redirect \/ follow \/ statDir \/ statFile
    \/ readDir \/ readDirError \/ info \/ dirListTmpl
    \/ ServeFile \/ dirRedirect \/ indexRedirect

\* The handler of a GET changes neither the files nor their histories.
LEMMA HandlerKeeps ==
  HandlerStep => pc # "done" /\ UNCHANGED <<fs, changes, ever, always, want>>
BY DEF HandlerStep, statError, redirect, follow, statDir, statFile, stat, readDir,
       readDirError, info, dirListTmpl, ServeFile, dirRedirect,
       indexRedirect, world

\* A step is one of the handler, or a change of the files by another client.
LEMMA Steps ==
  ASSUME Types, [Next]_vars
  PROVE  \/ HandlerStep
         \/ UNCHANGED vars
         \/ \E f \in [Paths -> Nodes] : Change(f)
<1>1. ASSUME NEW p \in Paths, MKCOL(p) \/ DELETE(p) \/ \E n \in Sizes : PUT(p, n)
      PROVE  \E f \in [Paths -> Nodes] : Change(f)
  <2>1. CASE MKCOL(p)
    <3>1. [fs EXCEPT ![p] = Dir] \in [Paths -> Nodes]
      BY DEF Types, Nodes
    <3>2. QED
      BY <2>1, <3>1 DEF MKCOL
  <2>2. CASE DELETE(p)
    <3>1. [q \in Paths |-> IF IsPrefix(p, q) THEN None ELSE fs[q]] \in [Paths -> Nodes]
      BY DEF Types, Nodes
    <3>2. QED
      BY <2>2, <3>1 DEF DELETE
  <2>3. ASSUME NEW n \in Sizes, PUT(p, n) PROVE \E f \in [Paths -> Nodes] : Change(f)
    <3>1. File(n) \in Nodes
      BY SharedAssumption DEF File, Nodes
    <3>2. [fs EXCEPT ![p] = File(n)] \in [Paths -> Nodes]
      BY <3>1 DEF Types
    <3>3. QED
      BY <2>3, <3>2 DEF PUT
  <2>4. QED
    BY <1>1, <2>1, <2>2, <2>3
<1>2. QED
  BY <1>1 DEF Next, HandlerStep, Finished

\* The histories only narrow and widen.
LEMMA ChangeFacts ==
  ASSUME Histories, NEW f \in [Paths -> Nodes], Change(f)
  PROVE  /\ pc # "done" /\ fs' = f /\ changes' = changes + 1
         /\ always' \subseteq always /\ ever \subseteq ever'
         /\ Histories'
         /\ UNCHANGED <<url, want, pc, entries, items, answer>>
BY DEF Change, Histories, Contents, handler

-----------------------------------------------------------------------------
\* The histories begin with the directory the request finds.
LEMMA InitTypes == Init => Types /\ Histories
<1> SUFFICES ASSUME Init PROVE Types /\ Histories
  OBVIOUS
<1>1. url \in [path : Seq(STRING), slash : BOOLEAN] /\ (url.path = <<>> => url.slash)
  <2>1. CASE url = [path |-> <<>>, slash |-> TRUE]
    BY <2>1
  <2>2. ASSUME NEW p \in Paths, NEW b \in BOOLEAN, url = [path |-> p, slash |-> b]
        PROVE  url \in [path : Seq(STRING), slash : BOOLEAN] /\ url.path # <<>>
    BY <2>2, PathFacts
  <2>3. QED
    BY <2>1, <2>2 DEF Init, Requests
<1>2. QED
  BY <1>1, SharedAssumption DEF Init, Types, Histories

\* Every step keeps the types, and the histories true.
LEMMA NextTypes == Types /\ Histories /\ [Next]_vars => Types' /\ Histories'
<1> SUFFICES ASSUME Types, Histories, [Next]_vars PROVE Types' /\ Histories'
  OBVIOUS
<1>1. CASE HandlerStep
  <2>1. UNCHANGED <<fs, changes, ever, always, want>>
    BY <1>1, HandlerKeeps
  <2>2. Histories'
    BY <2>1 DEF Histories, Contents
  <2>3. fs' \in [Paths -> Nodes] /\ want' \in Requests /\ changes' \in Nat
    BY <2>1 DEF Types
  <2>4. CASE follow
    <3>1. answer.to \in Seq(STRING) /\ url.path \in Seq(STRING)
      BY <2>4 DEF follow, Types
    <3>2. Front(url.path) \in Seq(STRING)
      <4>1. CASE url.path = <<>>
        BY <4>1 DEF Front
      <4>2. CASE url.path # <<>>
        BY <3>1, <4>2, FrontFacts
      <4>3. QED
        BY <4>1, <4>2
    <3>3. Front(url.path) \o answer.to \in Seq(STRING)
      BY <3>1, <3>2
    <3>4. QED
      BY <2>2, <2>3, <2>4, <3>3 DEF follow, Types
  <2>5. CASE redirect
    <3>1. url.path \in Paths
      BY <2>5, NodeFacts DEF redirect, Types, Node, Requests
    <3>2. QED
      BY <2>2, <2>3, <2>5, <3>1, PathFacts DEF redirect, Types
  <2>6. CASE indexRedirect
    BY <2>2, <2>3, <2>6 DEF indexRedirect, Types
  <2>9. CASE dirRedirect
    <3>1. url.path \in Paths
      BY <2>9, NodeFacts DEF dirRedirect, Types, Node, Requests
    <3>2. QED
      BY <2>2, <2>3, <2>9, <3>1, PathFacts DEF dirRedirect, Types
  <2>7. CASE UNCHANGED url /\ pc' # "redirected"
    BY <2>2, <2>3, <2>7 DEF Types
  <2>8. QED
    BY <1>1, <2>4, <2>5, <2>6, <2>7, <2>9
       DEF HandlerStep, statError, statDir, statFile, stat, readDir, readDirError, info,
           dirListTmpl, ServeFile, Answer
<1>2. ASSUME NEW f \in [Paths -> Nodes], Change(f) PROVE Types' /\ Histories'
  BY <1>2, ChangeFacts DEF Types
<1>3. CASE UNCHANGED vars
  BY <1>3 DEF vars, Types, Histories, Contents
<1>4. QED
  BY <1>1, <1>2, <1>3, Steps

-----------------------------------------------------------------------------
(* Errors.                                                                 *)

\* Nothing is kept where nothing, or another thing than before, is.
LEMMA NotKept ==
  ASSUME Types, Histories, NEW p,
         \/ Node(p) = None
         \/ Node(p) # Dir /\ \A x \in always : x[1] = p => x[2] = Dir
  PROVE  ~Kept(p)
BY NodeFacts, KeptThere DEF Kept

\* Every step keeps what the handler knows from os.Stat, and its errors true.
LEMMA NextErrors ==
  Types /\ Histories /\ Statted /\ ErrorTrue /\ [Next]_vars => Statted' /\ ErrorTrue'
<1> SUFFICES ASSUME Types, Histories, Statted, ErrorTrue, [Next]_vars
             PROVE  Statted' /\ ErrorTrue'
  OBVIOUS
<1>1. CASE HandlerStep
  <2>1. pc # "done" /\ UNCHANGED <<fs, changes, ever, always, want>>
    BY <1>1, HandlerKeeps
  <2>2. Statted'
    <3>1. CASE statDir
      BY <2>1, <3>1, NodeFacts, KeptThere DEF statDir, stat, Statted
    <3>2. CASE pc' # "readdir"
      BY <3>2 DEF Statted
    <3>3. QED
      BY <1>1, <3>1, <3>2
         DEF HandlerStep, statError, redirect, follow, statFile, stat, readDir,
             readDirError, info, dirListTmpl, ServeFile, dirRedirect, indexRedirect, Answer
  <2>3. ErrorTrue'
    <3>1. \A p : Kept(p)' <=> Kept(p)
      BY <2>1 DEF Kept
    <3>2. CASE statError
      BY <2>1, <3>1, <3>2, NotKept DEF statError, ErrorTrue
    <3>3. CASE readDirError
      BY <2>1, <3>1, <3>3, NotKept DEF readDirError, ErrorTrue, Statted
    <3>4. CASE dirListTmpl
      BY <3>4 DEF dirListTmpl, Answer, ErrorTrue, Done
    <3>5. CASE ServeFile
      <4>1. CASE Node(url.path) = None
        BY <2>1, <3>1, <3>5, <4>1, NotKept DEF ServeFile, ErrorTrue
      <4>2. CASE Node(url.path) # None
        <5>1. answer'.code = 200
          BY <3>5, <4>2 DEF ServeFile, Answer
        <5>2. QED
          BY <5>1 DEF ErrorTrue, Done
      <4>3. QED
        BY <4>1, <4>2
    <3>6. CASE pc' # "done"
      BY <3>6 DEF ErrorTrue, Done
    <3>7. QED
      BY <1>1, <2>1, <3>2, <3>3, <3>4, <3>5, <3>6
         DEF HandlerStep, redirect, follow, statDir, statFile, stat, readDir, info,
             dirRedirect, indexRedirect
  <2>4. QED
    BY <2>2, <2>3
<1>2. ASSUME NEW f \in [Paths -> Nodes], Change(f) PROVE Statted' /\ ErrorTrue'
  BY <1>2, ChangeFacts DEF Statted, ErrorTrue, Done
<1>3. CASE UNCHANGED vars
  BY <1>3 DEF vars, Statted, ErrorTrue, Done, Kept
<1>4. QED
  BY <1>1, <1>2, <1>3, Steps

-----------------------------------------------------------------------------
(* Sizes.                                                                  *)

\* The loop of formatSize ends with the largest unit that is not too large.
LEMMA ExpFacts ==
  ASSUME NEW n \in Nat
  PROVE  /\ exp(n) \in 0 .. 3
         /\ exp(n) = 3 \/ n < div[exp(n) + 2]
         /\ \A d \in 0 .. exp(n) - 1 : n >= div[d + 2]
<1> DEFINE P(e) == /\ e = 3 \/ n < div[e + 2]
                   /\ \A d \in 0 .. e - 1 : n >= div[d + 2]
<1>1. div[2] \in Nat /\ div[3] \in Nat /\ div[4] \in Nat
  BY SharedAssumption DEF div
<1>2. \E e \in 0 .. 3 : P(e)
  <2>1. CASE n < div[2]
    <3>1. P(0)
      BY <2>1
    <3>2. QED
      BY <3>1
  <2>2. CASE n >= div[2] /\ n < div[3]
    <3>1. P(1)
      BY <2>2
    <3>2. QED
      BY <3>1
  <2>3. CASE n >= div[2] /\ n >= div[3] /\ n < div[4]
    <3>1. P(2)
      BY <2>3
    <3>2. QED
      BY <3>1
  <2>4. CASE n >= div[2] /\ n >= div[3] /\ n >= div[4]
    <3>1. P(3)
      BY <2>4
    <3>2. QED
      BY <3>1
  <2>5. QED
    BY <1>1, <2>1, <2>2, <2>3, <2>4
<1>3. exp(n) = CHOOSE e \in 0 .. 3 : P(e)
  BY DEF exp
<1> HIDE DEF P
<1>4. exp(n) \in 0 .. 3 /\ P(exp(n))
  BY <1>2, <1>3
<1>5. QED
  BY <1>4 DEF P

\* What formatSize prints is the size in whole units, and no other text.
LEMMA FormatFacts ==
  ASSUME NEW node, node.type = "file", node.size \in Nat
  PROVE  /\ SizeOf(node, formatSize(node.size))
         /\ formatSize(node.size)[2] \notin {"-", "dir"}
<1> DEFINE n == node.size
           k == exp(n) + 1
<1>1. CASE n < Unit
  BY <1>1 DEF formatSize, SizeOf
<1>2. CASE ~(n < Unit)
  <2>1. n \in Nat /\ Unit \in Nat /\ div[1] = Unit
    BY SharedAssumption DEF div
  <2>2. /\ k \in 1 .. 4 /\ (k = 4 \/ n < div[k + 1])
        /\ k # 1 => n >= div[k]
    <3>1. exp(n) \in 0 .. 3 /\ (exp(n) = 3 \/ n < div[exp(n) + 2])
      BY ExpFacts
    <3>2. exp(n) # 0 => n >= div[(exp(n) - 1) + 2]
      BY <3>1, ExpFacts
    <3>3. QED
      BY <3>1, <3>2
  <2>3. n >= div[k]
    BY <1>2, <2>1, <2>2
  <2>4. formatSize(n) = <<n \div div[k], Units[k]>>
    BY <1>2 DEF formatSize
  <2> HIDE DEF k, n
  <2>5. Units[k] \in {"K", "M", "G", "T"}
    BY <2>2 DEF Units
  <2>6. SizeOf(node, formatSize(n))
    BY <2>2, <2>3, <2>4 DEF SizeOf, n
  <2>7. formatSize(n)[2] = Units[k]
    BY <2>4
  <2>8. QED
    BY <2>5, <2>6, <2>7 DEF n
<1>3. QED
  BY <1>1, <1>2

-----------------------------------------------------------------------------
(* Sequences and their elements.                                           *)

IsSeq(s) == s \in Seq(ToSet(s))

\* A sequence over any set is one over its elements.
LEMMA SeqOfItsElements == ASSUME NEW S, NEW s \in Seq(S) PROVE IsSeq(s)
<1>1. \A i \in 1 .. Len(s) : s[i] \in ToSet(s)
  BY DEF ToSet
<1>2. QED
  BY <1>1 DEF IsSeq

\* The empty sequence has no elements.
LEMMA EmptyFacts == IsSeq(<<>>) /\ ToSet(<<>>) = {}
BY DEF IsSeq, ToSet

\* A sequence of one.
LEMMA SingleFacts == ASSUME NEW e PROVE IsSeq(<<e>>) /\ ToSet(<<e>>) = {e}
<1>1. ToSet(<<e>>) = {e}
  BY DEF ToSet
<1>2. QED
  BY <1>1 DEF IsSeq

\* Append adds one element.
LEMMA AppendFacts ==
  ASSUME NEW s, IsSeq(s), NEW e
  PROVE  IsSeq(Append(s, e)) /\ ToSet(Append(s, e)) = ToSet(s) \cup {e}
<1> DEFINE S == ToSet(s) \cup {e}
<1>1. s \in Seq(S) /\ e \in S
  BY DEF IsSeq
<1>2. ToSet(s) = {s[i] : i \in 1 .. Len(s)}
  BY DEF ToSet, IsSeq
<1>3. Append(s, e) \in Seq(S)
  BY <1>1
<1>4. ToSet(Append(s, e)) = S
  <2>1. ToSet(Append(s, e)) = {Append(s, e)[i] : i \in 1 .. Len(s) + 1}
    BY <1>1 DEF ToSet
  <2>2. \A i \in 1 .. Len(s) : Append(s, e)[i] = s[i]
    BY <1>1
  <2>3. Append(s, e)[Len(s) + 1] = e /\ Len(s) \in Nat
    BY <1>1
  <2>4. QED
    BY <1>2, <2>1, <2>2, <2>3
<1>5. QED
  BY <1>3, <1>4 DEF IsSeq

\* A sequence is its head and its tail.
LEMMA TailFacts ==
  ASSUME NEW s, IsSeq(s), s # <<>>
  PROVE  /\ IsSeq(Tail(s)) /\ Head(s) \in ToSet(s)
         /\ ToSet(s) = {Head(s)} \cup ToSet(Tail(s))
<1> DEFINE S == ToSet(s)
<1>1. s \in Seq(S)
  BY DEF IsSeq
<1> HIDE DEF S
<1>2. /\ Len(s) \in Nat \ {0} /\ Head(s) = s[1] /\ Len(Tail(s)) = Len(s) - 1
      /\ Tail(s) \in Seq(S)
      /\ \A i \in 1 .. Len(s) - 1 : Tail(s)[i] = s[i + 1]
  BY <1>1
<1>3. DOMAIN Tail(s) = 1 .. Len(s) - 1 /\ DOMAIN s = 1 .. Len(s)
  BY <1>1, <1>2
<1>4. \A x \in ToSet(Tail(s)) : x \in ToSet(s)
  <2>1. ASSUME NEW i \in 1 .. Len(s) - 1 PROVE Tail(s)[i] \in ToSet(s)
    <3>1. i + 1 \in 1 .. Len(s) /\ Tail(s)[i] = s[i + 1]
      BY <1>2
    <3>2. QED
      BY <1>3, <3>1 DEF ToSet
  <2>2. QED
    BY <1>3, <2>1 DEF ToSet
<1>5. \A x \in ToSet(s) : x = Head(s) \/ x \in ToSet(Tail(s))
  <2>1. ASSUME NEW i \in 1 .. Len(s), i # 1 PROVE s[i] \in ToSet(Tail(s))
    <3>1. i - 1 \in 1 .. Len(s) - 1 /\ (i - 1) + 1 = i
      BY <1>2, <2>1
    <3>2. Tail(s)[i - 1] = s[i]
      BY <1>2, <3>1
    <3>3. QED
      BY <1>3, <3>1, <3>2 DEF ToSet
  <2>2. QED
    BY <1>2, <1>3, <2>1 DEF ToSet
<1>6. Head(s) \in ToSet(s)
  BY <1>2, <1>3 DEF ToSet
<1>7. IsSeq(Tail(s))
  BY <1>2, SeqOfItsElements
<1>8. QED
  BY <1>4, <1>5, <1>6, <1>7

\* SetToSeqs(S) are the sequences that have every element of S once.
LEMMA SeqsOfSet ==
  ASSUME NEW S, IsFiniteSet(S), NEW s \in SetToSeqs(S)
  PROVE  IsSeq(s) /\ ToSet(s) = S
<1> DEFINE n == Cardinality(S)
<1>1. n \in Nat
  BY FS_CardinalityType
<1>2. /\ s \in [1 .. n -> S]
      /\ \A i, j \in 1 .. n : i # j => s[i] # s[j]
  BY DEF SetToSeqs
<1> HIDE DEF n
<1>3. Cardinality(1 .. n) = n
  <2>1. /\ 1 \in Int /\ n \in Int
        /\ (IF 1 > n THEN 0 ELSE n - 1 + 1) = n
    BY <1>1
  <2>2. QED
    BY <2>1, FS_Interval, Zenon
<1>4. s \in Injection(1 .. n, S)
  BY <1>2 DEF Injection, IsInjective
<1>5. s \in Surjection(1 .. n, S)
  BY <1>3, <1>4, FS_Injection DEF n
<1>6. \A x \in S : \E i \in 1 .. n : s[i] = x
  BY <1>5 DEF Surjection
<1>7. ToSet(s) = S
  BY <1>2, <1>6 DEF ToSet
<1>8. s \in Seq(S)
  BY <1>1, <1>2
<1>9. QED
  BY <1>7, <1>8 DEF IsSeq

-----------------------------------------------------------------------------
(* Listings.                                                               *)

\* Something of that name and kind was in directory p at some time.
Seen(p, e) == \E x \in ever : x[1] = Append(p, e.name) /\ e.dir = (x[2] = Dir)

\* What ListTrue says of one line.
TrueLine(p, e) ==
    /\ e.name \notin Hidden
    /\ Seen(p, e)
    /\ ~e.dir /\ e.size = <<0, "-">> => ~Kept(Append(p, e.name))
    /\ ~e.dir /\ e.size[2] \notin {"-", "dir"} =>
          \E x \in ever : x[1] = Append(p, e.name) /\ SizeOf(x[2], e.size)

\* Of what was in p all the time, nothing visible is missing in E.
Complete(p, E) ==
    \A x \in always :
        x[1] \in Children(p) /\ Last(x[1]) \notin Hidden =>
            \E e \in E : /\ e.name # ".."
                         /\ Append(p, e.name) = x[1] /\ e.dir = (x[2] = Dir)

\* What is true of the entries that are left, the lines that are made, and
\* both together, while the loop runs.
Listing ==
    pc = "info" =>
        /\ IsSeq(entries) /\ IsSeq(items)
        /\ \A e \in ToSet(entries) :
              e.name # ".." /\ e.dir \in BOOLEAN /\ Seen(url.path, e)
        /\ \A e \in ToSet(items) : e.name # ".." => TrueLine(url.path, e)
        /\ Complete(url.path, ToSet(entries) \cup ToSet(items))

\* os.ReadDir and the sort: all that is there, and nothing else.
LEMMA ReadDirFacts ==
  ASSUME Types, Histories, readDir
  PROVE  Listing'
<1> DEFINE P == {q \in Children(url.path) : fs[q] # None}
           E(q) == [name |-> Last(q), dir |-> fs[q] = Dir]
           found == {E(q) : q \in P}
<1>1. /\ entries' \in SetToSeqs(found)
      /\ items' = IF url.path = <<>> THEN <<>> ELSE <<[name |-> "..", dir |-> TRUE]>>
      /\ UNCHANGED <<url, fs, ever, always>>
  BY DEF readDir, world
<1>2. IsFiniteSet(found)
  <2>1. IsFiniteSet(P)
    <3>1. P \in SUBSET Paths
      BY DEF Children
    <3>2. QED
      BY <3>1, SharedAssumption, FS_Subset
  <2>2. [q \in P |-> E(q)] \in Surjection(P, found)
    BY DEF Surjection
  <2> HIDE DEF P, found
  <2>3. QED
    BY <2>1, <2>2, FS_Surjection
<1>3. IsSeq(entries') /\ ToSet(entries') = found
  BY <1>1, <1>2, SeqsOfSet
<1>4. \A q \in P : /\ q \in Paths /\ E(q).name = Last(q) /\ E(q).name # ".."
                   /\ Append(url.path, Last(q)) = q
                   /\ E(q).dir = (fs[q] = Dir) /\ E(q).dir \in BOOLEAN
                   /\ <<q, fs[q]>> \in ever
  BY PathFacts DEF Children, Histories, Contents
<1>5. ASSUME NEW e \in found
      PROVE  e.name # ".." /\ e.dir \in BOOLEAN /\ Seen(url.path, e)'
  <2>1. PICK q \in P : e = E(q)
    OBVIOUS
  <2>2. <<q, fs[q]>> \in ever' /\ url'.path = url.path
    BY <1>1, <1>4
  <2>3. QED
    BY <1>4, <2>1, <2>2 DEF Seen
<1>6. IsSeq(items') /\ \A e \in ToSet(items') : e.name = ".."
  <2>1. CASE url.path = <<>>
    BY <1>1, <2>1, EmptyFacts
  <2>2. CASE url.path # <<>>
    <3>1. items' = <<[name |-> "..", dir |-> TRUE]>>
      BY <1>1, <2>2
    <3>2. IsSeq(items') /\ ToSet(items') = {[name |-> "..", dir |-> TRUE]}
      BY <3>1, SingleFacts
    <3>3. QED
      BY <3>2
  <2>3. QED
    BY <2>1, <2>2
<1>7. ASSUME NEW x \in always, x[1] \in Children(url.path)
      PROVE  \E e \in found : /\ e.name # ".." /\ Append(url.path, e.name) = x[1]
                              /\ e.dir = (x[2] = Dir)
  <2>1. x[1] \in Paths /\ x[2] = Node(x[1]) /\ x[2] # None
    BY KeptThere
  <2>2. x[2] = fs[x[1]]
    BY <2>1, PathFacts DEF Node
  <2>3. x[1] \in P
    BY <1>7, <2>1, <2>2
  <2>4. E(x[1]) \in found
    BY <2>3
  <2>5. QED
    BY <1>4, <2>2, <2>3, <2>4
<1>8. Complete(url.path, ToSet(entries) \cup ToSet(items))'
  BY <1>1, <1>3, <1>7 DEF Complete, Children
<1>9. QED
  BY <1>3, <1>5, <1>6, <1>8 DEF Listing

\* A line is true when it is made.
LEMMA LineFacts ==
  ASSUME Types, Histories, NEW e, e.dir \in BOOLEAN, Seen(url.path, e),
         e.name \notin Hidden
  PROVE  /\ TrueLine(url.path, Line(e))
         /\ Line(e).name = e.name /\ Line(e).dir = e.dir
<1>1. CASE e.dir
  BY <1>1 DEF Line, TrueLine
<1>2. CASE ~e.dir
  <2> DEFINE p == Append(url.path, e.name)
             l == Line(e)
             z == sizeOf(Node(p))
  <2>1. l.name = e.name /\ l.dir = FALSE /\ l.size = z
    BY <1>2 DEF Line
  <2>2. e.dir = FALSE
    BY <1>2
  <2> HIDE DEF l, p, z
  <2>3. z = <<0, "-">> => ~Kept(p)
    <3>1. CASE Node(p).type = "none"
      BY <3>1, NodeFacts, NotKept
    <3>2. CASE Node(p).type = "file"
      <4>1. z = formatSize(Node(p).size)
        BY <3>2 DEF sizeOf, z
      <4>2. z[2] # "-"
        BY <3>2, <4>1, NodeFacts, FormatFacts
      <4>3. QED
        BY <4>2
    <3>3. CASE Node(p).type \notin {"none", "file"}
      BY <3>3 DEF sizeOf, z
    <3>4. QED
      BY <3>1, <3>2, <3>3
  <2>4. z[2] \notin {"-", "dir"} => \E x \in ever : x[1] = p /\ SizeOf(x[2], z)
    <3>1. CASE Node(p).type = "file"
      <4>1. z = formatSize(Node(p).size) /\ SizeOf(Node(p), z)
        BY <3>1, NodeFacts, FormatFacts DEF sizeOf, z
      <4>2. p \in Paths /\ Node(p) = fs[p] /\ fs[p] # None
        BY <3>1, NodeFacts DEF Node, None, Dir
      <4>3. <<p, fs[p]>> \in ever
        BY <4>2 DEF Histories, Contents
      <4>4. QED
        BY <4>1, <4>2, <4>3
    <3>2. CASE Node(p).type # "file"
      BY <3>2 DEF sizeOf, z
    <3>3. QED
      BY <3>1, <3>2
  <2>5. Seen(url.path, l)
    BY <2>1, <2>2 DEF Seen
  <2>6. TrueLine(url.path, l)
    BY <2>1, <2>3, <2>4, <2>5 DEF TrueLine, p
  <2>7. QED
    BY <2>1, <2>2, <2>6 DEF l
<1>3. QED
  BY <1>1, <1>2

\* One round of the loop turns an entry into a line, or skips a hidden one.
LEMMA InfoFacts ==
  ASSUME Types, Histories, Listing, info
  PROVE  Listing'
<1> DEFINE h == Head(entries)
<1>1. /\ pc = "info" /\ entries # <<>> /\ entries' = Tail(entries)
      /\ items' = IF h.name \in Hidden THEN items ELSE Append(items, Line(h))
      /\ UNCHANGED <<url, pc, fs, ever, always>>
  BY DEF info, world
<1>2. /\ IsSeq(entries) /\ IsSeq(items)
      /\ \A e \in ToSet(entries) :
            e.name # ".." /\ e.dir \in BOOLEAN /\ Seen(url.path, e)
      /\ \A e \in ToSet(items) : e.name # ".." => TrueLine(url.path, e)
      /\ Complete(url.path, ToSet(entries) \cup ToSet(items))
  BY <1>1 DEF Listing
<1>3. /\ IsSeq(entries') /\ h \in ToSet(entries)
      /\ ToSet(entries) = {h} \cup ToSet(entries')
  BY <1>1, <1>2, TailFacts
<1> HIDE DEF h
<1>4. /\ \A e : Seen(url.path, e)' <=> Seen(url.path, e)
      /\ \A e : TrueLine(url.path, e)' <=> TrueLine(url.path, e)
      /\ \A E : Complete(url.path, E)' <=> Complete(url.path, E)
  BY <1>1 DEF Seen, TrueLine, Complete, Kept, Children
<1>5. CASE h.name \in Hidden
  <2>1. items' = items
    BY <1>1, <1>5
  <2>2. Complete(url.path, ToSet(entries') \cup ToSet(items))
    <3>1. SUFFICES ASSUME NEW x \in always, x[1] \in Children(url.path),
                          Last(x[1]) \notin Hidden
                   PROVE  \E e \in ToSet(entries') \cup ToSet(items) :
                             /\ e.name # ".."
                             /\ Append(url.path, e.name) = x[1] /\ e.dir = (x[2] = Dir)
      BY DEF Complete
    <3>2. PICK e \in ToSet(entries) \cup ToSet(items) :
                 /\ e.name # ".."
                 /\ Append(url.path, e.name) = x[1] /\ e.dir = (x[2] = Dir)
      BY <1>2, <3>1 DEF Complete
    <3>3. e # h
      <4>1. Last(Append(url.path, e.name)) = e.name
        BY DEF Types, Last
      <4>2. QED
        BY <1>5, <3>1, <3>2, <4>1
    <3>4. QED
      BY <1>3, <3>2, <3>3
  <2>3. QED
    BY <1>1, <1>2, <1>3, <1>4, <2>1, <2>2 DEF Listing
<1>6. CASE h.name \notin Hidden
  <2>1. /\ TrueLine(url.path, Line(h))
        /\ Line(h).name = h.name /\ Line(h).dir = h.dir
    BY <1>2, <1>3, <1>6, LineFacts
  <2>2. IsSeq(items') /\ ToSet(items') = ToSet(items) \cup {Line(h)}
    BY <1>1, <1>2, <1>6, AppendFacts
  <2>3. Complete(url.path, ToSet(entries') \cup ToSet(items'))
    BY <1>2, <1>3, <2>1, <2>2 DEF Complete
  <2>4. QED
    BY <1>1, <1>2, <1>3, <1>4, <2>1, <2>2, <2>3 DEF Listing
<1>7. QED
  BY <1>5, <1>6

\* What is known of a listing stays true when the directory changes.
LEMMA ChangeListing ==
  ASSUME Types, Histories, Listing, NEW f \in [Paths -> Nodes], Change(f)
  PROVE  Listing'
<1>1. /\ always' \subseteq always /\ ever \subseteq ever'
      /\ UNCHANGED <<url, pc, entries, items>>
  BY ChangeFacts
<1>2. \A e : Seen(url.path, e) => Seen(url.path, e)'
  BY <1>1 DEF Seen
<1>3. \A p : Kept(p)' => Kept(p)
  BY <1>1 DEF Kept
<1>4. \A e : TrueLine(url.path, e) => TrueLine(url.path, e)'
  BY <1>1, <1>2, <1>3 DEF TrueLine
<1>5. \A E : Complete(url.path, E) => Complete(url.path, E)'
  BY <1>1 DEF Complete, Children
<1>6. QED
  BY <1>1, <1>2, <1>4, <1>5 DEF Listing

\* When the loop is done the lines are a true listing.
LEMMA ListedTrue ==
  ASSUME Listing, dirListTmpl
  PROVE  ListTrue'
<1>1. /\ pc = "info" /\ entries = <<>>
      /\ answer' = [code |-> 200, dir |-> url.path, list |-> items]
      /\ UNCHANGED <<fs, ever, always>>
  BY DEF dirListTmpl, Answer, world
<1>2. /\ \A e \in ToSet(items) : e.name # ".." => TrueLine(url.path, e)
      /\ Complete(url.path, ToSet(items))
  BY <1>1, EmptyFacts DEF Listing
<1>3. answer'.dir = url.path /\ answer'.list = items
  BY <1>1
<1>4. \A p : Kept(p)' <=> Kept(p)
  BY <1>1 DEF Kept
<1>5. QED
  BY <1>1, <1>2, <1>3, <1>4 DEF ListTrue, TrueLine, Seen, Complete, Children

\* Every step keeps the lines of the listing true, and the listing complete.
LEMMA NextListing ==
  Types /\ Histories /\ Listing /\ ListTrue /\ [Next]_vars => Listing' /\ ListTrue'
<1> SUFFICES ASSUME Types, Histories, Listing, ListTrue, [Next]_vars
             PROVE  Listing' /\ ListTrue'
  OBVIOUS
<1>1. CASE HandlerStep
  <2>1. CASE dirListTmpl
    BY <2>1, ListedTrue DEF dirListTmpl, Answer, Listing
  <2>2. CASE readDir
    BY <2>2, ReadDirFacts DEF readDir, ListTrue, Listed, Done
  <2>3. CASE info
    BY <2>3, InfoFacts DEF info, ListTrue, Listed, Done
  <2>4. CASE ServeFile
    <3>1. "list" \notin DOMAIN answer'
      BY <2>4 DEF ServeFile, Answer
    <3>2. pc' = "done"
      BY <2>4 DEF ServeFile, Answer
    <3>3. QED
      BY <3>1, <3>2 DEF Listing, ListTrue, Listed
  <2>5. CASE statError \/ readDirError
    <3>1. pc' = "done" /\ answer'.code # 200
      BY <2>5 DEF statError, readDirError, Answer
    <3>2. QED
      BY <3>1 DEF Listing, ListTrue, Listed, Done
  <2>6. CASE pc' \notin {"done", "info"}
    BY <2>6 DEF Listing, ListTrue, Listed, Done
  <2>7. QED
    BY <1>1, <2>1, <2>2, <2>3, <2>4, <2>5, <2>6
       DEF HandlerStep, redirect, follow, statDir, statFile, stat, dirRedirect,
           indexRedirect
<1>2. ASSUME NEW f \in [Paths -> Nodes], Change(f) PROVE Listing' /\ ListTrue'
  <2>1. pc' # "done"
    BY <1>2, ChangeFacts
  <2>2. QED
    BY <1>2, <2>1, ChangeListing DEF ListTrue, Listed, Done
<1>3. CASE UNCHANGED vars
  BY <1>3 DEF vars, Listing, ListTrue, Listed, Done, TrueLine, Seen, Complete, Kept, Children
<1>4. QED
  BY <1>1, <1>2, <1>3, Steps

-----------------------------------------------------------------------------
(* Redirects.                                                              *)

\* Where the client is on the way to Goal, as long as nothing changes.
Way ==
    changes = 0 =>
        /\ pc \in {"stat", "serve"} => url = want \/ (url.path = Goal /\ url.slash)
        /\ pc = "serve" => Node(url.path).type = "file"
        /\ pc = "redirected" => Front(url.path) \o answer.to = Goal
        /\ pc \in {"readdir", "info"} => url.path = Goal /\ Node(Goal) = Dir

\* The three cases of Goal.
LEMMA GoalFacts ==
  ASSUME Types
  PROVE  /\ Node(want.path) = Dir /\ ~want.slash =>
               Goal = Front(want.path) \o want.path /\ want.path \in Paths
         /\ Node(want.path).type = "file" /\ Index(want) =>
               Goal = Front(want.path) /\ want.path \in Paths
         /\ ~(Node(want.path) = Dir /\ ~want.slash) /\
            ~(Node(want.path).type = "file" /\ Index(want)) => Goal = want.path
<1>1. Node(want.path).type = "file" => Node(want.path) # Dir /\ want.path # <<>>
  BY NodeFacts DEF Dir
<1>2. want.path = <<>> => want.slash
  <2>1. ASSUME NEW p \in Paths, NEW b \in BOOLEAN, want = [path |-> p, slash |-> b]
        PROVE  want.path # <<>>
    BY <2>1, PathFacts
  <2>2. QED
    BY <2>1 DEF Types, Requests
<1>3. want.path # <<>> => want.path \in Paths
  BY DEF Types, Requests
<1>4. QED
  BY <1>1, <1>2, <1>3 DEF Goal

\* The handler leads the client to Goal.
LEMMA HandlerWay ==
  ASSUME Types, Way, HandlerStep PROVE Way'
<1> SUFFICES ASSUME changes = 0, changes' = 0 PROVE Way'
  BY HandlerKeeps DEF Way
<1>1. UNCHANGED <<fs, want>>
  BY HandlerKeeps
<1>2. Goal' = Goal /\ \A p : Node(p)' = Node(p)
  BY <1>1 DEF Goal, Node, Index
<1>3. CASE redirect
  <2>1. url = want /\ url.path \in Paths /\ Goal = Front(url.path) \o url.path
    <3>1. pc = "stat" /\ Node(url.path) = Dir /\ ~url.slash
      BY <1>3 DEF redirect
    <3>2. url = want
      BY <3>1 DEF Way
    <3>3. QED
      BY <3>1, <3>2, GoalFacts
  <2>2. answer'.to = url.path /\ url' = url /\ pc' = "redirected"
    BY <1>3, <2>1, PathFacts DEF redirect
  <2>3. QED
    BY <1>2, <2>1, <2>2 DEF Way
<1>4. CASE indexRedirect
  <2>1. pc = "serve" /\ Index(url) /\ ~url.slash
    BY <1>4 DEF indexRedirect, Index
  <2>2. url = want /\ Node(want.path).type = "file"
    BY <2>1 DEF Way
  <2>3. Goal = Front(url.path) /\ url.path \in Paths
    BY <2>1, <2>2, GoalFacts
  <2>4. Front(url.path) \o <<>> = Front(url.path)
    BY <2>3, PathFacts
  <2>5. answer'.to = <<>> /\ url' = url /\ pc' = "redirected"
    BY <1>4 DEF indexRedirect
  <2>6. QED
    BY <1>2, <2>3, <2>4, <2>5 DEF Way
<1>11. CASE dirRedirect
  BY <1>11 DEF dirRedirect, Way, Dir
<1>5. CASE follow
  <2>1. url' = [path |-> Goal, slash |-> TRUE] /\ pc' = "stat"
    BY <1>5 DEF follow, Way
  <2>2. QED
    BY <1>2, <2>1 DEF Way
<1>6. CASE statDir
  <2>1. /\ pc = "stat" /\ pc' = "readdir" /\ url' = url /\ url.slash
        /\ Node(url.path) = Dir
    BY <1>6, NodeFacts DEF statDir, stat
  <2>2. url.path = Goal
    <3>1. CASE url = want
      <4>1. Node(want.path).type # "file"
        BY <2>1, <3>1 DEF Dir
      <4>2. QED
        BY <2>1, <3>1, <4>1, GoalFacts
    <3>2. QED
      BY <2>1, <3>1 DEF Way
  <2>3. QED
    BY <1>2, <2>1, <2>2 DEF Way
<1>7. CASE statFile
  BY <1>2, <1>7 DEF statFile, stat, Way
<1>8. CASE readDir \/ info
  BY <1>2, <1>8 DEF readDir, info, Way
<1>9. CASE pc' = "done"
  BY <1>9 DEF Way
<1>10. QED
  BY <1>3, <1>4, <1>5, <1>6, <1>7, <1>8, <1>9, <1>11
     DEF HandlerStep, statError, readDirError, dirListTmpl, ServeFile, Answer

\* What is answered is what is there.
LEMMA HandlerReaches ==
  ASSUME Types, Way, HandlerStep PROVE Reaches'
<1> SUFFICES ASSUME changes = 0, pc' = "done" PROVE Reaches'
  BY HandlerKeeps DEF Reaches
<1>1. UNCHANGED <<fs, want>>
  BY HandlerKeeps
<1>2. Goal' = Goal /\ Node(Goal)' = Node(Goal)
  BY <1>1 DEF Goal, Node, Index
<1>3. None # Dir
  BY NodeFacts
<1>4. CASE statError
  <2>1. Node(url.path) = None /\ pc = "stat" /\ answer' = [code |-> 404]
    BY <1>4 DEF statError, Answer
  <2>2. url.path = Goal
    <3>1. CASE url = want
      <4>1. Node(want.path).type # "file"
        BY <2>1, <3>1 DEF None
      <4>2. QED
        BY <1>3, <2>1, <3>1, <4>1, GoalFacts
    <3>2. QED
      BY <2>1, <3>1 DEF Way
  <2>3. QED
    BY <1>2, <1>3, <2>1, <2>2 DEF Reaches
<1>5. CASE readDirError
  BY <1>5 DEF readDirError, Way
<1>6. CASE dirListTmpl
  <2>1. Node(Goal) = Dir /\ answer' = [code |-> 200, dir |-> Goal, list |-> items]
    BY <1>6 DEF dirListTmpl, Answer, Way
  <2>2. Listed' /\ answer'.dir = Goal
    BY <2>1 DEF Listed, Done
  <2>3. QED
    BY <1>2, <2>1, <2>2, <1>3 DEF Reaches
<1>7. CASE ServeFile
  <2>1. pc = "serve" /\ ~Index(url) /\ Node(url.path).type = "file"
    BY <1>7 DEF ServeFile, Way
  <2>2. Node(url.path) # Dir /\ Node(url.path) # None
    BY <2>1 DEF Dir, None
  <2>3. url.path = Goal
    <3>1. CASE url = want
      BY <2>1, <2>2, <3>1, GoalFacts
    <3>2. QED
      BY <2>1, <3>1 DEF Way
  <2>4. answer' = [code |-> 200, file |-> <<url.path, Node(url.path)>>]
    BY <1>7, <2>2 DEF ServeFile, Answer
  <2>5. QED
    BY <1>2, <2>2, <2>3, <2>4 DEF Reaches
<1>8. QED
  BY <1>4, <1>5, <1>6, <1>7
     DEF HandlerStep, redirect, follow, statDir, statFile, stat, readDir, info,
         dirRedirect, indexRedirect

\* Every step keeps the client on its way to Goal.
LEMMA NextReaches ==
  Types /\ Histories /\ Way /\ Reaches /\ [Next]_vars => Way' /\ Reaches'
<1> SUFFICES ASSUME Types, Histories, Way, Reaches, [Next]_vars
             PROVE  Way' /\ Reaches'
  OBVIOUS
<1>1. CASE HandlerStep
  BY <1>1, HandlerWay, HandlerReaches
<1>2. ASSUME NEW f \in [Paths -> Nodes], Change(f) PROVE Way' /\ Reaches'
  <2>1. changes' # 0
    BY <1>2, ChangeFacts DEF Types
  <2>2. QED
    BY <2>1 DEF Way, Reaches
<1>3. CASE UNCHANGED vars
  <2>1. Goal' = Goal /\ \A p : Node(p)' = Node(p)
    BY <1>3 DEF vars, Goal, Node, Index
  <2>2. Listed' <=> Listed
    BY <1>3 DEF vars, Listed, Done
  <2>3. UNCHANGED <<url, want, pc, answer, changes>>
    BY <1>3 DEF vars
  <2>4. Way'
    BY <2>1, <2>3 DEF Way
  <2>5. Node(Goal)' = Node(Goal)
    BY <1>3 DEF vars, Goal, Node, Index
  <2>6. Reaches'
    BY <2>1, <2>2, <2>3, <2>5 DEF Reaches
  <2>7. QED
    BY <2>4, <2>6
<1>4. QED
  BY <1>1, <1>2, <1>3, Steps

-----------------------------------------------------------------------------
IInv ==
    /\ Types /\ Histories /\ Statted /\ ErrorTrue
    /\ Listing /\ ListTrue
    /\ Way /\ Reaches

\* IInv holds in every reachable state.
THEOREM Invariance == Spec => []IInv
<1>1. Init => IInv
  <2> SUFFICES ASSUME Init PROVE IInv
    OBVIOUS
  <2>1. pc = "stat" /\ url = want
    BY DEF Init
  <2>2. QED
    BY <2>1, InitTypes
       DEF IInv, Statted, ErrorTrue, Listing, ListTrue, Listed, Done, Way, Reaches
<1>2. IInv /\ [Next]_vars => IInv'
  BY NextTypes, NextErrors, NextListing, NextReaches DEF IInv
<1>3. QED
  BY <1>1, <1>2, PTL DEF Spec

\* A 404 or a 500 of the shared directory says that the path was not there all
\* the time (ErrorTrue), whatever was changed between the system calls.
THEOREM ErrorTrueAlways == Spec => []ErrorTrue
<1>1. IInv => ErrorTrue
  BY DEF IInv
<1>2. QED
  BY <1>1, Invariance, PTL

\* A listing has what was there all the time, nothing that never was, and
\* true sizes (ListTrue), for any tree and any changes.
THEOREM ListTrueAlways == Spec => []ListTrue
<1>1. IInv => ListTrue
  BY DEF IInv
<1>2. QED
  BY <1>1, Invariance, PTL

\* In a directory that does not change, the redirects of the handler and of
\* http.ServeFile end at Goal (Reaches).
THEOREM ReachesAlways == Spec => []Reaches
<1>1. IInv => Reaches
  BY DEF IInv
<1>2. QED
  BY <1>1, Invariance, PTL

=============================================================================
