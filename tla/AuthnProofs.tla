----------------------------- MODULE AuthnProofs -----------------------------
(***************************************************************************)
(* Proofs about Authn, for every file and every header.                    *)
(***************************************************************************)
EXTENDS Authn, TLAPS

\* The IDs and the entries read so far are acceptable.
Prefix ==
    /\ entries \in Seq(Entry)
    /\ i \in 1..(Len(entries) + 1)
    /\ idmap = {entries[j].id : j \in 1..(i-1)}
    /\ \A j, k \in 1..(i-1) : entries[j].id = entries[k].id => j = k
    /\ \A j \in 1..(i-1) : validate(entries[j])

\* The index holds the last of the entries read so far for every header.
Indexed ==
    /\ \A h \in DOMAIN index :
          /\ h # None
          /\ index[h] \in 1..(i-1)
          /\ headerValue(entries[index[h]]) = h
          /\ \A j \in 1..(i-1) : headerValue(entries[j]) = h => j <= index[h]
    /\ \A j \in 1..(i-1) :
          headerValue(entries[j]) # None => headerValue(entries[j]) \in DOMAIN index

\* How the loop ended.
Ended ==
    /\ result \in {"reading", "error", "ready"}
    /\ result = "ready" => i = Len(entries) + 1
    /\ result = "error" => ~Acceptable

\* What the last request was answered.
Bound ==
    /\ header \in Header \cup {None}
    /\ header # None => result = "ready"
    /\ who = extractEntry(received(header))
    /\ header = None => who = 0

IInv == Prefix /\ Indexed /\ Ended /\ Bound

\* Nothing is read and nobody is authenticated at the start.
LEMMA InitIInv == Init => IInv
<1> SUFFICES ASSUME Init PROVE IInv
  OBVIOUS
<1>1. PICK n \in 0..MaxEntries : entries \in [1..n -> Entry]
  BY DEF Init
<1>2. entries \in Seq(Entry) /\ Len(entries) = n
  BY <1>1, AuthnAssumption
<1>3. QED
  BY <1>2, AuthnAssumption
  DEF Init, IInv, Prefix, Indexed, Ended, Bound, extractEntry, received

\* A header that was received is not the missing one.
LEMMA ReceivedNone == received(None) = None
BY DEF received

\* An entry that passes both tests extends the prefix and the index.
LEMMA ReadEntryStep == ASSUME IInv, readEntry PROVE IInv'
<1> DEFINE e == entries[i]
<1> DEFINE h == headerValue(e)
<1>1. i \in 1..Len(entries) /\ i \in Nat /\ Len(entries) \in Nat /\ i' = i + 1
  BY DEF readEntry, IInv, Prefix
<1>2. Prefix'
  <2>1. UNCHANGED entries /\ idmap' = idmap \cup {e.id} /\ e.id \notin idmap /\ validate(e)
    BY DEF readEntry, duplicated
  <2>2. 1..(i' - 1) = 1..(i - 1) \cup {i}
    BY <1>1
  <2>3. QED
    BY <1>1, <2>1, <2>2 DEF IInv, Prefix
<1>3. Indexed'
  <2>1. UNCHANGED entries
    BY DEF readEntry
  <2>2. 1..(i' - 1) = 1..(i - 1) \cup {i}
    BY <1>1
  <2>3. CASE h = None
    <3>1. index' = index
      BY <2>3 DEF readEntry, addIndex
    <3>2. QED
      BY <1>1, <2>1, <2>2, <2>3, <3>1 DEF IInv, Indexed
  <2>4. CASE h # None
    <3>1. /\ DOMAIN index' = DOMAIN index \cup {h}
          /\ index'[h] = i
          /\ \A x \in DOMAIN index \ {h} : index'[x] = index[x]
      BY <2>4 DEF readEntry, addIndex
    <3>2. QED
      BY <1>1, <2>1, <2>2, <2>4, <3>1 DEF IInv, Indexed
  <2>5. QED
    BY <2>3, <2>4
<1>4. Ended' /\ Bound'
  <2>1. result = "reading" /\ UNCHANGED <<entries, result, header, who>>
    BY DEF readEntry
  <2>2. header = None /\ who = 0
    BY <2>1 DEF IInv, Bound
  <2>3. None \notin DOMAIN index'
    BY <1>3 DEF Indexed
  <2>4. QED
    BY <2>1, <2>2, <2>3, ReceivedNone DEF IInv, Ended, Bound, extractEntry, received
<1>5. QED
  BY <1>2, <1>3, <1>4 DEF IInv

\* IInv is inductive.
LEMMA NextIInv == IInv /\ [Next]_vars => IInv'
<1> SUFFICES ASSUME IInv, [Next]_vars PROVE IInv'
  OBVIOUS
<1>1. CASE readEntry
  BY <1>1, ReadEntryStep
<1>2. CASE readError
  <2>1. ~Acceptable
    <3>1. i \in Positions
      BY <1>2 DEF readError, IInv, Prefix, Positions
    <3>2. CASE ~validate(entries[i])
      BY <3>1, <3>2 DEF Acceptable
    <3>3. CASE duplicated(entries[i])
      <4>1. PICK j \in 1..(i-1) : entries[j].id = entries[i].id
        BY <3>3 DEF duplicated, IInv, Prefix
      <4>2. j \in Positions /\ j # i
        BY <3>1, <4>1 DEF Positions, IInv, Prefix
      <4>3. QED
        BY <3>1, <4>1, <4>2 DEF Acceptable
    <3>4. QED
      BY <1>2, <3>2, <3>3 DEF readError
  <2>2. QED
    BY <1>2, <2>1
    DEF readError, IInv, Prefix, Indexed, Ended, Bound, Acceptable, Positions,
        extractEntry, received
<1>3. CASE readDone
  BY <1>3
  DEF readDone, IInv, Prefix, Indexed, Ended, Bound, extractEntry, received
<1>4. CASE AuthenticateHandler
  BY <1>4, AuthnAssumption, ReceivedNone
  DEF AuthenticateHandler, IInv, Prefix, Indexed, Ended, Bound, extractEntry
<1>5. CASE UNCHANGED vars
  BY <1>5 DEF vars, IInv, Prefix, Indexed, Ended, Bound, Acceptable, Positions,
              extractEntry, received
<1>6. QED
  BY <1>1, <1>2, <1>3, <1>4, <1>5 DEF Next

\* IInv holds in every reachable state.
THEOREM Invariance == Spec => []IInv
BY InitIInv, NextIInv, PTL DEF Spec

\* The loop accepts exactly the files with distinct IDs and valid entries
\* (AcceptsExactly).
THEOREM AcceptsExactlyAlways == Spec => []AcceptsExactly
<1>1. IInv => AcceptsExactly
  BY DEF IInv, Prefix, Ended, AcceptsExactly, Acceptable, Positions
<1>2. QED
  BY <1>1, Invariance, PTL

\* A request is authenticated as the last entry with its credentials, and as
\* nobody only if no entry has them (AuthenticatesOwner).
THEOREM AuthenticatesOwnerAlways == Spec => []AuthenticatesOwner
<1>1. IInv => OwnerOnly
  <2> SUFFICES ASSUME IInv, who # 0
               PROVE  /\ header # None
                      /\ headerValue(entries[who]) = received(header)
                      /\ \A j \in Positions :
                            headerValue(entries[j]) = received(header) => j <= who
    BY DEF OwnerOnly
  <2>1. header # None /\ received(header) \in DOMAIN index /\ who = index[received(header)]
    BY DEF IInv, Bound, extractEntry
  <2>2. i = Len(entries) + 1 /\ Len(entries) \in Nat
    BY <2>1 DEF IInv, Bound, Ended, Prefix
  <2>3. QED
    BY <2>1, <2>2 DEF IInv, Indexed, Positions
<1>2. IInv => NeverRefused
  <2> SUFFICES ASSUME IInv, who = 0, header # None, NEW j \in Positions,
                      headerValue(entries[j]) # None,
                      headerValue(entries[j]) = received(header)
               PROVE  FALSE
    BY DEF NeverRefused
  <2>1. i = Len(entries) + 1 /\ Len(entries) \in Nat
    BY DEF IInv, Bound, Ended, Prefix
  <2>2. received(header) \in DOMAIN index
    BY <2>1 DEF IInv, Indexed, Positions
  <2>3. who = index[received(header)]
    BY <2>2 DEF IInv, Bound, extractEntry
  <2>4. index[received(header)] \in 1..(i-1)
    BY <2>2 DEF IInv, Indexed
  <2>5. QED
    BY <2>1, <2>3, <2>4
<1>3. IInv => AuthenticatesOwner
  BY <1>1, <1>2 DEF AuthenticatesOwner
<1>4. QED
  BY <1>3, Invariance, PTL

=============================================================================
