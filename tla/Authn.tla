-------------------------------- MODULE Authn --------------------------------
(***************************************************************************)
(* internal/authn: the authentication file is read entry by entry into an  *)
(* index from the value of an Authorization header to an entry; requests   *)
(* are then authenticated by looking their header up.                      *)
(*                                                                         *)
(* A text is a sequence of characters, because the header of a basic entry *)
(* joins two of them with ":".  base64 is injective and left out.          *)
(***************************************************************************)
EXTENDS Naturals, Sequences

CONSTANTS
    Entry,       \* the entries a file may hold
    Header,      \* the Authorization headers a client may send
    MaxEntries,  \* bound on the length of the file
    None         \* a missing user, token or header

ASSUME AuthnAssumption ==
    /\ MaxEntries \in Nat
    /\ None \notin Header

VARIABLES
    entries,  \* the entries of the file
    i,        \* the entry the loop of readAuthenticator is at
    idmap,    \* the IDs met so far
    index,    \* header value -> position of its entry
    result,   \* "reading", "error" or "ready"
    header,   \* the Authorization header of the last request, as sent
    who       \* the entry bound to its context, 0 for none

vars == <<entries, i, idmap, index, result, header, who>>

\* strings.TrimSpace: the text without leading and trailing spaces.
TrimSpace(t) ==
    LET S == {k \in 1..Len(t) : t[k] # " "}
    IN  IF S = {} THEN <<>>
        ELSE SubSeq(t, CHOOSE a \in S : \A b \in S : a <= b,
                       CHOOSE a \in S : \A b \in S : a >= b)

\* Entry.headerValue: None stands for the empty string.
headerValue(e) ==
    IF e.type = "basic" /\ e.user # None
    THEN <<"Basic", " ">> \o e.user.name \o <<":">> \o e.user.password
    ELSE IF e.type = "bearer" /\ e.token # None
    THEN <<"Bearer", " ">> \o TrimSpace(e.token)
    ELSE None

\* Entry.validate: nil?  An unknown type is not an error.
validate(e) ==
    /\ e.type = "basic" =>
          e.user # None /\ e.user.name # <<>> /\ e.user.password # <<>>
    /\ e.type = "bearer" => e.token # None /\ e.token # <<>>

Init ==
    /\ entries \in UNION {[1..n -> Entry] : n \in 0..MaxEntries}
    /\ i = 1
    /\ idmap = {}
    /\ index = [h \in {} |-> None]
    /\ result = "reading"
    /\ header = None /\ who = 0

\* Variant: the first entry with a header value wins.
addIndexFirst(h) ==
    index' = [x \in DOMAIN index \cup {h} |->
                IF x \in DOMAIN index THEN index[x] ELSE i]

\* index[x] = e, unless x is empty.
addIndex(h) ==
    index' = IF h = None THEN index
             ELSE [x \in DOMAIN index \cup {h} |-> IF x = h THEN i ELSE index[x]]

\* Variant: duplicated IDs are accepted.
duplicatedNever(e) == FALSE

duplicated(e) == e.id \in idmap

\* One iteration of the loop of readAuthenticator.
readEntry ==
    /\ result = "reading"
    /\ i <= Len(entries)
    /\ LET e == entries[i] IN
        /\ ~duplicated(e)
        /\ validate(e)
        /\ idmap' = idmap \cup {e.id}
        /\ addIndex(headerValue(e))
    /\ i' = i + 1
    /\ UNCHANGED <<entries, result, header, who>>

\* A duplicated ID or an invalid entry: New fails, the server never starts.
readError ==
    /\ result = "reading"
    /\ i <= Len(entries)
    /\ duplicated(entries[i]) \/ ~validate(entries[i])
    /\ result' = "error"
    /\ UNCHANGED <<entries, i, idmap, index, header, who>>

readDone ==
    /\ result = "reading"
    /\ i > Len(entries)
    /\ result' = "ready"
    /\ UNCHANGED <<entries, i, idmap, index, header, who>>

\* net/http trims the value of a header.
received(h) == IF h = None THEN None ELSE TrimSpace(h)

\* The entry for a header; no entry is indexed under the empty value.
extractEntry(h) == IF h \in DOMAIN index THEN index[h] ELSE 0

\* AuthenticateHandler: the entry of the header goes into the context.
AuthenticateHandler ==
    /\ result = "ready"
    /\ \E h \in Header \cup {None} :
        /\ header' = h
        /\ who' = extractEntry(received(h))
    /\ UNCHANGED <<entries, i, idmap, index, result>>

Next == readEntry \/ readError \/ readDone \/ AuthenticateHandler

\* An error ends the program.
Spec == Init /\ [][Next]_vars

-----------------------------------------------------------------------------
Positions == 1..Len(entries)

\* What readAuthenticator accepts: distinct IDs, and every entry valid.
Acceptable ==
    /\ \A j, k \in Positions : entries[j].id = entries[k].id => j = k
    /\ \A j \in Positions : validate(entries[j])

\* The loop accepts exactly the acceptable files, wherever the fault is; an
\* entry of an unknown type is no fault to it.
AcceptsExactly ==
    /\ result = "ready" => Acceptable
    /\ result = "error" => ~Acceptable

OwnerOnly ==
    who # 0 =>
        /\ header # None
        /\ headerValue(entries[who]) = received(header)
        /\ \A j \in Positions : headerValue(entries[j]) = received(header) => j <= who

NeverRefused ==
    who = 0 /\ header # None =>
        \A j \in Positions :
            headerValue(entries[j]) # None => headerValue(entries[j]) # received(header)

\* A request is authenticated as the last entry of the file whose credentials
\* are in its header, and as nobody only when there is none or when it has no
\* header, whatever other entries the file holds.
AuthenticatesOwner == OwnerOnly /\ NeverRefused

=============================================================================
