------------------------------- MODULE Shared -------------------------------
(***************************************************************************)
(* The shared directory: internal/fileserver, below the prefix /shared/.   *)
(* One GET or HEAD, with its redirects, while WebDAV requests and queries  *)
(* of other clients change the files between its system calls.             *)
(*                                                                         *)
(* A path is a sequence of names: net/http.ServeMux has removed "." and    *)
(* ".." before the handler sees it, and StripPrefix its leading slash.     *)
(***************************************************************************)
EXTENDS Naturals, Sequences, FiniteSets, SequencesExt

CONSTANTS
    Paths,       \* the paths below the root that may exist
    Trees,       \* the contents the directory may have at first
    Sizes,       \* the sizes of files that are written
    Hidden,      \* the names that begin with a dot
    Rank,        \* the place of a name in the order of lower-case names
    Unit,        \* 1024
    MaxChanges   \* bound on the changes during the request

VARIABLES
    fs,       \* what is at each path: None, Dir, or a file [size |-> n]
    url,      \* the requested path and whether it ends in a slash
    want,     \* the request before any redirect
    pc,       \* where the handler is
    entries,  \* the directory entries that are left to list
    items,    \* the lines of the listing
    answer,   \* the response
    changes,  \* the number of changes so far
    ever,     \* history: what was there at some time during the request
    always    \* history: what was there all the time

vars == <<fs, url, want, pc, entries, items, answer, changes, ever, always>>
handler == <<url, want, pc, entries, items, answer>>
world   == <<fs, changes, ever, always>>

None    == [type |-> "none"]
Dir     == [type |-> "dir"]
File(n) == [type |-> "file", size |-> n]
Nodes   == {None, Dir} \cup [type : {"file"}, size : Nat]

ASSUME SharedAssumption ==
    /\ IsFiniteSet(Paths) /\ Paths \subseteq Seq(STRING \ {".."}) \ {<<>>}
    /\ Trees \subseteq [Paths -> Nodes]
    /\ Sizes \subseteq Nat
    /\ Unit \in Nat \ {0, 1}
    /\ MaxChanges \in Nat

Node(p)     == IF p = <<>> THEN Dir ELSE IF p \in Paths THEN fs[p] ELSE None
Children(p) == {q \in Paths : Len(q) = Len(p) + 1 /\ Front(q) = p}
Contents(f) == {<<p, f[p]>> : p \in {q \in Paths : f[q] # None}}

Requests == {[path |-> p, slash |-> b] : p \in Paths, b \in BOOLEAN}
            \cup {[path |-> <<>>, slash |-> TRUE]}

Init ==
    /\ fs \in Trees
    /\ url \in Requests /\ want = url
    /\ pc = "stat" /\ entries = <<>> /\ items = <<>>
    /\ answer = [code |-> 0]
    /\ changes = 0
    /\ ever = Contents(fs) /\ always = Contents(fs)

-----------------------------------------------------------------------------
(* formatSize                                                              *)

Units == <<"K", "M", "G", "T">>

\* The values of div before each round of the loop.
div == <<Unit, Unit * Unit, Unit * Unit * Unit, Unit * Unit * Unit * Unit>>

\* Variant: > in the place of >=.
expStrict(n) == CHOOSE e \in 0..3 :
    /\ e = 3 \/ n <= div[e + 2]
    /\ \A d \in 0..e-1 : n > div[d + 2]

\* The loop stops at the first e whose next unit is too large, or at T.
exp(n) == CHOOSE e \in 0..3 :
    /\ e = 3 \/ n < div[e + 2]
    /\ \A d \in 0..e-1 : n >= div[d + 2]

formatSize(n) ==
    IF n < Unit THEN <<n, "">> ELSE <<n \div div[exp(n) + 1], Units[exp(n) + 1]>>

-----------------------------------------------------------------------------
(* The handler.                                                            *)

Answer(a) == answer' = a /\ pc' = "done"

\* Variant: hidden names are not served.
statErrorHidden ==
    /\ pc = "stat"
    /\ Node(url.path) = None \/ (url.path # <<>> /\ Last(url.path) \in Hidden)
    /\ Answer([code |-> 404])
    /\ UNCHANGED <<url, want, entries, items, world>>

statError ==
    /\ pc = "stat"
    /\ Node(url.path) = None
    /\ Answer([code |-> 404])
    /\ UNCHANGED <<url, want, entries, items, world>>

\* Variant: path.Dir in the place of path.Base.
redirectDir ==
    /\ pc = "stat"
    /\ Node(url.path) = Dir /\ ~url.slash
    /\ answer' = [code |-> 301, to |-> Front(url.path) \o Front(url.path)]
    /\ pc' = "redirected"
    /\ UNCHANGED <<url, want, entries, items, world>>

\* A directory without its slash.  http.Redirect puts the directory of the
\* stripped path in front of path.Base, and the path has no leading slash.
redirect ==
    /\ pc = "stat"
    /\ Node(url.path) = Dir /\ ~url.slash
    /\ answer' = [code |-> 301, to |-> Front(url.path) \o <<Last(url.path)>>]
    /\ pc' = "redirected"
    /\ UNCHANGED <<url, want, entries, items, world>>

\* The client resolves the location against the URL it had asked for.
follow ==
    /\ pc = "redirected"
    /\ url' = [path |-> Front(url.path) \o answer.to, slash |-> TRUE]
    /\ pc' = "stat"
    /\ UNCHANGED <<want, entries, items, answer, world>>

stat(type, to) ==
    /\ pc = "stat"
    /\ Node(url.path).type = type
    /\ pc' = to
    /\ UNCHANGED <<url, want, entries, items, answer, world>>

statDir  == url.slash /\ stat("dir", "readdir")
statFile == stat("file", "serve")

Less(a, b) ==
    IF a.dir # b.dir THEN a.dir ELSE Rank[a.name] < Rank[b.name]

\* os.ReadDir, then sort.Slice, which orders names that are equal but for
\* their case in any way.
readDir ==
    /\ pc = "readdir"
    /\ Node(url.path) = Dir
    /\ LET found == {[name |-> Last(p), dir |-> fs[p] = Dir] :
                        p \in {q \in Children(url.path) : fs[q] # None}}
       IN  \E s \in SetToSeqs(found) :
              /\ \A i, j \in DOMAIN s : i < j => ~Less(s[j], s[i])
              /\ entries' = s
    /\ items' = IF url.path = <<>> THEN <<>> ELSE <<[name |-> "..", dir |-> TRUE]>>
    /\ pc' = "info"
    /\ UNCHANGED <<url, want, answer, world>>

readDirError ==
    /\ pc = "readdir"
    /\ Node(url.path) # Dir
    /\ Answer([code |-> 500])
    /\ UNCHANGED <<url, want, entries, items, world>>

\* A directory that took the place of a file has a size, too.
sizeOf(node) ==
    CASE node.type = "file" -> formatSize(node.size)
      [] node.type = "none" -> <<0, "-">>
      [] OTHER -> <<0, "dir">>

Line(e) ==
    IF e.dir THEN e
    ELSE [name |-> e.name, dir |-> FALSE, size |-> sizeOf(Node(Append(url.path, e.name)))]

\* One round of the loop; entries that are hidden are skipped.
info ==
    /\ pc = "info" /\ entries # <<>>
    /\ entries' = Tail(entries)
    /\ items' = IF Head(entries).name \in Hidden THEN items
                ELSE Append(items, Line(Head(entries)))
    /\ UNCHANGED <<url, want, pc, answer, world>>

dirListTmpl ==
    /\ pc = "info" /\ entries = <<>>
    /\ Answer([code |-> 200, dir |-> url.path, list |-> items])
    /\ UNCHANGED <<url, want, entries, items, world>>

\* http.ServeFile opens the path again: the file, nothing, or by now a
\* directory, which net/http lists in its own way if the path ends in a slash.
Index(u) == Len(u.path) > 1 /\ Last(u.path) = "index.html" /\ ~u.slash

ServeFile ==
    /\ pc = "serve" /\ ~Index(url)
    /\ Node(url.path) = Dir => url.slash
    /\ LET node == Node(url.path) IN
         Answer(CASE node = None -> [code |-> 404]
                  [] node = Dir  -> [code |-> 200, own |-> FALSE]
                  [] OTHER       -> [code |-> 200, file |-> <<url.path, node>>])
    /\ UNCHANGED <<url, want, entries, items, world>>

\* A directory without its slash: a location relative to the URL asked for.
dirRedirect ==
    /\ pc = "serve" /\ ~Index(url)
    /\ Node(url.path) = Dir /\ ~url.slash
    /\ answer' = [code |-> 301, to |-> <<Last(url.path)>>]
    /\ pc' = "redirected"
    /\ UNCHANGED <<url, want, entries, items, world>>

\* http.ServeFile sends a path that ends in /index.html to its directory.
indexRedirect ==
    /\ pc = "serve" /\ Index(url)
    /\ answer' = [code |-> 301, to |-> <<>>]
    /\ pc' = "redirected"
    /\ UNCHANGED <<url, want, entries, items, world>>

-----------------------------------------------------------------------------
(* The other clients (golang.org/x/net/webdav).                            *)

Change(f) ==
    /\ pc # "done" /\ changes < MaxChanges
    /\ fs' = f /\ changes' = changes + 1
    /\ ever' = ever \cup Contents(f)
    /\ always' = always \cap Contents(f)
    /\ UNCHANGED handler

PUT(p, n) ==
    /\ Node(Front(p)) = Dir /\ Node(p) # Dir
    /\ Change([fs EXCEPT ![p] = File(n)])

MKCOL(p) ==
    /\ Node(Front(p)) = Dir /\ Node(p) = None
    /\ Change([fs EXCEPT ![p] = Dir])

DELETE(p) ==
    /\ Node(p) # None
    /\ Change([q \in Paths |-> IF IsPrefix(p, q) THEN None ELSE fs[q]])

Finished == pc = "done" /\ UNCHANGED vars

Next ==
    \/ statError \/ redirect \/ follow \/ statDir \/ statFile
    \/ readDir \/ readDirError \/ info \/ dirListTmpl
    \/ ServeFile \/ dirRedirect \/ indexRedirect \/ Finished
    \/ \E p \in Paths : MKCOL(p) \/ DELETE(p) \/ \E n \in Sizes : PUT(p, n)

Spec == Init /\ [][Next]_vars

-----------------------------------------------------------------------------
Done(code) == pc = "done" /\ answer.code = code
Listed     == Done(200) /\ "list" \in DOMAIN answer
Kept(p)    == p = <<>> \/ \E x \in always : x[1] = p

\* A 404 or 500 is true: what was asked for was not there all the time.
ErrorTrue ==
    (Done(404) \/ Done(500)) /\ url.path = want.path => ~Kept(want.path)

SizeOf(node, s) ==
    /\ node.type = "file"
    /\ \/ s = <<node.size, "">> /\ node.size < Unit
       \/ \E k \in 1..4 : /\ s = <<node.size \div div[k], Units[k]>>
                          /\ node.size >= div[k]
                          /\ k = 4 \/ node.size < div[k + 1]

\* A listing is true whatever changes meanwhile: it has the visible entries
\* that were there all the time, none that never was, no hidden one; a file
\* has no size only if it vanished, else the size it had at some time, in the
\* largest unit that is not larger than it.
ListTrue ==
    Listed =>
        LET At(e) == Append(answer.dir, e.name)
            lines == {e \in ToSet(answer.list) : e.name # ".."}
        IN  /\ \A x \in always :
                 x[1] \in Children(answer.dir) /\ Last(x[1]) \notin Hidden =>
                    \E e \in lines : At(e) = x[1] /\ e.dir = (x[2] = Dir)
            /\ \A e \in lines :
                 /\ e.name \notin Hidden
                 /\ \E x \in ever : x[1] = At(e) /\ e.dir = (x[2] = Dir)
                 /\ ~e.dir /\ e.size = <<0, "-">> => ~Kept(At(e))
                 /\ ~e.dir /\ e.size[2] \notin {"-", "dir"} =>
                       \E x \in ever : x[1] = At(e) /\ SizeOf(x[2], e.size)

\* Where the redirects lead: a directory that is asked for without its slash
\* to a path that names its parents twice, an index.html to its directory.
Goal ==
    CASE Node(want.path) = Dir /\ ~want.slash -> Front(want.path) \o want.path
      [] Node(want.path).type = "file" /\ Index(want) -> Front(want.path)
      [] OTHER -> want.path

\* With no change meanwhile, a client that follows the redirects gets the file
\* or the listing at Goal, or a 404 when there is nothing: what it asked for,
\* but for an index.html below a directory, which ends in the listing of that
\* directory, and a directory that is not directly below the root.
Reaches ==
    pc = "done" /\ changes = 0 =>
        CASE Node(Goal) = Dir  -> Listed /\ answer.dir = Goal
          [] Node(Goal) = None -> answer = [code |-> 404]
          [] OTHER -> answer = [code |-> 200, file |-> <<Goal, Node(Goal)>>]

=============================================================================
