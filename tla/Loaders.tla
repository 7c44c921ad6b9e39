-------------------------------- MODULE Loaders --------------------------------
(***************************************************************************)
(* What resolves a URI to a document without the network (loader.go,        *)
(* loader_os.go): a ChainLoader over MapLoader, EmbedLoader, DefaultLoader  *)
(* and FileLoader, on a file system that other processes change between the *)
(* calls FileLoader makes.                                                  *)
(*                                                                          *)
(* A URI is a record: whether it parses, its scheme, what it names and      *)
(* whether a # ends it.  A directory maps names to entries; an entry is a   *)
(* file, by its identity, or a symbolic link to a name in a directory.      *)
(***************************************************************************)
EXTENDS Naturals, Sequences

CONSTANTS Chains,     \* the ChainLoaders: sequences of loader kinds
          Request,    \* the URIs asked for
          Roots,      \* the directories Root may lead to
          Trees,      \* the file systems to begin with
          Outside,    \* a directory it never leads to
          Name,       \* the names in a directory
          Content,    \* the entries the world puts in a directory of Roots
          Kind,       \* Kind[f]: "regular" or "pipe", of each file
          MaxSize,    \* FileLoader.MaxSize, in blocks, positive
          MaxChanges, \* bound: changes of the file system
          MaxLinks,   \* bound: links the system follows in one path
          None

File == DOMAIN Kind
Link(dir, name) == [dir |-> dir, name |-> name]

ASSUME ChainAssumption == \A c \in Chains : c \in Seq(STRING)
ASSUME NatAssumption == MaxSize \in Nat \ {0} /\ MaxChanges \in Nat /\ MaxLinks \in Nat
Dir == Roots \cup {Outside}
Entry == {None} \cup File \cup {Link(d, n) : d \in Dir, n \in Name}

\* What is in Content is all that is ever in a directory of Roots.
ASSUME TreeAssumption ==
    /\ Outside \notin Roots
    /\ Content \subseteq Entry
    /\ Trees \subseteq [Dir -> [Name -> Entry]]
    /\ \A t \in Trees, d \in Roots, n \in Name : t[d][n] \in Content

\* A file has no URI but its name, or a name that FileLoader refuses.
ASSUME RequestAssumption ==
    \A u \in Request :
        /\ u.hash \in BOOLEAN
        /\ u.what \notin File
        /\ u.scheme = "file" => u.what \in Name \cup {"..", "..a"}

VARIABLES chain,      \* the ChainLoader in use
          uri,        \* the URI it is asked for
          asked,      \* the answers of the loaders asked so far
          pc,         \* the statement FileLoader or the chain is about to execute
          root, path, \* FileLoader: resolvedRoot, and rel3 as a name
          opened,     \* readFileImpl: the file the descriptor stands for
          ret,        \* what the chain returns, None until it does
          tree, size, \* the world: [directory][name] -> entry, and sizes
          rootAt,     \* where the symbolic link Root leads now
          changes     \* how often the world has changed

loaderVars == <<asked, pc, root, path, opened, ret>>
world == <<tree, size, rootAt, changes>>
vars == <<chain, uri, loaderVars, world>>

\* The answers of a loader.
Data(what, bytes, of) == [kind |-> "data", what |-> what, bytes |-> bytes, of |-> of]
Rejected == [kind |-> "rejected", what |-> None, bytes |-> 0, of |-> 0]
Failed == [kind |-> "failed", what |-> None, bytes |-> 0, of |-> 0]

-----------------------------------------------------------------------------
(* MapLoader, and the map of embedded meta-schemas *)

Key(scheme, what, hash) == [scheme |-> scheme, what |-> what, hash |-> hash]
KeyOf(u) == Key(u.scheme, u.what, u.hash)

\* Mutant: only the entry stored without the # is tried.
WrongFinds(map, key) == key \in map \/ [key EXCEPT !.hash = FALSE] \in map

\* An exact entry first, then the one that differs by a trailing #.
Finds(map, key) == key \in map \/ [key EXCEPT !.hash = ~@] \in map

MapLoad(map, u) == IF Finds(map, KeyOf(u)) THEN Data(u.what, 1, 1) ELSE Rejected

\* MetaSchemaURL, and the $id of the documents no draft is named after.
Drafts == {Key("http", "draft-04", TRUE), Key("http", "draft-06", TRUE), Key("http", "draft-07", TRUE),
           Key("https", "2019-09", FALSE), Key("https", "2020-12", FALSE)}
Vocabularies == {Key("https", "vocabulary", FALSE), Key("https", "output", FALSE),
                 Key("https", "oas-dialect", FALSE)}

Unhashed(key) == [key EXCEPT !.hash = ~@]
Swapped(key) == [key EXCEPT !.scheme = IF @ = "http" THEN "https" ELSE "http"]

embeddedMetaMapLoader ==
    LET own == Drafts \cup Vocabularies
    IN own \cup {Unhashed(k) : k \in own} \cup {Swapped(k) : k \in Drafts}

\* DefaultLoader: the embedded map; a miss is a rejection that names the cure.
DefaultLoad(u) == MapLoad(embeddedMetaMapLoader, u)

\* A MapLoader of the caller's, with one entry stored under a trailing #.
Registered == {Key("https", "doc", TRUE)}

\* EmbedLoader: any error of the embedded file system is one of the chain.
EmbedLoad(u) ==
    CASE ~u.parses             -> Failed
      [] u.scheme # "embed"    -> Rejected
      [] u.what = "doc"        -> Data(u.what, 1, 1)
      [] OTHER                 -> Failed

-----------------------------------------------------------------------------
(* The file system *)

At(p) == tree[p.dir][p.name]

\* One link further on a path: None if it dangles, or leaves the directory it
\* is confined to.
Follow(confined, p) ==
    IF p = None \/ At(p) \in File THEN p
    ELSE IF At(p) = None \/ (confined /\ At(p).dir # p.dir) THEN None
    ELSE At(p)

\* Where a path ends, links followed: Link(d, n), or None if that is not a file.
Walk(confined, d, n) ==
    LET after[hops \in 0..MaxLinks] ==
          IF hops = 0 THEN Link(d, n) ELSE Follow(confined, after[hops - 1])
        end == after[MaxLinks]
    IN IF end # None /\ At(end) \in File THEN end ELSE None

evalSymlinks(d, n) == Walk(FALSE, d, n)

\* Mutant: the path is opened as any process would, wherever it leads now.
WrongInRoot(d, n) == evalSymlinks(d, n)

\* os.Root follows links inside its directory and no others.
InRoot(d, n) == Walk(TRUE, d, n)

FileAt(end) == IF end = None THEN None ELSE At(end)

Init ==
    /\ chain \in Chains
    /\ uri \in Request
    /\ asked = <<>>
    /\ pc = "next"
    /\ root = None
    /\ path = None
    /\ opened = None
    /\ ret = None
    /\ tree \in Trees
    /\ size = [f \in File |-> 1]
    /\ rootAt \in Roots
    /\ changes = 0

-----------------------------------------------------------------------------
(* ChainLoader *)

\* Mutant: any error lets the next loader try.
WrongAnswers(r) ==
    /\ asked' = Append(asked, r)
    /\ IF r.kind = "data" \/ Len(asked') = Len(chain)
       THEN ret' = r /\ pc' = "returned"
       ELSE ret' = ret /\ pc' = "next"
    /\ UNCHANGED <<chain, uri, root, path, opened, world>>

\* The loader that is asked answers r: the next is asked if that is a
\* rejection, and the last rejection is returned when there is no next.
Answers(r) ==
    /\ asked' = Append(asked, r)
    /\ IF r.kind # "rejected" \/ Len(asked') = Len(chain)
       THEN ret' = r /\ pc' = "returned"
       ELSE ret' = ret /\ pc' = "next"
    /\ UNCHANGED <<chain, uri, root, path, opened, world>>

EmptyChain ==
    /\ pc = "next"
    /\ chain = <<>>
    /\ ret' = Rejected
    /\ pc' = "returned"
    /\ UNCHANGED <<chain, uri, asked, root, path, opened, world>>

Asking(kind) == pc = "next" /\ Len(asked) < Len(chain) /\ chain[Len(asked) + 1] = kind

AskMap == Asking("map") /\ Answers(MapLoad(Registered, uri))
AskDefault == Asking("default") /\ Answers(DefaultLoad(uri))
AskEmbed == Asking("embed") /\ Answers(EmbedLoad(uri))

\* A FileLoader with an empty Root.
AskDisabled == Asking("disabled") /\ Answers(Rejected)

-----------------------------------------------------------------------------
(* FileLoader.Load *)

\* A ".." segment, and what filepath.Rel gives for a name that begins with
\* two dots: the check is of a prefix.
Escapes == uri.what \in {"..", "..a"}

FileRefuses ==
    /\ Asking("file")
    /\ \/ ~uri.parses /\ Answers(Failed)
       \/ uri.parses /\ (uri.scheme # "file" \/ Escapes) /\ Answers(Rejected)

\* evalSymlinks(rootAbs).
ResolveRoot ==
    /\ Asking("file")
    /\ uri.parses /\ uri.scheme = "file" /\ ~Escapes
    /\ root' = rootAt
    /\ pc' = "path"
    /\ UNCHANGED <<chain, uri, asked, path, opened, ret, world>>

\* evalSymlinks(joined): Root is resolved again on the way, and may lead
\* elsewhere by now.
NotFound ==
    /\ pc = "path"
    /\ evalSymlinks(rootAt, uri.what) = None
    /\ Answers(Failed)

LinkEscapes ==
    /\ pc = "path"
    /\ evalSymlinks(rootAt, uri.what) # None
    /\ evalSymlinks(rootAt, uri.what).dir # root
    /\ Answers(Rejected)

ResolvePath ==
    /\ pc = "path"
    /\ evalSymlinks(rootAt, uri.what) # None
    /\ evalSymlinks(rootAt, uri.what).dir = root
    /\ path' = evalSymlinks(rootAt, uri.what).name
    /\ pc' = "stat"
    /\ UNCHANGED <<chain, uri, asked, root, opened, ret, world>>

-----------------------------------------------------------------------------
(* readFileImpl *)

Regular(f) == f # None /\ Kind[f] = "regular"

StatRefuses == pc = "stat" /\ ~Regular(FileAt(InRoot(root, path))) /\ Answers(Failed)

Stat ==
    /\ pc = "stat"
    /\ Regular(FileAt(InRoot(root, path)))
    /\ pc' = "open"
    /\ UNCHANGED <<chain, uri, asked, root, path, opened, ret, world>>

\* Mutant: a plain open of a pipe waits for a writer.
WrongReadFlags == {}
openReadFlags == {"nonblock"}

\* An open that waits for the other end of a pipe.
Blocks ==
    /\ "nonblock" \notin openReadFlags
    /\ InRoot(root, path) # None
    /\ Kind[FileAt(InRoot(root, path))] = "pipe"

OpenFails == pc = "open" /\ InRoot(root, path) = None /\ Answers(Failed)

Open ==
    /\ pc = "open"
    /\ InRoot(root, path) # None
    /\ ~Blocks
    /\ opened' = FileAt(InRoot(root, path))
    /\ pc' = "read"
    /\ UNCHANGED <<chain, uri, asked, root, path, ret, world>>

\* Mutant: the reader stops at the limit, and the rest is cut off unnoticed.
WrongReadAll == IF size[opened] > MaxSize THEN MaxSize ELSE size[opened]

\* io.ReadAll behind a LimitReader of one more than the limit.
ReadAll == IF size[opened] > MaxSize + 1 THEN MaxSize + 1 ELSE size[opened]

\* f.Stat asks of the descriptor, whose kind is settled.
ReadRefuses == pc = "read" /\ (~Regular(opened) \/ ReadAll > MaxSize) /\ Answers(Failed)

Read ==
    /\ pc = "read"
    /\ Regular(opened)
    /\ ReadAll <= MaxSize
    /\ Answers(Data(opened, ReadAll, size[opened]))

\* Any of the calls may fail, those that make Root absolute and resolve it included.
IOError ==
    /\ \/ pc \in {"path", "stat", "open", "read"}
       \/ Asking("file") /\ uri.parses /\ uri.scheme = "file"
    /\ pc = "open" => ~Blocks
    /\ Answers(Failed)

LoaderStep ==
    \/ EmptyChain \/ AskMap \/ AskDefault \/ AskEmbed \/ AskDisabled
    \/ FileRefuses \/ ResolveRoot \/ NotFound \/ LinkEscapes \/ ResolvePath
    \/ StatRefuses \/ Stat \/ OpenFails \/ Open \/ ReadRefuses \/ Read \/ IOError

-----------------------------------------------------------------------------
(* The world *)

\* Before FileLoader's first call a change is another tree to begin with.
Changes ==
    /\ pc \in {"path", "stat", "open", "read"}
    /\ changes < MaxChanges
    /\ changes' = changes + 1
    /\ UNCHANGED <<chain, uri, loaderVars>>

\* A name of a directory Root may lead to is given another entry.
Swap(d, n, entry) ==
    /\ Changes
    /\ entry # tree[d][n]
    /\ tree' = [tree EXCEPT ![d][n] = entry]
    /\ UNCHANGED <<size, rootAt>>

Grow(f) ==
    /\ Changes
    /\ Kind[f] = "regular"
    /\ size' = [size EXCEPT ![f] = @ + 1]
    /\ UNCHANGED <<tree, rootAt>>

MoveRoot(d) ==
    /\ Changes
    /\ d # rootAt
    /\ rootAt' = d
    /\ UNCHANGED <<tree, size>>

World ==
    \/ \E d \in Roots, n \in Name, entry \in Content : Swap(d, n, entry)
    \/ \E f \in File : Grow(f)
    \/ \E d \in Roots : MoveRoot(d)

Next == LoaderStep \/ World

\* The goroutine that loads is scheduled; nothing is asked of the world.
Spec == Init /\ [][Next]_vars /\ WF_vars(LoaderStep)

-----------------------------------------------------------------------------
(* Properties *)

\* What FileLoader returns is a regular file that was never anywhere but
\* inside Root, all of it, and within MaxSize, whatever was swapped, linked or
\* written between the two resolutions, the check, the open and the read.
OnlyWholeFilesOfRoot ==
    (pc = "returned" /\ ret.kind = "data" /\ ret.what \in File) =>
        /\ ret.what \in Content
        /\ Kind[ret.what] = "regular"
        /\ ret.bytes = ret.of
        /\ ret.of <= MaxSize

\* A document comes from the first loader that does not reject the URI, and an
\* I/O failure is never hidden by a loader further on that could serve it.
FailureSurfaces ==
    pc = "returned" =>
        /\ \A i \in DOMAIN asked : asked[i].kind # "rejected" => (i = Len(asked) /\ ret = asked[i])
        /\ ret.kind = "rejected" => Len(asked) = Len(chain)

\* A URI of an embedded document, under either scheme.
OfEmbedded(u) == u.scheme \in {"http", "https"} /\ u.what \in {k.what : k \in Drafts \cup Vocabularies}

\* Every spelling of a draft's meta-schema, and of the other embedded documents
\* under the scheme of their own $id, is served without a network, and nothing that
\* is not embedded is.
MetaOffline ==
    (pc = "returned" /\ chain = <<"default">>) =>
        /\ ret.kind = "data" => OfEmbedded(uri) /\ ret.what = uri.what
        /\ OfEmbedded(uri) /\ (uri.scheme = "https" \/ uri.what \in {k.what : k \in Drafts}) =>
              ret.kind = "data"

\* MetaLoader serves "every supported draft, its per-vocabulary meta-schemas, the
\* 2020-12 output schema and the OpenAPI 3.1 dialect under both their http:// and
\* https:// URIs" (loader.go).
BothSchemes ==
    (pc = "returned" /\ chain = <<"default">> /\ OfEmbedded(uri)) => ret.kind = "data"

\* Load returns, even if a pipe takes the place of the file between the check
\* and the open.
EveryLoadReturns == <>(pc = "returned")

-----------------------------------------------------------------------------
(* The inductive invariant of the chain: it goes on only after rejections,   *)
(* and FileLoader works while its answer is due.                             *)

ChainInv ==
    /\ chain \in Chains
    /\ pc # "returned" => asked \in Seq({Rejected}) /\ Len(asked) <= Len(chain)
    /\ pc \in {"path", "stat", "open", "read"} => Len(asked) < Len(chain)
    /\ FailureSurfaces

\* What FileLoader has resolved, and the file it has opened, is in a directory
\* Root has led to; DefaultLoader alone answers with what is embedded.
FileInv ==
    /\ uri \in Request
    /\ tree \in [Dir -> [Name -> Entry]] /\ rootAt \in Roots /\ size \in [File -> Nat]
    /\ \A d \in Roots, n \in Name : tree[d][n] \in Content
    /\ pc \in {"path", "stat", "open", "read"} => root \in Roots /\ uri.what \in Name
    /\ pc \in {"stat", "open", "read"} => path \in Name
    /\ pc = "read" => opened \in File \cap Content
    /\ chain = <<"default">> =>
          /\ pc \in {"next", "returned"}
          /\ pc = "returned" => ret = DefaultLoad(uri)
    /\ OnlyWholeFilesOfRoot
=============================================================================
