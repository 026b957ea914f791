-------------------------------- MODULE Static -------------------------------
(***************************************************************************)
(* Serving files while others rewrite them (internal/static/static.go and  *)
(* etag.go): requests of several clients at once, the entity-tag cache     *)
(* they share, and a file system whose modification times are coarse.      *)
(*                                                                         *)
(* The clock counts the file system's ticks, so a write is stamped with    *)
(* the tick it happens in. A content is a number that no other write uses, *)
(* its octet i is <<content, i>>, and the tag of some octets is their      *)
(* sequence: tags are equal only for equal octets. Names, inodes and the   *)
(* handles that pin them are the file system's (external).                 *)
(***************************************************************************)
EXTENDS Conditional, Ranges, Paths

CONSTANTS
    Clients,
    Targets,            \* targets asked for, as in Paths
    Probed,             \* those asked for with HEAD and POST too
    RangeSets,          \* range-sets that a resumed download asks for
    FileNames,          \* names of regular files
    Directories,        \* names of directories
    MaxTargetLength,    \* in segments
    Window,             \* tagSettleWindow, in ticks
    limit,              \* maxTagCacheEntries
    Sizes,
    MaxClock, MaxContents, MaxFaults, MaxRequests,   \* bounds of the exploration
    MaxPause            \* ticks between the stat of a handle and the reading of the clock

ASSUME StaticAssumption ==
    /\ Window \in Nat /\ limit \in Nat /\ MaxPause \in Nat
    /\ Sizes \subseteq Nat /\ \E n \in Sizes : \A m \in Sizes : m <= n
    /\ IsFiniteSet(FileNames) /\ "none" \notin Clients
    /\ RangeSets \subseteq Seq(Specifiers)

VARIABLES
    clock,
    contents,   \* the contents written so far
    inodes,     \* the inodes made so far: [content, size, mtime]
    link,       \* the inode of each name
    faults,     \* reads that failed
    entries,    \* tagCache.entries
    calls,      \* tagCache.calls: keys, each with the client whose request hashes
    serving,    \* the request of each client, or its answer
    requested,  \* requests made so far
    copy        \* what each client last downloaded

staticVars == <<clock, contents, inodes, link, faults, entries, calls, serving, requested, copy>>

Resolved == [t \in Targets |-> resolve(t)]
Octets(content, from, to) == [i \in 1 .. to - from + 1 |-> <<content, from + i>>]

versionOf(f) == [size |-> f.size, mtime |-> f.mtime]

MaxSize == CHOOSE n \in Sizes : \A m \in Sizes : m <= n

NoEntry == [version |-> [size |-> 0, mtime |-> NoDate], tag |-> NoTag]
NoCopy == [target |-> <<>>, tag |-> NoTag, body |-> <<>>, whole |-> FALSE]

Ask(method, target) ==
    [method |-> method, target |-> target, ifMatch |-> <<>>, ifNoneMatch |-> <<>>,
     ifUnmodifiedSince |-> <<>>, ifModifiedSince |-> <<>>, ifRange |-> <<>>, range |-> <<>>]

\* What serve keeps between its steps. Ghosts: content, what the inode held at open, and
\* cut, whether a read of the content failed.
Idle == [phase |-> "idle", request |-> Ask("GET", <<>>), name |-> <<>>, inode |-> 0,
         version |-> NoEntry.version, opened |-> 0, mod |-> NoDate, call |-> "none", tag |-> NoTag, status |-> 0,
         spans |-> <<>>, body |-> <<>>, content |-> 0, whole |-> FALSE, cut |-> FALSE]

StaticInit ==
    /\ clock = 0 /\ faults = 0 /\ requested = 0
    /\ link = CHOOSE f \in [FileNames -> 1..Cardinality(FileNames)] : IsInjective(f)
    /\ contents = Cardinality(FileNames)
    /\ inodes = [i \in 1..contents |-> [content |-> i, size |-> MaxSize, mtime |-> 0]]
    /\ entries = [n \in FileNames |-> NoEntry]
    /\ calls = {}
    /\ serving = [c \in Clients |-> Idle]
    /\ copy = [c \in Clients |-> NoCopy]

-----------------------------------------------------------------------------
(* The file system. *)

\* A client's request that holds a stat reads the clock soon.
Tick ==
    /\ clock < MaxClock
    /\ \A c \in Clients : serving[c].phase = "opened" => clock - serving[c].opened < MaxPause
    /\ clock' = clock + 1
    /\ UNCHANGED <<contents, inodes, link, faults, entries, calls, serving, requested, copy>>

\* A writer writes a content of its own: under the handles that are open, or in a new
\* file that it puts in the place of the old one.
Written(size) == [content |-> contents + 1, size |-> size, mtime |-> clock]

Rewrite(n, size) ==
    /\ contents < MaxContents
    /\ contents' = contents + 1
    /\ inodes' = [inodes EXCEPT ![link[n]] = Written(size)]
    /\ UNCHANGED <<clock, link, faults, entries, calls, serving, requested, copy>>

Replace(n, size) ==
    /\ contents < MaxContents
    /\ contents' = contents + 1
    /\ inodes' = Append(inodes, Written(size))
    /\ link' = [link EXCEPT ![n] = Len(inodes) + 1]
    /\ UNCHANGED <<clock, faults, entries, calls, serving, requested, copy>>

-----------------------------------------------------------------------------
(* The requests of a client: afresh, or about the copy it has. *)

Requests(c) ==
    LET k == copy[c]
        mine == <<Member(k.tag, FALSE)>>
        About == Ask("GET", k.target) IN
    {Ask("GET", t) : t \in Targets} \cup {Ask("HEAD", t) : t \in Probed} \cup {Ask("POST", t) : t \in Probed} \cup
        IF k.tag = NoTag THEN {}
        ELSE {[About EXCEPT !.ifNoneMatch = <<TagList(mine)>>], [About EXCEPT !.ifMatch = <<TagList(mine)>>]}
             \cup {[About EXCEPT !.ifRange = mine, !.range = <<set>>] : set \in RangeSets}

Answered(s, status) == [s EXCEPT !.phase = "done", !.status = status]

\* serve, up to the handle: what it answers when there is no regular file to open.
Refusal(r) ==
    LET t == Resolved[r.target] IN
    CASE r.method \notin {"GET", "HEAD"} -> 405
      [] r.method \in {"GET", "HEAD"} /\ Len(r.target) > MaxTargetLength -> 414
      [] OTHER -> IF t.ok /\ t.name \in Directories /\ ~t.slash THEN 301 ELSE 404

FileOf(r) ==
    LET t == Resolved[r.target] IN
    IF t.name \in Directories /\ t.slash THEN Append(t.name, "index.html") ELSE t.name

Serves(r) ==
    /\ r.method \in {"GET", "HEAD"} /\ Len(r.target) <= MaxTargetLength
    /\ Resolved[r.target].ok /\ FileOf(r) \in FileNames

Open(c, r) ==
    LET name == FileOf(r)
        file == inodes[link[name]] IN
    /\ serving[c].phase \in {"idle", "done"} /\ requested < MaxRequests
    /\ requested' = requested + 1
    /\ serving' = [serving EXCEPT ![c] =
            IF ~Serves(r) THEN Answered(Idle, Refusal(r))
            ELSE [Idle EXCEPT !.request = r, !.phase = "opened", !.name = name, !.inode = link[name],
                              !.version = versionOf(file), !.opened = clock, !.content = file.content]]
    /\ UNCHANGED <<clock, contents, inodes, link, faults, entries, calls, copy>>

-----------------------------------------------------------------------------
(* Preconditions and ranges: what serve decides once it has the tag, on its own. *)

\* The answer is complete. whole: nobody rewrote the file meanwhile.
Finish(s, status) ==
    [Answered(s, status) EXCEPT !.whole = inodes[s.inode].content = s.content, !.inode = 0, !.name = <<>>]

rangesOf(s) ==
    IF s.request.method = "GET" /\ s.version.size # 0 /\ Len(s.request.range) = 1
        /\ ~ifRangeIsFalse(s.request, s.tag)
    THEN rangeVerdict(s.request.range[1], s.version.size)
    ELSE [verdict |-> "ignore", spans |-> <<>>]

Judged(t, tag) ==
    LET s == [t EXCEPT !.tag = tag, !.call = "none"]
        verdict == evaluate(s.request, s.tag, s.mod)
        ranges == rangesOf(s)
        bodyless == s.request.method = "HEAD" \/ s.version.size = 0 IN
    CASE verdict = "notModified" -> Finish(s, 304)
      [] verdict = "failed" -> Finish(s, 412)
      [] verdict = "send" /\ ranges.verdict = "notSatisfiable" -> Finish(s, 416)
      [] verdict = "send" /\ ranges.verdict = "partial" ->
            [s EXCEPT !.phase = "sending", !.status = 206, !.spans = ranges.spans]
      [] OTHER -> IF bodyless THEN Finish(s, 200)
                  ELSE [s EXCEPT !.phase = "sending", !.status = 200,
                                 !.spans = <<[first |-> 0, last |-> s.version.size - 1]>>]

-----------------------------------------------------------------------------
(* Handler.etag and tagCache.get. *)

\* Mutant: a version is trusted as soon as it is seen.
M_settled(version, now) == TRUE

settled(version, now) == now - version.mtime >= Window

\* Mutant: a hash in progress is found by the name of its file.
M_keyOf(name, version) == [name |-> name, version |-> NoEntry.version]

keyOf(name, version) == [name |-> name, version |-> version]

\* The clock is read, and the tag is looked up or its making begun.
Look(c) ==
    LET s == [serving[c] EXCEPT !.opened = 0, !.mod = modTime(serving[c].version.mtime, clock)]
        key == keyOf(s.name, s.version)
        e == entries[s.name]
        leaders == {k \in calls : k.key = key} IN
    /\ s.phase = "opened"
    /\ UNCHANGED <<clock, contents, inodes, link, faults, entries, requested, copy>>
    /\ \/ /\ ~settled(s.version, clock)
          /\ serving' = [serving EXCEPT ![c] = [s EXCEPT !.phase = "hashing", !.tag = <<>>]]
          /\ UNCHANGED calls
       \/ /\ settled(s.version, clock) /\ e.tag # NoTag /\ e.version = s.version
          /\ serving' = [serving EXCEPT ![c] = Judged(s, e.tag)]
          /\ UNCHANGED calls
       \/ /\ settled(s.version, clock) /\ (e.tag = NoTag \/ e.version # s.version)
          /\ \E k \in leaders :
                serving' = [serving EXCEPT ![c] = [s EXCEPT !.phase = "waiting", !.call = k.by]]
          /\ UNCHANGED calls
       \/ /\ settled(s.version, clock) /\ (e.tag = NoTag \/ e.version # s.version)
          /\ leaders = {}
          /\ calls' = calls \cup {[key |-> key, by |-> c]}
          /\ serving' = [serving EXCEPT ![c] =
                [s EXCEPT !.phase = "hashing", !.call = c, !.tag = <<>>]]

\* hashContent reads one more octet of the first size ones, if the file still has it.
AtEnd(s) == Len(s.tag) >= s.version.size \/ Len(s.tag) >= inodes[s.inode].size

HashOctet(c) ==
    LET s == serving[c] IN
    /\ s.phase = "hashing" /\ ~AtEnd(s)
    /\ serving' = [serving EXCEPT ![c].tag = Append(@, <<inodes[s.inode].content, Len(@) + 1>>)]
    /\ UNCHANGED <<clock, contents, inodes, link, faults, entries, calls, requested, copy>>

\* What store leaves, whichever entry it evicts.
Stored(name, e) ==
    LET held == {n \in FileNames : entries[n].tag # NoTag} IN
    IF limit = 0 THEN {entries}
    ELSE IF name \in held \/ Cardinality(held) < limit THEN {[entries EXCEPT ![name] = e]}
    ELSE {[entries EXCEPT ![n] = NoEntry, ![name] = e] : n \in held}

\* The hash is over, with this tag or with none: every request that waits has it.
HashEnds(c, tag) ==
    LET s == serving[c] IN
    /\ calls' = {k \in calls : k.by # c}
    /\ IF s.call = c /\ tag # NoTag
       THEN entries' \in Stored(s.name, [version |-> s.version, tag |-> tag])
       ELSE UNCHANGED entries
    /\ serving' = [d \in Clients |->
            IF d = c \/ (serving[d].phase = "waiting" /\ serving[d].call = c)
            THEN Judged(serving[d], tag) ELSE serving[d]]
    /\ UNCHANGED <<clock, contents, inodes, link, requested, copy>>

HashDone(c) ==
    /\ serving[c].phase = "hashing" /\ AtEnd(serving[c])
    /\ HashEnds(c, serving[c].tag)
    /\ UNCHANGED faults

HashFails(c) ==
    /\ serving[c].phase = "hashing" /\ faults < MaxFaults
    /\ HashEnds(c, NoTag)
    /\ faults' = faults + 1

-----------------------------------------------------------------------------
(* The content. *)

\* One octet of the first span, and the span is over where the file or the span ends.
SendOctet(c) ==
    LET s == serving[c]
        span == s.spans[1]
        rest == IF span.first = span.last THEN Tail(s.spans)
                ELSE <<[span EXCEPT !.first = @ + 1]>> \o Tail(s.spans) IN
    /\ s.phase = "sending" /\ s.spans # <<>>
    /\ serving' = [serving EXCEPT ![c] =
            IF span.first >= inodes[s.inode].size THEN [s EXCEPT !.spans = Tail(@)]
            ELSE [s EXCEPT !.spans = rest,
                           !.body = Append(@, <<inodes[s.inode].content, span.first + 1>>)]]
    /\ UNCHANGED <<clock, contents, inodes, link, faults, entries, calls, requested, copy>>

\* Mutant: the octet that could not be read is skipped.
M_SendFails(c) ==
    LET s == serving[c]
        span == s.spans[1] IN
    /\ s.phase = "sending" /\ s.spans # <<>> /\ faults < MaxFaults
    /\ faults' = faults + 1
    /\ serving' = [serving EXCEPT ![c] =
            [s EXCEPT !.cut = TRUE,
                      !.spans = IF span.first = span.last THEN Tail(@)
                                ELSE <<[span EXCEPT !.first = @ + 1]>> \o Tail(@)]]
    /\ UNCHANGED <<clock, contents, inodes, link, entries, calls, requested, copy>>

\* A read of the content fails: nothing more of it is sent, and the request layer ends
\* the body where it stands.
SendFails(c) ==
    /\ serving[c].phase = "sending" /\ serving[c].spans # <<>> /\ faults < MaxFaults
    /\ faults' = faults + 1
    /\ serving' = [serving EXCEPT ![c].spans = <<>>, ![c].cut = TRUE]
    /\ UNCHANGED <<clock, contents, inodes, link, entries, calls, requested, copy>>

\* The body is closed, however short; the client keeps a 200 of the announced length
\* as its copy.
SendEnd(c) ==
    LET s == Finish(serving[c], serving[c].status) IN
    /\ serving[c].phase = "sending" /\ serving[c].spans = <<>>
    /\ serving' = [serving EXCEPT ![c] = s]
    /\ copy' = IF s.status = 200 /\ Len(s.body) = s.version.size
               THEN [copy EXCEPT ![c] = [target |-> s.request.target, tag |-> s.tag, body |-> s.body,
                                         whole |-> s.whole]]
               ELSE copy
    /\ UNCHANGED <<clock, contents, inodes, link, faults, entries, calls, requested>>

StaticNext ==
    \/ Tick
    \/ \E n \in FileNames, size \in Sizes : Rewrite(n, size) \/ Replace(n, size)
    \/ \E c \in Clients :
        \/ \E r \in Requests(c) : Open(c, r)
        \/ Look(c) \/ HashOctet(c) \/ HashDone(c) \/ HashFails(c)
        \/ SendOctet(c) \/ SendFails(c) \/ SendEnd(c)

StaticSpec == StaticInit /\ [][StaticNext]_staticVars

-----------------------------------------------------------------------------
\* An entry for the version a file has now is the tag of what the file holds now.
EntriesAreTrue ==
    \A n \in FileNames :
        LET f == inodes[link[n]] IN
        entries[n].tag # NoTag /\ entries[n].version = versionOf(f)
            => entries[n].tag = Octets(f.content, 0, f.size - 1)

CacheFits == Cardinality({n \in FileNames : entries[n].tag # NoTag}) <= limit

\* Each hash in progress has one request that runs it,
CallsAreLed ==
    \A k \in calls :
        /\ serving[k.by].phase = "hashing" /\ serving[k.by].call = k.by
        /\ k.key = keyOf(serving[k.by].name, serving[k.by].version)
        /\ \A l \in calls : k.key = l.key => k = l

\* and all that wait for it wait on that one.
WaitersHaveCalls ==
    \A c \in Clients : serving[c].phase = "waiting" =>
        \E k \in calls : k.by = serving[c].call /\ k.key = keyOf(serving[c].name, serving[c].version)

(***************************************************************************)
(* The cache is true: an entry for the version a file has now is the tag   *)
(* of what the file holds now, though writes may share a time stamp, hashes*)
(* may be torn and handles may outlive their names (etag.go, tagVersion    *)
(* and tagSettleWindow). The bound is kept, and each hash in progress has  *)
(* one request that runs it, on which all that wait for it wait.           *)
(* It takes MaxPause < Window: etag.go:51 says that the read "came after"  *)
(* the window, and the code has the stat of the handle before the clock.   *)
(***************************************************************************)
CacheIsTrue == EntriesAreTrue /\ CacheFits /\ CallsAreLed /\ WaitersHaveCalls

(***************************************************************************)
(* Clients are told the truth: of a file that nobody rewrote while it was  *)
(* served, the tag in an answer is that of its content, a 200 carries the  *)
(* whole of it, a 304 says that the client's copy is it, a 412 that it is  *)
(* not, and a 206 to a resumed download only adds octets of the same one   *)
(* (static.go, serve; etag.go, get). When a read of the content failed, a  *)
(* 200 and a 206 end early, on octets that are right as far as they go and *)
(* that are fewer than the content-length said, so that the client can tell*)
(* (static.go:447-452, ranges.go:721-725; exchange.go:444-447, "the peer   *)
(* sees content shorter than the declaration").                            *)
(***************************************************************************)
\* The whole answer, or what there was of it when a read failed.
Carries(s, answer) ==
    IF s.cut THEN \E n \in 0..Len(answer) - 1 : s.body = SubSeq(answer, 1, n)
    ELSE s.body = answer

ClientsKeepTheTruth ==
    \A c \in Clients :
        LET s == serving[c]
            r == s.request
            all == Octets(s.content, 0, s.version.size - 1)
            named == rangeVerdict(r.range[1], s.version.size).spans IN
        s.phase = "done" /\ s.whole =>
            /\ s.tag \in {NoTag, all} /\ (faults = 0 => s.tag = all)
            /\ s.status = 200 => Carries(s, IF r.method = "HEAD" THEN <<>> ELSE all)
            /\ s.status = 304 => copy[c].tag = all /\ (copy[c].whole => copy[c].body = all)
            /\ s.status = 412 => s.tag = NoTag \/ copy[c].tag # all
            /\ s.status = 206 =>
                /\ copy[c].tag = all
                /\ Carries(s, FlattenSeq([i \in DOMAIN named |->
                                            Octets(s.content, named[i].first, named[i].last)]))
=============================================================================
