----------------------------- MODULE FeedCache -----------------------------
(***************************************************************************)
(* download (url_curl.cpp): the files of the feed cache, and the processes *)
(* that share the directory they are in.                                   *)
(*                                                                         *)
(* A file is looked for, opened, written to piece by piece, and removed    *)
(* again when the transfer fails, under its final name all the time.  So   *)
(* the directory maps names to inodes here: a process goes on writing to   *)
(* an inode that another one has truncated or whose name is gone.          *)
(***************************************************************************)
EXTENDS Integers, Sequences, FiniteSets, FiniteSetsExt

CONSTANTS
    Procs,       \* processes
    Urls,        \* urls of feeds
    FileName,    \* url_to_filename, as a function
    Pieces,      \* Pieces[e]: the number of pieces in which edition e of a feed is sent
    MaxFaults    \* bound on broken transfers, error pages, full disks, killed processes

ASSUME CacheAssumption ==
    /\ IsFiniteSet(Procs) /\ IsFiniteSet(Urls)
    /\ DOMAIN FileName = Urls
    /\ Pieces \in Seq(Nat \ {0}) /\ Pieces # << >>
    /\ MaxFaults \in Nat

VARIABLES
    edition,   \* the edition of every feed the servers have
    dir,       \* the inode of every name in the cache, 0 if there is no such file
    disk,      \* the inodes
    load,      \* the call of download every process is in
    faults     \* how many of the bounded faults happened

cacheVars == <<edition, dir, disk, load, faults>>

Names == {FileName[u] : u \in Urls}
Inodes == 1 .. Cardinality(Names) + Cardinality(Procs)

Piece(url, e, n) == [url |-> url, edition |-> e, n |-> n]
Hole == Piece("", 0, 0)
\* What a server sends: an edition of the feed, or in one piece the page of an error.
Body(url, e) == IF e = 0 THEN << Piece(url, 0, 1) >>
                ELSE [n \in 1 .. Pieces[e] |-> Piece(url, e, n)]

\* abandoned: a process was killed while it had this file to write or to remove.
\* contended: a process opened it while another one was writing to it.
\* cropped: the disk was full while it was written.
EmptyFile == [pieces |-> << >>, abandoned |-> FALSE, contended |-> FALSE, cropped |-> FALSE]

\* at: "idle", "open", "transfer", "remove", "have" or "failed".  inode, body, sent: the
\* file written, what is sent, and how much of it was.
NoLoad == [at |-> "idle", url |-> "", inode |-> 0, body |-> << >>, sent |-> 0]

CacheInit ==
    /\ edition = [u \in Urls |-> 1]
    /\ dir = [n \in Names |-> 0]
    /\ disk = [i \in Inodes |-> EmptyFile]
    /\ load = [p \in Procs |-> NoLoad]
    /\ faults = 0

File(p) == FileName[load[p].url]
Writers(i) == {p \in Procs : load[p].at = "transfer" /\ load[p].inode = i}
Free(i) == i \notin {dir[n] : n \in Names} /\ \A p \in Procs : load[p].inode # i

(***************************************************************************)
(* The servers.                                                            *)
(***************************************************************************)
Publish(url) ==
    /\ edition[url] < Len(Pieces)
    /\ edition' = [edition EXCEPT ![url] = @ + 1]
    /\ UNCHANGED <<dir, disk, load, faults>>

(***************************************************************************)
(* One call.                                                               *)
(***************************************************************************)
\* The file is trusted if it is there, unless it is to be loaded by force.
Request(p, url, force) ==
    /\ load[p].at = "idle"
    /\ load' = [load EXCEPT ![p] =
           [NoLoad EXCEPT !.url = url,
                          !.at = IF force \/ dir[FileName[url]] = 0 THEN "open" ELSE "have"]]
    /\ UNCHANGED <<edition, dir, disk, faults>>

\* What is left in a file that is opened for writing.
Kept(pieces) == pieces   \* mutant of Truncated: opened without truncation
Truncated(pieces) == << >>

\* The stream truncates a file that exists, or creates one.
Open(p) ==
    /\ load[p].at = "open"
    /\ \E page \in BOOLEAN :
          LET i == IF dir[File(p)] # 0 THEN dir[File(p)] ELSE Min({k \in Inodes : Free(k)})
              sends == Body(load[p].url, IF page THEN 0 ELSE edition[load[p].url])
          IN /\ page => faults < MaxFaults
             /\ faults' = IF page THEN faults + 1 ELSE faults
             /\ dir' = [dir EXCEPT ![File(p)] = i]
             /\ disk' = [disk EXCEPT ![i] =
                    [pieces |-> IF dir[File(p)] # 0 THEN Truncated(@.pieces) ELSE << >>,
                     abandoned |-> FALSE, contended |-> Writers(i) # {}, cropped |-> FALSE]]
             /\ load' = [load EXCEPT ![p] = [@ EXCEPT !.at = "transfer", !.inode = i, !.body = sends]]
    /\ UNCHANGED edition

\* write_fun: a write goes to the position the stream of this process has reached.
Written(pieces, n, piece) ==
    [k \in 1 .. Max({Len(pieces), n}) |->
        IF k = n THEN piece ELSE IF k <= Len(pieces) THEN pieces[k] ELSE Hole]

Receive(p) ==
    /\ load[p].at = "transfer"
    /\ load[p].sent < Len(load[p].body)
    /\ LET n == load[p].sent + 1 IN
          /\ disk' = [disk EXCEPT ![load[p].inode].pieces = Written(@, n, load[p].body[n])]
          /\ load' = [load EXCEPT ![p].sent = n]
    /\ UNCHANGED <<edition, dir, faults>>

\* write_fun says that it has written everything, also when the disk is full: from then
\* on the stream drops what it is given.
DiskFull(p) ==
    /\ load[p].at = "transfer"
    /\ load[p].sent < Len(load[p].body)
    /\ faults < MaxFaults
    /\ faults' = faults + 1
    /\ load' = [load EXCEPT ![p].sent = Len(load[p].body)]
    /\ disk' = [disk EXCEPT ![load[p].inode].cropped = TRUE]
    /\ UNCHANGED <<edition, dir>>

\* Closed is the file either way, before it is removed or read.
Complete(p) ==
    /\ load[p].at = "transfer"
    /\ load[p].sent = Len(load[p].body)
    /\ load' = [load EXCEPT ![p] = [NoLoad EXCEPT !.at = "have", !.url = load[p].url]]
    /\ UNCHANGED <<edition, dir, disk, faults>>

Break(p) ==
    /\ load[p].at = "transfer"
    /\ faults < MaxFaults
    /\ faults' = faults + 1
    /\ load' = [load EXCEPT ![p] = [@ EXCEPT !.at = "remove", !.body = << >>, !.sent = 0]]
    /\ UNCHANGED <<edition, dir, disk>>

\* By its name, whatever file that is now.
Unlink(p) ==
    /\ load[p].at = "remove"
    /\ dir' = [dir EXCEPT ![File(p)] = 0]
    /\ load' = [load EXCEPT ![p] = [@ EXCEPT !.at = "failed", !.inode = 0]]
    /\ UNCHANGED <<edition, disk, faults>>

\* download has returned or thrown.
Return(p) ==
    /\ load[p].at \in {"have", "failed"}
    /\ load' = [load EXCEPT ![p] = NoLoad]
    /\ UNCHANGED <<edition, dir, disk, faults>>

Kill(p) ==
    /\ faults < MaxFaults
    /\ faults' = faults + 1
    /\ load' = [load EXCEPT ![p] = NoLoad]
    /\ disk' = [i \in Inodes |->
          [disk[i] EXCEPT !.abandoned = @ \/ (load[p].at \in {"transfer", "remove"} /\ load[p].inode = i)]]
    /\ UNCHANGED <<edition, dir>>

Loading(p) == Open(p) \/ Receive(p) \/ DiskFull(p) \/ Complete(p) \/ Break(p) \/ Unlink(p)

(***************************************************************************)
(* Properties.                                                             *)
(***************************************************************************)
AtWork(i) == {p \in Procs : load[p].at \in {"transfer", "remove"} /\ load[p].inode = i}
Whole(pieces, n) ==
    \E u \in Urls : FileName[u] = n /\ \E e \in DOMAIN Pieces : pieces = Body(u, e)
HasPage(pieces) == \E k \in DOMAIN pieces : pieces[k].edition = 0 /\ pieces[k].n > 0

\* The feed has changed on the server, or there are two feeds that share the file.
Unsettled(n) ==
    \E u, v \in Urls : FileName[u] = n /\ FileName[v] = n /\ (u # v \/ edition[u] > 1)

\* A file of the cache that nobody is writing or about to remove is one edition of its
\* feed from end to end.  The exceptions are the pages of errors, which are files like
\* others as CURLOPT_FAILONERROR is not set; what a killed process left behind; what a
\* full disk has cut short; and a file two processes wrote at a time while the feed
\* changed on the server, or for two urls that share it.  None of these outlives the next
\* load of the file that runs by itself (url_curl.cpp:22-28, 60-79; url.cpp:28).
SettledFilesWhole ==
    \A n \in Names :
        LET file == disk[dir[n]] IN
        (dir[n] # 0 /\ AtWork(dir[n]) = {}) =>
            \/ Whole(file.pieces, n)
            \/ HasPage(file.pieces)
            \/ file.abandoned \/ file.cropped
            \/ file.contended /\ Unsettled(n)
=============================================================================
