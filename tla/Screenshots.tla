----------------------------- MODULE Screenshots -----------------------------
(***************************************************************************)
(* Payment screenshots: the file in a storage root and the order row that  *)
(* names it.  Customers upload at checkout and again from the order page   *)
(* (storefront.views.checkout, order_success); the file is stored in the   *)
(* private root (config.storage) and the row written afterwards.  Files    *)
(* from before the private root existed lie in the public media tree until *)
(* relocate_payment_screenshots moves them, on a running site.             *)
(***************************************************************************)
EXTENDS Naturals, FiniteSets

CONSTANTS Orders,      \* orders of any age
          Legacy,      \* orders whose screenshot is in the public tree
          Requested,   \* names customers' files come with
          Suffixed,    \* names the storage makes up when one is taken
          LegacyName,  \* the file name of each legacy order
          Workers,     \* concurrent uploads
          NoOrder, NoName, NoFile,
          MaxUploads   \* bound: uploads in a behaviour

Names == Requested \cup Suffixed
LegacyNames == {LegacyName[o] : o \in Legacy}
Picture(o, whole) == [order |-> o, whole |-> whole]
Files == [order : Orders, whole : BOOLEAN] \cup {NoFile}

ASSUME ScreenshotsAssumption ==
  /\ Legacy \subseteq Orders
  /\ LegacyName \in [Legacy -> Requested]
  /\ \A o, p \in Legacy : LegacyName[o] = LegacyName[p] => o = p
  /\ Requested \cap Suffixed = {}
  /\ NoOrder \notin Orders /\ NoName \notin Names
  /\ NoFile \notin [order : Orders, whole : BOOLEAN]
  /\ MaxUploads \in Nat

VARIABLES
  row,       \* payment_screenshot of each order: a name, relative to a root
  private,   \* files under PRIVATE_MEDIA_ROOT
  public,    \* files under MEDIA_ROOT
  upload,    \* each worker's upload
  move,      \* the relocation: what it has still to visit, and its step
  sameDisk,  \* both roots are on one file system
  uploads,   \* uploads so far
  contested  \* history: names given to an upload while the relocation, having
             \* found them free, was about to move a file there

fileVars == <<row, private, public, upload, move, sameDisk, uploads, contested>>

NoUpload == [order |-> NoOrder, name |-> NoName, written |-> FALSE]
NotMoving == [names |-> [o \in Orders |-> NoName], at |-> NoOrder, step |-> "off"]

FilesInit ==
  /\ row = [o \in Orders |-> IF o \in Legacy THEN LegacyName[o] ELSE NoName]
  /\ private = [n \in Names |-> NoFile]
  /\ public = [n \in Names |-> IF n \in LegacyNames
                               THEN Picture(CHOOSE o \in Legacy : LegacyName[o] = n, TRUE)
                               ELSE NoFile]
  /\ upload = [w \in Workers |-> NoUpload]
  /\ move = NotMoving
  /\ sameDisk \in BOOLEAN
  /\ uploads = 0
  /\ contested = {}

-----------------------------------------------------------------------------
\* Mutant: the storage writes over a file of the same name.
AnyName(n) == {n}

\* get_available_name, and an exclusive create: the asked name if it is free in
\* the private root, else one with a random suffix.
Available(n) == IF private[n] = NoFile THEN {n} ELSE {m \in Suffixed : private[m] = NoFile}

\* The validated file is created under its final name; the handler holds the
\* order, whose row does not name the file yet.
StoreFile(w, o, n) ==
  /\ upload[w] = NoUpload
  /\ uploads < MaxUploads
  /\ uploads' = uploads + 1
  /\ \E m \in Available(n) :
       /\ upload' = [upload EXCEPT ![w] = [order |-> o, name |-> m, written |-> FALSE]]
       /\ private' = [private EXCEPT ![m] = Picture(o, FALSE)]
       /\ contested' = IF move.step = "move" /\ move.names[move.at] = m
                       THEN contested \cup {m} ELSE contested
  /\ UNCHANGED <<row, public, move, sameDisk>>

\* The bytes are written, through a handle that another file may have replaced
\* or another writer share if the name is contested.
FinishFile(w) ==
  LET n == upload[w].name
  IN /\ upload[w] # NoUpload /\ ~upload[w].written
     /\ \/ n \in contested /\ UNCHANGED private
        \/ \E whole \in BOOLEAN : /\ n \notin contested => whole
                                  /\ private' = [private EXCEPT ![n].whole = whole]
     /\ upload' = [upload EXCEPT ![w].written = TRUE]
     /\ UNCHANGED <<row, public, move, sameDisk, uploads, contested>>

\* order.save(update_fields=["payment_screenshot", ...]): of two uploads for
\* one order the later one stays, and the other's file has no row.
Record(w) ==
  /\ upload[w] # NoUpload
  /\ upload[w].written
  /\ row' = [row EXCEPT ![upload[w].order] = upload[w].name]
  /\ upload' = [upload EXCEPT ![w] = NoUpload]
  /\ UNCHANGED <<private, public, move, sameDisk, uploads, contested>>

\* The request dies: the file stays, whole or not, and no row names it.
LoseUpload(w) ==
  /\ upload[w] # NoUpload
  /\ upload' = [upload EXCEPT ![w] = NoUpload]
  /\ UNCHANGED <<row, private, public, move, sameDisk, uploads, contested>>

-----------------------------------------------------------------------------
(* relocate_payment_screenshots.                                           *)

\* The query's rows, as they are when it starts.
StartRelocation ==
  /\ move.step = "off"
  /\ move' = [NotMoving EXCEPT !.names = row, !.step = "look"]
  /\ UNCHANGED <<row, private, public, upload, sameDisk, uploads, contested>>

Visited(o) == [move EXCEPT !.names[o] = NoName, !.at = NoOrder, !.step = "look"]

TargetExists(n) == private[n] # NoFile

Looking(o) == move.step = "look" /\ move.names[o] # NoName

\* "already private": the file is not looked into.
Skip(o) ==
  /\ Looking(o)
  /\ TargetExists(move.names[o])
  /\ move' = Visited(o)
  /\ UNCHANGED <<row, private, public, upload, sameDisk, uploads, contested>>

Missing(o) ==
  /\ Looking(o)
  /\ ~TargetExists(move.names[o]) /\ public[move.names[o]] = NoFile
  /\ move' = Visited(o)
  /\ UNCHANGED <<row, private, public, upload, sameDisk, uploads, contested>>

Found(o) ==
  /\ Looking(o)
  /\ ~TargetExists(move.names[o]) /\ public[move.names[o]] # NoFile
  /\ move' = [move EXCEPT !.at = o, !.step = "move"]
  /\ UNCHANGED <<row, private, public, upload, sameDisk, uploads, contested>>

\* shutil.move on one file system: os.rename, over whatever has been created
\* at the target since the check.
Rename(o) ==
  /\ move.step = "move" /\ move.at = o /\ sameDisk
  /\ private' = [private EXCEPT ![move.names[o]] = public[move.names[o]]]
  /\ public' = [public EXCEPT ![move.names[o]] = NoFile]
  /\ move' = Visited(o)
  /\ UNCHANGED <<row, upload, sameDisk, uploads, contested>>

\* Mutant: the source is removed before the copy is complete.
StartCopyUnlinks(o) ==
  /\ move.step = "move" /\ move.at = o /\ ~sameDisk
  /\ private' = [private EXCEPT ![move.names[o]] = [public[move.names[o]] EXCEPT !.whole = FALSE]]
  /\ public' = [public EXCEPT ![move.names[o]] = NoFile]
  /\ move' = [move EXCEPT !.step = "copy"]
  /\ UNCHANGED <<row, upload, sameDisk, uploads, contested>>

\* Across file systems it copies the file and then removes the source.
StartCopy(o) ==
  /\ move.step = "move" /\ move.at = o /\ ~sameDisk
  /\ private' = [private EXCEPT ![move.names[o]] = [public[move.names[o]] EXCEPT !.whole = FALSE]]
  /\ move' = [move EXCEPT !.step = "copy"]
  /\ UNCHANGED <<row, public, upload, sameDisk, uploads, contested>>

FinishCopy(o) ==
  /\ move.step = "copy" /\ move.at = o
  /\ \E whole \in BOOLEAN : /\ move.names[o] \notin contested => whole
                            /\ private' = [private EXCEPT ![move.names[o]].whole = whole]
  /\ move' = [move EXCEPT !.step = "unlink"]
  /\ UNCHANGED <<row, public, upload, sameDisk, uploads, contested>>

Unlink(o) ==
  /\ move.step = "unlink" /\ move.at = o
  /\ public' = [public EXCEPT ![move.names[o]] = NoFile]
  /\ move' = Visited(o)
  /\ UNCHANGED <<row, private, upload, sameDisk, uploads, contested>>

EndRelocation ==
  /\ move.step = "look" /\ \A o \in Orders : move.names[o] = NoName
  /\ move' = NotMoving
  /\ UNCHANGED <<row, private, public, upload, sameDisk, uploads, contested>>

\* The command is interrupted; it can be run again.
Interrupt ==
  /\ move.step # "off"
  /\ move' = NotMoving
  /\ UNCHANGED <<row, private, public, upload, sameDisk, uploads, contested>>

FilesNext ==
  \/ \E w \in Workers : \/ \E o \in Orders, n \in Requested : StoreFile(w, o, n)
                        \/ FinishFile(w) \/ Record(w) \/ LoseUpload(w)
  \/ \E o \in Orders : \/ Skip(o) \/ Missing(o) \/ Found(o)
                       \/ Rename(o) \/ StartCopy(o) \/ FinishCopy(o) \/ Unlink(o)
  \/ StartRelocation \/ EndRelocation \/ Interrupt

FilesSpec == FilesInit /\ [][FilesNext]_fileVars

-----------------------------------------------------------------------------
FilesTypeOK ==
  /\ row \in [Orders -> Names \cup {NoName}]
  /\ private \in [Names -> Files]
  /\ public \in [Names -> Files]
  /\ upload \in [Workers -> [order : Orders, name : Names, written : BOOLEAN] \cup {NoUpload}]
  /\ move \in [names : [Orders -> Names \cup {NoName}], at : Orders \cup {NoOrder},
               step : {"off", "look", "move", "copy", "unlink"}]
  /\ move.step \in {"move", "copy", "unlink"} =>
        move.at \in Orders /\ move.names[move.at] \in Names
  /\ sameDisk \in BOOLEAN
  /\ uploads \in Nat
  /\ contested \subseteq Names

\* What the owner and staff are shown: payment_screenshot and
\* dashboard_payment_screenshot open the row's name in the private root.
Served(o) == IF row[o] = NoName THEN NoFile ELSE private[row[o]]

\* Whatever uploads, deaths and relocations overlap, the page of an order shows
\* that order's own picture, complete (views.py:789, :837) - unless its file
\* has the name of a legacy one.
ServedIsOwn ==
  \A o \in Orders : row[o] \notin LegacyNames \cup {NoName} => Served(o) = Picture(o, TRUE)

\* A legacy picture is not lost: at every moment, interrupted runs included, one
\* of the two roots has it complete, unless an upload took the target's name
\* between the check and the move (relocate_payment_screenshots.py:47, :55).
LegacyKept ==
  \A o \in Legacy : LegacyName[o] \in contested
                      \/ Picture(o, TRUE) \in {private[LegacyName[o]], public[LegacyName[o]]}

\* "Safe to re-run: files that are already in the private root are skipped, and
\* the database never has to change" (relocate_payment_screenshots.py:12): a
\* file that is skipped is the picture of the order that names it.
SkippedIsOwn == [][\A o \in Orders : Skip(o) => private[move.names[o]].order = o]_fileVars
=============================================================================
