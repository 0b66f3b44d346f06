---------------------------- MODULE DriverImages ----------------------------
(***************************************************************************)
(* What the INDI driver keeps of the device and publishes to its clients:  *)
(* IndiDevice::list (the vectors received, by uid), the images made of     *)
(* them, and the two tables that find an image by uid and by name          *)
(* (CustomIndiProtocol::propsByUid, propsByName).                          *)
(*                                                                         *)
(* An image owns the vector it was made from and deletes it when it is     *)
(* destroyed, but the list may hold that same vector or a newer one, so    *)
(* object identity matters: images have identifiers, and an entry of the   *)
(* list is either the vector of an image or one that only the list knows.  *)
(*                                                                         *)
(* The device announces its vectors in the order of their uids and updates *)
(* them (the order in which DirtyList serves them after a reset).  It may  *)
(* start again at any time, with another firmware: the code of             *)
(* CustomIndiProtocol::announced handles vectors that changed place.       *)
(*                                                                         *)
(* Not every update follows the announces.  The device answers a request   *)
(* with a pseudo BUSY, an update of its own that fillBuffer sends before   *)
(* the welcome and before any announce: one of a vector asked for through  *)
(* an old image may reach the driver at any moment.                        *)
(***************************************************************************)
EXTENDS Naturals, Sequences, FiniteSets, Functions

CONSTANTS Layouts,    \* firmwares: sequences of [name, kind], one per uid
          MaxValue    \* bound: values of a vector are 0 .. MaxValue

Defs   == UNION {Range(l) : l \in Layouts}
Uids   == UNION {0 .. Len(l) - 1 : l \in Layouts}
Names  == {d.name : d \in Defs}
Values == 0 .. MaxValue
Ids    == 0 .. Cardinality(Uids)

\* A firmware gives each of its vectors a name of its own.
ASSUME LayoutsAssumption ==
    /\ MaxValue \in Nat
    /\ IsFiniteSet(Layouts) /\ Layouts \subseteq Seq(Defs)
    /\ \A l \in Layouts : \A i, j \in 1 .. Len(l) : l[i].name = l[j].name => i = j

\* What an entry of the list or of images may hold.
Nil   == [is |-> "nil"]
Freed == [is |-> "freed"]
ImageVector(i) == [is |-> "image", id |-> i]
OnlyListed(x)  == [is |-> "listed", value |-> x]

VARIABLES
    fw,       \* the firmware the device runs
    told,     \* number of vectors announced since the device started
    value,    \* value[u]: what the device sends for uid u
    tables,   \* list[u]: IndiDevice::list; images[i]: IndiVectorImage and the
              \* vector it owns; byUid[u] and byName[n]: propsByUid and
              \* propsByName, empty or one image
    shown,    \* shown[n]: what the clients were last told of property n
    asked,    \* uids of the requests the device may still answer
    changed   \* another firmware started, and is not announced to the end

imageVars == <<fw, told, value, tables, shown, asked, changed>>

\* The definition of uid u in the firmware that runs.
Def(u) == fw[u + 1]

Image == [uid : Uids, def : Defs, value : Values]

Entry == {Nil, Freed} \cup {ImageVector(i) : i \in Ids} \cup {OnlyListed(x) : x \in Values}
Tables == [list : [Uids -> Entry], images : [Ids -> Image \cup {Nil}],
           byUid : [Uids -> SUBSET Ids], byName : [Names -> SUBSET Ids]]

\* At most one.
Single(S) == \A i, j \in S : i = j

ImagesTypeOK ==
    /\ fw \in Layouts /\ told \in 0 .. Len(fw)
    /\ value \in [Uids -> Values]
    /\ tables \in Tables
    /\ shown \in [Names -> SUBSET Values]
    /\ asked \subseteq Uids /\ changed \in BOOLEAN
    /\ \A u \in Uids : Single(tables.byUid[u])
    /\ \A n \in Names : Single(tables.byName[n]) /\ Single(shown[n])

\* No image and no table entry: a CustomIndiProtocol as Handshake makes it.
Empty == [list   |-> [u \in Uids |-> Nil],
          images |-> [i \in Ids |-> Nil],
          byUid  |-> [u \in Uids |-> {}],
          byName |-> [n \in Names |-> {}]]

ImagesInit ==
    /\ fw \in Layouts /\ told = 0
    /\ value = [u \in Uids |-> 0]
    /\ tables = Empty
    /\ shown = [n \in Names |-> {}]
    /\ asked = {} /\ changed = FALSE

-----------------------------------------------------------------------------
\* Variant: the entry by name is left when an image is destroyed.
Destroy_KeepName(t, S) ==
    LET dead == {i \in S : t.images[i] # Nil}
    IN  [list   |-> [u \in Uids |-> IF t.list[u] \in {ImageVector(i) : i \in dead}
                                    THEN Freed ELSE t.list[u]],
         images |-> [i \in Ids |-> IF i \in dead THEN Nil ELSE t.images[i]],
         byUid  |-> [u \in Uids |-> IF \E i \in dead : t.images[i].uid = u
                                    THEN {} ELSE t.byUid[u]],
         byName |-> t.byName]

\* destroy(image), for the images of S (none or one): both table entries
\* go, and the vector is deleted, even if the list still points to it.
Destroy(t, S) ==
    LET dead == {i \in S : t.images[i] # Nil}
    IN  [list   |-> [u \in Uids |-> IF t.list[u] \in {ImageVector(i) : i \in dead}
                                    THEN Freed ELSE t.list[u]],
         images |-> [i \in Ids |-> IF i \in dead THEN Nil ELSE t.images[i]],
         byUid  |-> [u \in Uids |-> IF \E i \in dead : t.images[i].uid = u
                                    THEN {} ELSE t.byUid[u]],
         byName |-> [n \in Names |-> IF \E i \in dead : t.images[i].def.name = n
                                     THEN {} ELSE t.byName[n]]]

\* Variant: the vector that is kept stays in the list too.
Announced_KeepListed(t, u, d, x) ==
    LET cleared == Destroy(Destroy(t, t.byUid[u]), Destroy(t, t.byUid[u]).byName[d.name])
        new == CHOOSE i \in Ids : cleared.images[i] = Nil
    IN  IF \E i \in t.byUid[u] : t.images[i].def = d THEN t
        ELSE [cleared EXCEPT !.images[new] = [uid |-> u, def |-> d, value |-> x],
                             !.list[u] = ImageVector(new),
                             !.byUid[u] = {new}, !.byName[d.name] = {new}]

\* Variant: any image with the same uid is taken for the same vector.
Announced_SameUid(t, u, d, x) ==
    LET listed == [t EXCEPT !.list[u] = OnlyListed(x)]
        cleared == Destroy(listed, listed.byName[d.name])
        new == CHOOSE i \in Ids : cleared.images[i] = Nil
    IN  IF t.byUid[u] # {} THEN listed
        ELSE [cleared EXCEPT !.images[new] = [uid |-> u, def |-> d, value |-> x],
                             !.list[u] = ImageVector(new),
                             !.byUid[u] = {new}, !.byName[d.name] = {new}]

\* The announce of uid u with definition d and value x: the list takes the
\* new vector; an image with the same uid, name and kind is kept as it is,
\* any other with this uid or this name is dropped and a new one is made.
Announced(t, u, d, x) ==
    LET listed == [t EXCEPT !.list[u] = OnlyListed(x)]
        same == \E i \in t.byUid[u] : t.images[i].def = d
        cleared == Destroy(Destroy(listed, t.byUid[u]),
                           Destroy(listed, t.byUid[u]).byName[d.name])
        new == CHOOSE i \in Ids : cleared.images[i] = Nil
    IN  IF same THEN listed
        ELSE [cleared EXCEPT !.images[new] = [uid |-> u, def |-> d, value |-> x],
                             !.list[u] = ImageVector(new),
                             !.byUid[u] = {new}, !.byName[d.name] = {new}]

Announce ==
    /\ told < Len(fw)
    /\ told' = told + 1
    /\ tables' = Announced(tables, told, Def(told), value[told])
    /\ shown' = [shown EXCEPT ![Def(told).name] = {value[told]}]
    /\ changed' = (changed /\ told' < Len(fw))
    /\ UNCHANGED <<fw, value, asked>>

\* The update of uid u: the vector of the list is written, then published
\* through the image that propsByUid gives.  UpdatesLand says that both are
\* there.
Updated(t, u, x) ==
    IF t.list[u].is = "image" THEN [t EXCEPT !.images[t.list[u].id].value = x]
    ELSE IF t.list[u].is = "listed" THEN [t EXCEPT !.list[u] = OnlyListed(x)]
    ELSE t

Published(u, x) ==
    [n \in Names |-> IF \E i \in tables.byUid[u] : tables.images[i].def.name = n
                     THEN {x} ELSE shown[n]]

\* A new value of a vector that is announced.
Update(u) ==
    /\ u < told
    /\ \E x \in Values :
          /\ value' = [value EXCEPT ![u] = x]
          /\ tables' = Updated(tables, u, x)
          /\ shown' = Published(u, x)
    /\ UNCHANGED <<fw, told, asked, changed>>

\* reqNewSomething: a client's request, for the uid of the image by name.
Request(n) ==
    /\ tables.byName[n] # {}
    /\ asked' = asked \cup {tables.images[i].uid : i \in tables.byName[n]}
    /\ UNCHANGED <<fw, told, value, tables, shown, changed>>

\* The value of the vector of the list.
Listed(u) == IF tables.list[u].is = "image" THEN tables.images[tables.list[u].id].value
             ELSE tables.list[u].value

\* The driver dies; it is started and connected anew.
Dies == /\ tables' = Empty
        /\ shown' = [n \in Names |-> {}]
        /\ told' = 0 /\ changed' = FALSE

\* The pseudo BUSY, which the device sends for a uid of its own firmware:
\* with no vector in the list it is refused; the values it does not carry
\* are published again.  Through no image (a null pointer) the driver dies;
\* what it makes of a vector that was deleted is up to the heap.
Busy(u) ==
    /\ u \in asked /\ u < Len(fw)
    /\ asked' \in {asked, asked \ {u}}   \* the same may be asked for twice
    /\ \/ /\ tables.list[u].is = "nil"
          /\ UNCHANGED <<told, tables, shown, changed>>
       \/ /\ tables.list[u].is \in {"image", "listed"} /\ tables.byUid[u] # {}
          /\ shown' = Published(u, Listed(u))
          /\ UNCHANGED <<told, tables, changed>>
       \/ /\ tables.list[u].is = "listed" /\ tables.byUid[u] = {}
          /\ Dies
       \/ /\ tables.list[u].is = "freed"
          /\ Dies \/ UNCHANGED <<told, tables, shown, changed>>
    /\ UNCHANGED <<fw, value>>

\* ISGetProperties: every image of propsByName is published again, from the
\* vector it owns.
AnnounceAll ==
    /\ shown' = [n \in Names |->
          IF tables.byName[n] = {} THEN shown[n]
          ELSE {tables.images[i].value : i \in tables.byName[n]}]
    /\ UNCHANGED <<fw, told, value, tables, asked, changed>>

\* The device starts again on an open line: a reset of its protocol (same
\* firmware, same values), a power cycle, or another firmware.
Restart ==
    /\ told' = 0
    /\ fw' \in Layouts
    /\ value' \in [Uids -> Values]
    /\ changed' = (changed \/ fw' # fw)
    /\ UNCHANGED <<tables, shown, asked>>

\* killBackgroundProcessor: every image of propsByUid is deleted, on the
\* clients' side too; the next Handshake makes a new protocol and device,
\* and its welcome makes the device announce everything.
Reconnect ==
    LET kept == UNION Range(tables.byUid)
    IN  /\ shown' = [n \in Names |->
              IF \E i \in kept : tables.images[i].def.name = n THEN {}
              ELSE shown[n]]
        /\ tables' = Empty
        /\ told' = 0 /\ changed' = FALSE
        /\ UNCHANGED <<fw, value, asked>>

ImagesNext ==
    \/ Announce \/ AnnounceAll \/ Restart \/ Reconnect
    \/ \E u \in Uids : Update(u) \/ Busy(u)
    \/ \E n \in Names : Request(n)

ImagesSpec == ImagesInit /\ [][ImagesNext]_imageVars

-----------------------------------------------------------------------------
(* The two tables hold the same images, each under its own uid and name,   *)
(* and no image is lost (an image neither table knows is never deleted).   *)
TablesAgree ==
    \A i \in Ids :
        IF tables.images[i] = Nil
        THEN \A S \in Range(tables.byUid) \cup Range(tables.byName) : i \notin S
        ELSE /\ {u \in Uids : i \in tables.byUid[u]} = {tables.images[i].uid}
             /\ {n \in Names : i \in tables.byName[n]} = {tables.images[i].def.name}

(* An update of a vector announced since the device started finds a live   *)
(* vector in the list and an image of the same name and kind to publish it *)
(* with, whatever firmwares ran before.  So does the pseudo BUSY that      *)
(* comes before the announce of its vector, unless the list is empty there *)
(* (it is refused) or the device has just changed its firmware: until the  *)
(* announces of the new one are over, nothing in the code keeps it from a  *)
(* vector that destroy has deleted, or from one without an image.          *)
UpdatesLand ==
    \A u \in 0 .. Len(fw) - 1 :
        (u < told \/ (~changed /\ tables.list[u] # Nil)) =>
            /\ tables.list[u].is \in {"image", "listed"}
            /\ tables.list[u].is = "image" => tables.list[u].id \in tables.byUid[u]
            /\ \E i \in tables.byUid[u] : tables.images[i].def = Def(u)

(* As long as the image still owns the vector of the list, the clients see *)
(* what the device sent last, republished or not.                          *)
SharedIsLatest ==
    \A u \in Uids :
        (u < told /\ tables.list[u].is = "image")
            => shown[Def(u).name] = {value[u]}

(* What the clients see of a vector is the last thing the device sent, a   *)
(* new announce having replaced the vector.                                *)
PublishedIsLatest ==
    \A u \in Uids : u < told => shown[Def(u).name] = {value[u]}
=============================================================================
