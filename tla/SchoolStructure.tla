-------------------------- MODULE SchoolStructure --------------------------
(***************************************************************************)
(* The schools, their locations and classes, the teachers and their access *)
(* to locations: SchoolController, TeacherController and ClassController   *)
(* of src/src/api/v1/controllers with the repositories they call.          *)
(*                                                                         *)
(* Every method of a repository holds dbMutex() and is one step; a handler *)
(* calls several, and other handlers run between them.  The database is    *)
(* SQLite with foreign keys on: a statement that would break a key or a    *)
(* UNIQUE column fails, a removal is carried on along ON DELETE.  A row is *)
(* fetched again for the answer of a creation or an update, which changes  *)
(* nothing.  Names, addresses and roles, and the updates that only replace *)
(* them, are left out; who may call is AuthTokens' subject.  No caller     *)
(* gives a computer a location.                                            *)
(***************************************************************************)
EXTENDS Naturals

CONSTANTS Schools, Locations, ClassIds, TeacherIds, \* ids, each given out once
          TeacherNames, Handlers

\* Ids are fresh UUIDs, whatever the table.
ASSUME StructureAssumption == Locations \cap ClassIds = {}

VARIABLES
    ids,            \* given out so far
    schools,        \* rows of schools
    schoolOf,       \* locations.school_id and classes.school_id, by row
    teacherOf,      \* classes.teacher_id, by row
    usernameOf,     \* teachers.username, by row
    teacher_locations,
    handler         \* what each handler is doing

structureRows == <<schools, schoolOf, teacherOf, usernameOf, teacher_locations>>
structureVars == <<ids, structureRows, handler>>

Null == "null"
AtRest == [op |-> "none", row |-> Null, ref |-> Null]

StructureInit ==
    /\ ids = {}
    /\ schools = {}
    /\ schoolOf   = [r \in {} |-> Null]
    /\ teacherOf  = [c \in {} |-> Null]
    /\ usernameOf = [t \in {} |-> Null]
    /\ teacher_locations = {}
    /\ handler = [h \in Handlers |-> AtRest]

----------------------------------------------------------------------------

With(f, x, v)  == [y \in DOMAIN f \cup {x} |-> IF y = x THEN v ELSE f[y]]
Without(f, S)  == [y \in DOMAIN f \ S |-> f[y]]
Goes(h, op, row, ref) ==
    handler' = [handler EXCEPT ![h] = [op |-> op, row |-> row, ref |-> ref]]
Ends(h) == handler' = [handler EXCEPT ![h] = AtRest]

----------------------------------------------------------------------------
(* Wrong versions, one slip each. *)

\* The row is inserted without a look at what it refers to.
AssignUnchecked(h) ==
    /\ handler[h].op = "assign"
    /\ teacher_locations' =
          teacher_locations \cup {<<handler[h].row, handler[h].ref>>}
    /\ Ends(h)
    /\ UNCHANGED <<ids, schools, schoolOf, teacherOf, usernameOf>>

----------------------------------------------------------------------------
(* Schools and locations *)

HandleCreateSchool(s) ==
    /\ s \notin ids
    /\ ids' = ids \cup {s}
    /\ schools' = schools \cup {s}
    /\ UNCHANGED <<schoolOf, teacherOf, usernameOf, teacher_locations, handler>>

\* 500 when there is no such school.
HandleCreateLocation(l, s) ==
    /\ l \notin ids /\ s \in schools
    /\ ids' = ids \cup {l}
    /\ schoolOf' = With(schoolOf, l, s)
    /\ UNCHANGED <<schools, teacherOf, usernameOf, teacher_locations, handler>>

\* Locations and classes of the school go with it, and the access to them.
HandleDeleteSchool(s) ==
    LET gone == {r \in DOMAIN schoolOf : schoolOf[r] = s}
    IN  /\ s \in schools
        /\ schools'   = schools \ {s}
        /\ schoolOf'  = Without(schoolOf, gone)
        /\ teacherOf' = Without(teacherOf, gone)
        /\ teacher_locations' = {p \in teacher_locations : p[2] \notin gone}
        /\ UNCHANGED <<ids, usernameOf, handler>>

HandleDeleteLocation(l) ==
    /\ l \in DOMAIN schoolOf
    /\ schoolOf' = Without(schoolOf, {l})
    /\ teacher_locations' = {p \in teacher_locations : p[2] # l}
    /\ UNCHANGED <<ids, schools, teacherOf, usernameOf, handler>>

----------------------------------------------------------------------------
(* ClassIds *)

IsTeacherOrNull(t) == t = Null \/ t \in DOMAIN usernameOf

\* 500 when the school or the teacher is not there.
HandleCreateClass(c, s, t) ==
    /\ c \notin ids /\ s \in schools /\ IsTeacherOrNull(t)
    /\ ids' = ids \cup {c}
    /\ schoolOf'  = With(schoolOf, c, s)
    /\ teacherOf' = With(teacherOf, c, t)
    /\ UNCHANGED <<schools, usernameOf, teacher_locations, handler>>

\* 404 without the class, 500 without the teacher.
HandleUpdateClass(c, t) ==
    /\ c \in DOMAIN teacherOf /\ IsTeacherOrNull(t)
    /\ teacherOf' = With(teacherOf, c, t)
    /\ UNCHANGED <<ids, schools, schoolOf, usernameOf, teacher_locations, handler>>

HandleDeleteClass(c) ==
    /\ c \in DOMAIN teacherOf
    /\ schoolOf'  = Without(schoolOf, {c})
    /\ teacherOf' = Without(teacherOf, {c})
    /\ UNCHANGED <<ids, schools, usernameOf, teacher_locations, handler>>

----------------------------------------------------------------------------
(* TeacherIds *)

NameTaken(u) == \E t \in DOMAIN usernameOf : usernameOf[t] = u

\* findByUsername finds nobody; 409 otherwise.
HandleCreateTeacher(h, u) ==
    /\ handler[h] = AtRest
    /\ ~NameTaken(u)
    /\ Goes(h, "createTeacher", Null, u)
    /\ UNCHANGED <<ids, structureRows>>

\* The INSERT, which fails when the name was taken meanwhile.
CreateTeacherRow(h, t) ==
    LET u == handler[h].ref
    IN  /\ handler[h].op = "createTeacher" /\ t \notin ids
        /\ IF NameTaken(u)
           THEN UNCHANGED <<ids, usernameOf>>
           ELSE ids' = ids \cup {t} /\ usernameOf' = With(usernameOf, t, u)
        /\ Ends(h)
        /\ UNCHANGED <<schools, schoolOf, teacherOf, teacher_locations>>

\* ClassIds lose their teacher, the access goes.
HandleDeleteTeacher(t) ==
    /\ t \in DOMAIN usernameOf
    /\ usernameOf' = Without(usernameOf, {t})
    /\ teacherOf'  = [c \in DOMAIN teacherOf |->
                        IF teacherOf[c] = t THEN Null ELSE teacherOf[c]]
    /\ teacher_locations' = {p \in teacher_locations : p[1] # t}
    /\ UNCHANGED <<ids, schools, schoolOf, handler>>

----------------------------------------------------------------------------
(* Access to locations *)

\* The teacher was found, then the location, then the row is inserted; 404,
\* 404, and 500 when a key does not hold.
HandleAssignLocation(h, t, l) ==
    /\ handler[h] = AtRest /\ t \in DOMAIN usernameOf
    /\ Goes(h, "findLocation", t, l)
    /\ UNCHANGED <<ids, structureRows>>

AssignFindLocation(h) ==
    /\ handler[h].op = "findLocation"
    /\ IF handler[h].ref \in DOMAIN schoolOf
       THEN Goes(h, "assign", handler[h].row, handler[h].ref)
       ELSE Ends(h)
    /\ UNCHANGED <<ids, structureRows>>

Assign(h) ==
    LET t == handler[h].row
        l == handler[h].ref
    IN  /\ handler[h].op = "assign"
        /\ teacher_locations' =
              IF t \in DOMAIN usernameOf /\ l \in DOMAIN schoolOf
              THEN teacher_locations \cup {<<t, l>>} ELSE teacher_locations
        /\ Ends(h)
        /\ UNCHANGED <<ids, schools, schoolOf, teacherOf, usernameOf>>

\* 204 whether or not there was such a row.
HandleRevokeLocation(t, l) ==
    /\ teacher_locations' = teacher_locations \ {<<t, l>>}
    /\ UNCHANGED <<ids, schools, schoolOf, teacherOf, usernameOf, handler>>

----------------------------------------------------------------------------

StructureNext ==
    \/ \E h \in Handlers :
          \/ \E u \in TeacherNames : HandleCreateTeacher(h, u)
          \/ \E t \in TeacherIds : CreateTeacherRow(h, t)
          \/ \E t \in TeacherIds, l \in Locations : HandleAssignLocation(h, t, l)
          \/ AssignFindLocation(h)
          \/ Assign(h)
    \/ \E s \in Schools :
          \/ HandleCreateSchool(s)
          \/ \E l \in Locations : HandleCreateLocation(l, s)
          \/ \E c \in ClassIds, t \in TeacherIds \cup {Null} :
                HandleCreateClass(c, s, t)
    \/ \E c \in ClassIds, t \in TeacherIds \cup {Null} : HandleUpdateClass(c, t)
    \/ \E s \in Schools : HandleDeleteSchool(s)
    \/ \E l \in Locations : HandleDeleteLocation(l)
    \/ \E c \in ClassIds : HandleDeleteClass(c)
    \/ \E t \in TeacherIds : HandleDeleteTeacher(t)
    \/ \E t \in TeacherIds, l \in Locations : HandleRevokeLocation(t, l)

StructureSpec == StructureInit /\ [][StructureNext]_structureVars

----------------------------------------------------------------------------
(* Properties *)

\* Whatever is removed between a handler's look-ups and its INSERT or UPDATE:
\* every location and class is in a school that exists, every teacher of a
\* class and every access is one of rows that exist, and no two teachers have
\* one username.
StructureHolds ==
    /\ \A r \in DOMAIN schoolOf : schoolOf[r] \in schools
    /\ \A c \in DOMAIN teacherOf : c \in DOMAIN schoolOf
                                     /\ IsTeacherOrNull(teacherOf[c])
    /\ \A p \in teacher_locations :
          p[1] \in DOMAIN usernameOf /\ p[2] \in DOMAIN schoolOf
    /\ \A t, u \in DOMAIN usernameOf : usernameOf[t] = usernameOf[u] => t = u
============================================================================
