------------------------------ MODULE PlayerDb ------------------------------
(***************************************************************************)
(* player_db (player_db.h, player_db.cpp): the vector of player names that *)
(* is indexed by player id.  A database is a function with domain 0..n-1,  *)
(* n the size of the vector; an empty string is NoName.                    *)
(*                                                                         *)
(* app::remap_player_name has an empty body, so the call set_player_name   *)
(* makes through _app changes nothing (and needs no valid _app).           *)
(***************************************************************************)
EXTENDS Naturals, FiniteSets

CONSTANT NoName

EmptyDb == [i \in {} |-> NoName]

Size(db) == Cardinality(DOMAIN db)

IsDatabase(db) == Size(db) \in Nat /\ DOMAIN db = 0..Size(db) - 1

\* ensure_index_is_present
Grow(db, id) ==
    [i \in DOMAIN db \cup 0..id |-> IF i \in DOMAIN db THEN db[i] ELSE NoName]

Holders(db, name) == {i \in DOMAIN db : db[i] = name}

\* The slot std::find stops at.
FirstHolder(db, name) ==
    CHOOSE i \in Holders(db, name) : \A j \in Holders(db, name) : i <= j

IsPlayerInDb(db, name) == Holders(db, name) # {}

IsPlayerNameSet(db, id) == id \in DOMAIN db /\ db[id] # NoName

\* Slip: the former holder keeps the name.
SetPlayerNameOnly(db, name, id) == [Grow(db, id) EXCEPT ![id] = name]

\* set_player_name: a name held under another id moves to the new id.
SetPlayerName(db, name, id) ==
    LET grown == Grow(db, id)
    IN  IF IsPlayerInDb(grown, name)
        THEN [grown EXCEPT ![FirstHolder(grown, name)] = NoName, ![id] = name]
        ELSE [grown EXCEPT ![id] = name]

RemovePlayerName(db, id) ==
    IF id \in DOMAIN db THEN [db EXCEPT ![id] = NoName] ELSE db

\* The id get_player_id returns, and the database it leaves behind.  Slot 0 is
\* handed out again once it has been emptied.
PlayerId(db, name) ==
    IF IsPlayerInDb(db, name) THEN FirstHolder(db, name)
    ELSE IF Size(db) = 0 \/ db[0] # NoName THEN Size(db) ELSE 0

\* Slip: the name is not looked up.
AfterGetPlayerIdAppends(db, name) == [Grow(db, Size(db)) EXCEPT ![Size(db)] = name]

AfterGetPlayerId(db, name) ==
    IF IsPlayerInDb(db, name) THEN db
    ELSE SetPlayerName(db, name, PlayerId(db, name))
=============================================================================
