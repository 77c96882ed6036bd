------------------------------- MODULE MCLibrary -------------------------------
(***************************************************************************)
(* One instance for TLC of every part of the plugin that works on data of  *)
(* its own: the entity maps, the two halves of CStream, the name tables,   *)
(* the areas, the texts, what players are shown, the values read from      *)
(* entities, a player's money, the dispatch of events, the switches, and a *)
(* vehicle's bodywork.  They share no state, so each is explored by        *)
(* itself: part says which one, and the others stay in their initial       *)
(* states.                                                                 *)
(***************************************************************************)
EXTENDS Entities, InputStream, OutputStream, Purse, Events, Values, Visibility,
        Areas, Text, Switches, Bodywork, Bitwise

VARIABLES
    part,
    table, id, name, found

nameVars == <<table, id, name, found>>

Name == INSTANCE Names

\* Ids 1 .. 3 of vehicles, which count from 1, and 0 .. 1 of another kind
MCMAX == [k \in Kind |-> IF k = "vehicle" THEN 3 ELSE 2]

\* From before the buffer to behind it
MCPosition == -1 .. CAP + 1

MCGrid == {0, 2, 4} \X {0, 2, 4}
MCPentagon == <<<<0, 0>>, <<4, 0>>, <<4, 4>>, <<0, 4>>, <<2, 2>>>>
MCPolygon == UNION {[1 .. n -> MCGrid] : n \in 2 .. 4} \cup {MCPentagon}
MCPoint == (0 .. 4) \X (0 .. 4)

\* The borders of the districts and what is next to them
MCSpot ==
    LET Near(f(_)) == UNION {{f(Districts[i]), f(Districts[i]) + 1} : i \in DOMAIN Districts}
        West(box) == box.west
        East(box) == box.east
        South(box) == box.south
        North(box) == box.north
    IN  (Near(West) \cup Near(East)) \X (Near(South) \cup Near(North))

MCFigure == BoundedSeq({"1", "-", "x"}, 7)
MCOriginal == BoundedSeq({"a", "A", "b"}, 4)
MCTarget == BoundedSeq(BoundedSeq({"a", "b"}, 2), 2)
MCReplacement == {<<>>, <<"x", "a">>, <<"a">>}
MCLine == BoundedSeq({"1", "-", " ", "x"}, 5)

\* On both sides of 0, with two positions in one tenth
MCPlace == {<<10, 10, 10>>, <<19, 12, 10>>, <<15, 25, 10>>, <<-1, 10, 10>>, <<-10, -15, 10>>}
MCRaw == {<<1, 1, 1>>, <<0, 1, 1>>}

MCBitOr(a, b) == a | b

\* Answers that are no byte
MCNumber == -1 .. Byte + 1

-------------------------------------------------------------------------------
LibraryInit ==
    /\ part \in {"entities", "input", "output", "names", "areas", "texts", "visibility",
                 "values", "money", "events", "switches", "bodywork"}
    /\ EntitiesInit
    /\ Init /\ OutInit /\ Name!Init
    /\ AreasInit /\ TextInit /\ SeenInit
    /\ ValuesInit /\ PurseInit /\ EventsInit
    /\ SwitchesInit /\ BodyInit
    /\ part # "entities" => \A k \in Kind : pool[k] = {}
    /\ part # "values" => attr = "PlayerPosition"
    /\ part # "money" => money = 0
    /\ part # "switches" => \A o \in DOMAIN option : ~option[o]
    /\ part # "bodywork" => lights = {} /\ colour = <<0, 0>>

LibraryNext ==
    /\ UNCHANGED part
    /\ \/ part = "entities" /\ EntitiesNext
          /\ UNCHANGED <<vars, outVars, nameVars, areaVars, textVars, seenVars,
                        valueVars, purseVars, eventVars, switchVars, bodyVars>>
       \/ part = "input" /\ Next
          /\ UNCHANGED <<entityVars, outVars, nameVars, areaVars, textVars, seenVars,
                        valueVars, purseVars, eventVars, switchVars, bodyVars>>
       \/ part = "output" /\ OutNext
          /\ UNCHANGED <<entityVars, vars, nameVars, areaVars, textVars, seenVars,
                        valueVars, purseVars, eventVars, switchVars, bodyVars>>
       \/ part = "names" /\ Name!Next
          /\ UNCHANGED <<entityVars, vars, outVars, areaVars, textVars, seenVars,
                        valueVars, purseVars, eventVars, switchVars, bodyVars>>
       \/ part = "areas" /\ AreasNext
          /\ UNCHANGED <<entityVars, vars, outVars, nameVars, textVars, seenVars,
                        valueVars, purseVars, eventVars, switchVars, bodyVars>>
       \/ part = "texts" /\ TextNext
          /\ UNCHANGED <<entityVars, vars, outVars, nameVars, areaVars, seenVars,
                        valueVars, purseVars, eventVars, switchVars, bodyVars>>
       \/ part = "visibility" /\ SeenNext
          /\ UNCHANGED <<entityVars, vars, outVars, nameVars, areaVars, textVars,
                        valueVars, purseVars, eventVars, switchVars, bodyVars>>
       \/ part = "values" /\ ValuesNext
          /\ UNCHANGED <<entityVars, vars, outVars, nameVars, areaVars, textVars,
                        seenVars, purseVars, eventVars, switchVars, bodyVars>>
       \/ part = "money" /\ PurseNext
          /\ UNCHANGED <<entityVars, vars, outVars, nameVars, areaVars, textVars,
                        seenVars, valueVars, eventVars, switchVars, bodyVars>>
       \/ part = "events" /\ EventsNext
          /\ UNCHANGED <<entityVars, vars, outVars, nameVars, areaVars, textVars,
                        seenVars, valueVars, purseVars, switchVars, bodyVars>>
       \/ part = "switches" /\ SwitchesNext
          /\ UNCHANGED <<entityVars, vars, outVars, nameVars, areaVars, textVars,
                        seenVars, valueVars, purseVars, eventVars, bodyVars>>
       \/ part = "bodywork" /\ BodyNext
          /\ UNCHANGED <<entityVars, vars, outVars, nameVars, areaVars, textVars,
                        seenVars, valueVars, purseVars, eventVars, switchVars>>

LibrarySpec ==
    LibraryInit /\ [][LibraryNext]_<<part, entityVars, vars, outVars, nameVars,
                                    areaVars, textVars, seenVars, valueVars,
                                    purseVars, eventVars, switchVars, bodyVars>>

-------------------------------------------------------------------------------
\* The name of a weapon, a vehicle or a skin leads back to its number (Names).
NamesLeadBack == Name!NamesLeadBack

===============================================================================
