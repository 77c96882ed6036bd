--------------------------------- MODULE Names ---------------------------------
(***************************************************************************)
(* The tables that give a weapon, a vehicle model and a skin their names,  *)
(* and the functions that find the number of a name typed by a player: a   *)
(* few characters at fixed places decide, in a fixed order.                *)
(*                                                                         *)
(* Names are written in lower case, as every function that looks one up    *)
(* compares them, and those of skins without what is neither a letter nor  *)
(* a digit; of a skin's name GetSkinID takes the first three characters    *)
(* before it drops the others, which makes no difference for a name that   *)
(* has none among them.                                                    *)
(***************************************************************************)
EXTENDS Integers, Sequences, FiniteSetsExt, TLC

VARIABLES
    table,  \* which of the three the script asked about last
    id,     \* the number it asked the name of
    name,   \* the name it was given
    found   \* the number it was given for that name

vars == <<table, id, name, found>>

Init == table = "none" /\ id = 0 /\ name = "" /\ found = -1

At(s, i) == SubSeq(s, i, i)

\* s begins with p, in which ? stands for any character
Fits(p, s) ==
    /\ Len(p) <= Len(s)
    /\ \A i \in 1 .. Len(p) : At(p, i) \in {"?", At(s, i)}

\* The number the first rule that fits s gives it; a rule is <<pattern, number>>
LastFit(rules, s, otherwise) ==
    LET fitting == {i \in DOMAIN rules : Fits(rules[i][1], s)}
    IN  IF fitting = {} THEN otherwise ELSE rules[Max(fitting)][2]

FirstFit(rules, s, otherwise) ==
    LET fitting == {i \in DOMAIN rules : Fits(rules[i][1], s)}
    IN  IF fitting = {} THEN otherwise ELSE rules[Min(fitting)][2]

-------------------------------------------------------------------------------
(* Weapons *)

WeaponNames == <<
    "unarmed", "brass knuckles", "screwdriver", "golf club", "nightstick",
    "knife", "baseball bat", "hammer", "meat cleaver", "machete", "katana",
    "chainsaw", "grenade", "remote detonation grenade", "tear gas",
    "molotov cocktails", "rocket", "colt .45", "python",
    "pump-action shotgun", "spas-12 shotgun", "stubby shotgun", "tec-9",
    "uzi", "silenced ingram", "mp5", "m4", "ruger", "sniper rifle",
    "laserscope sniper rifle", "rocket launcher", "flamethrower", "m60",
    "minigun", "explosion", "helicannon", "camera" >>

OtherWeapons ==
    39 :> "vehicle" @@ 41 :> "explosion" @@ 42 :> "driveby" @@ 43 :> "drowned" @@
    44 :> "fall" @@ 51 :> "explosion" @@ 70 :> "suicide"

GetWeaponName(w) ==
    CASE w \in 0 .. 36 -> WeaponNames[w + 1]
      [] w \in DOMAIN OtherWeapons -> OtherWeapons[w]
      [] OTHER -> "unknown"

WeaponsFtoK == <<
    <<"fi", 0>>, <<"f", 31>>, <<"br", 1>>, <<"b", 6>>,
    <<"sc", 2>>, <<"sh", 19>>, <<"sp", 20>>, <<"st", 21>>, <<"sa", 21>>, <<"si", 24>>,
    <<"sn", 28>>, <<"s", 2>>, <<"go", 3>>, <<"g", 12>>, <<"n", 4>>,
    <<"kni", 5>>, <<"knu", 1>>, <<"kn", 255>>, <<"k", 10>> >>

WeaponsHtoL == <<
    <<"h", 7>>, <<"me", 8>>, <<"ma", 9>>, <<"mo", 15>>, <<"mp", 25>>, <<"m4", 26>>,
    <<"m6", 32>>, <<"mi", 33>>, <<"m", 26>>, <<"cl", 8>>, <<"ch", 11>>, <<"c", 17>>,
    <<"re", 13>>, <<"ro", 30>>, <<"rp", 30>>, <<"r", 27>>, <<"t?a", 14>>, <<"t", 22>>,
    <<"p", 18>>, <<"u", 23>>, <<"i", 24>>, <<"l", 29>> >>

GetWeaponID(s) == IF s = "" THEN 0 ELSE FirstFit(WeaponsFtoK \o WeaponsHtoL, s, 255)

-------------------------------------------------------------------------------
(* Vehicle models *)

VehicleNames130 == <<
    "landstalker", "idaho", "stinger", "linerunner", "perennial", "sentinel",
    "rio", "firetruck", "trashmaster", "stretch", "manana", "infernus",
    "voodoo", "pony", "mule", "cheetah", "ambulance", "fbi washington",
    "moonbeam", "esperanto", "taxi", "washington", "bobcat", "mr. whoopee",
    "bf injection", "hunter", "police", "enforcer", "securicar", "banshee",
    "predator", "bus", "rhino", "barracks ol", "cuban hermes", "helicopter",
    "angel", "coach", "cabbie", "stallion", "rumpo", "rc bandit",
    "romero's hearse", "packer", "sentinel xs", "admiral", "squalo",
    "sea sparrow", "pizza boy", "gang burrito", "airtrain", "deaddodo",
    "speeder" >>

VehicleNames183 == <<
    "reefer", "tropic", "flatbed", "yankee", "caddy", "zebra cab", "top fun",
    "skimmer", "pcj-600", "faggio", "freeway", "rc baron", "rc raider",
    "glendale", "oceanic", "sanchez", "sparrow", "patriot", "love fist",
    "coast guard", "dinghy", "hermes", "sabre", "sabre turbo", "phoenix",
    "walton", "regina", "comet", "deluxo", "burrito", "spand express",
    "marquis", "baggage handler", "kaufman cab", "maverick", "vcn maverick",
    "rancher", "fbi rancher", "virgo", "greenwood", "cuban jetmax",
    "hotring racer #1", "sandking", "blista compact", "police maverick",
    "boxville", "benson", "mesa grande", "rc goblin", "hotring racer #2",
    "hotring racer #3", "bloodring banger #1", "bloodring banger #2",
    "vice squad cheetah" >>

GetVehicleNameFromModel(v) == (VehicleNames130 \o VehicleNames183)[v - 129]

VehiclesLtoF == <<
    <<"la", 130>>, <<"li", 133>>, <<"lo", 201>>, <<"id", 131>>, <<"in", 141>>,
    <<"sti", 132>>, <<"str", 139>>, <<"sta", 169>>, <<"sec", 158>>, <<"sea", 177>>,
    <<"se???????", 174>>, <<"se?", 135>>, <<"sq?", 176>>, <<"spe", 182>>,
    <<"spar", 199>>, <<"span", 213>>, <<"sk?", 190>>, <<"sanc", 198>>, <<"sand", 225>>,
    <<"sab???", 206>>, <<"sab", 205>>, <<"pe", 134>>, <<"pon", 143>>,
    <<"po?????", 227>>, <<"po?", 156>>, <<"pr", 160>>, <<"pac", 173>>, <<"pat", 200>>,
    <<"pi", 178>>, <<"pc", 191>>, <<"ph", 207>>, <<"ri", 136>>, <<"rh", 162>>,
    <<"ru", 170>>, <<"rcb?n", 171>>, <<"rcb?r", 194>>, <<"rcr", 195>>, <<"rcg", 231>>,
    <<"ro", 172>>, <<"ree", 183>>, <<"reg", 209>>, <<"ra", 219>>, <<"fi", 137>>,
    <<"fb??w", 147>>, <<"fb??r", 220>>, <<"fl", 185>>, <<"fa", 192>>, <<"fr", 193>> >>

VehiclesTtoW == <<
    <<"tra", 138>>, <<"tro", 184>>, <<"to", 189>>, <<"ta", 150>>, <<"man", 140>>,
    <<"mar", 214>>, <<"mav", 217>>, <<"mu", 144>>, <<"mr", 153>>, <<"me", 230>>,
    <<"mo", 148>>, <<"ch", 145>>, <<"cu????h", 164>>, <<"cu????j", 223>>,
    <<"com", 210>>, <<"co?c", 167>>, <<"co?s", 202>>, <<"cab", 168>>, <<"cad", 187>>,
    <<"am", 146>>, <<"an", 166>>, <<"ad", 175>>, <<"ai", 180>>, <<"es", 149>>,
    <<"en", 157>>, <<"w?s", 151>>, <<"w?l", 208>> >>

VehiclesBtoV == <<
    <<"bob", 152>>, <<"box", 228>>, <<"bar", 163>>, <<"bag", 215>>, <<"ban", 159>>,
    <<"bur", 212>>, <<"bus", 161>>, <<"bli", 226>>, <<"blo", 234>>, <<"be", 229>>,
    <<"bf", 154>>, <<"hu", 155>>, <<"her", 204>>, <<"hel", 165>>, <<"ho", 224>>,
    <<"ga", 179>>, <<"gl", 196>>, <<"gr", 222>>, <<"de", 211>>, <<"di", 203>>,
    <<"y", 186>>, <<"z", 188>>, <<"k", 216>>, <<"o", 197>>, <<"j", 223>>,
    <<"vc", 218>>, <<"vir", 221>>, <<"vic", 236>>, <<"vo", 142>> >>

\* The three names that are compared as a whole
WholeNames == "bloodrb" :> 235 @@ "hotrina" :> 232 @@ "hotrinb" :> 233

GetVehicleModelFromName(s) ==
    IF s \in DOMAIN WholeNames THEN WholeNames[s]
    ELSE FirstFit(VehiclesLtoF \o VehiclesTtoW \o VehiclesBtoV, s, -1)

-------------------------------------------------------------------------------
(* Skins *)

SkinNames0 == <<
    "tommyvercetti", "cop", "swat", "fbi", "army", "paramedic",
    "firefighter", "golfguy1", "", "bumlady1", "bumlady2", "punk1", "lawyer",
    "spanishlady1", "spanishlady2", "coolguy1", "arabicguy", "beachlady1",
    "beachlady2", "beachguy1", "beachguy2", "officelady1", "waitress1",
    "foodlady", "prostitute1", "bumlady3", "bumguy1", "garbageman1",
    "taxidriver1", "haitian1", "criminal1", "hoodlady1", "granny1",
    "businessman1", "churchguy", "clublady1", "churchlady", "pimp",
    "beachlady3", "beachguy3", "beachlady4", "beachguy4", "businessman2",
    "prostitute2", "bumlady4", "bumguy2", "haitian2", "constructionworker1",
    "punk2", "prostitute3", "granny2", "punk3", "businessman3",
    "spanishlady3", "spanishlady4", "coolguy2", "businessman4", "beachlady5",
    "beachguy5", "beachlady6", "beachguy6", "constructionworker2" >>

SkinNames62 == <<
    "golfguy2", "golflady", "golfguy3", "beachlady7", "beachguy7",
    "officelady2", "businessman5", "businessman6", "prostitute4", "bumlady4",
    "bumguy3", "spanishguy", "taxidriver2", "gymlady", "gymguy", "skatelady",
    "skateguy", "shopper1", "shopper2", "tourist1", "tourist2", "cuban1",
    "cuban2", "haitian3", "haitian4", "shark1", "shark2", "diazguy1",
    "diazguy2", "dbpsecurity1", "dbpsecurity2", "biker1", "biker2",
    "vercettiguy1", "vercettiguy2", "undercovercop1", "undercovercop2",
    "undercovercop3", "undercovercop4", "undercovercop5", "undercovercop6",
    "richguy", "coolguy3", "prostitute5", "prostitute6", "ricardodiaz",
    "lovefist1", "kenrosenburg", "candysuxx", "hilary", "lovefist2", "phil",
    "rockstarguy", "sonny", "lance", "mercedes", "lovefist3", "alexshrub",
    "lancecop", "lance", "cortez", "gignagent", "gonzalez" >>

SkinNames125 == <<
    "hilaryrobber", "mercedes", "cam", "camrobber", "philonearm",
    "philrobber", "coolguy4", "pizzaman", "taxidriver1", "taxidriver2",
    "sailor1", "sailor2", "sailor3", "chef", "criminal2", "frenchguy",
    "garbageman2", "haitian5", "waitress2", "sonnyguy1", "sonnyguy2",
    "sonnyguy3", "columbianguy2", "haitian6", "beachguy8", "garbageman3",
    "garbageman4", "garbageman5", "tranny", "thug5", "spandexguy1",
    "spandexguy2", "stripper1", "stripper2", "stripper3", "storeclerk",
    "tommyvercetti", "soireeoutfit", "coverallsoutfit", "countrycluboutfit",
    "havanaoutfit", "copoutfit", "bankjoboutfit", "casualoutfit",
    "mrvercettioutfit", "tracksuit1", "tracksuit2", "coolguy5", "coolguy6",
    "prostitute7", "sonnyguy4", "prostitute8", "clublady2", "prostitute9",
    "haitian7", "frankieoutfit", "sonnyguy5", "columbianguy3", "hoodlady2",
    "punk4", "waitress3", "kentpaul" >>

GetSkinName(s) == (SkinNames0 \o SkinNames62 \o SkinNames125)[s + 1]

\* The numbers by the name of the constant without its last letter: X_A, X_B...
SKIN_ID == [
    TOMMY_VERCETTI |-> 0, COP |-> 1, SWAT |-> 2, FBI |-> 3, ARMY |-> 4,
    PARAMEDIC |-> 5, FIREMAN |-> 6, GOLF_GUY |-> <<7, 62, 64>>,
    BUM_LADY |-> <<9, 10, 25, 44, 71>>, PUNK |-> <<11, 48, 51>>,
    LAWYER |-> 12, SPANISH_LADY |-> <<13, 14, 53, 54>>,
    COOL_GUY |-> <<15, 55, 104, 130>>, ARABIC_GUY |-> 16,
    BEACH_LADY |-> <<17, 18, 38, 40, 57, 59, 65>>,
    BEACH_GUY |-> <<19, 20, 39, 41, 58, 60, 66, 148>>,
    OFFICE_LADY |-> <<21, 67>>, WAITRESS |-> <<22, 142>>, FOOD_LADY |-> 23,
    PROSTITUTE |-> <<24, 43, 49, 70, 105, 106>>, BUM_GUY |-> <<26, 45, 72>>,
    GARBAGEMAN |-> <<27, 140, 149, 150, 151>>,
    TAXI_DRIVER |-> <<28, 74, 132, 133>>, HATIAN |-> <<29, 46, 85, 86, 141>>,
    CRIMINAL |-> <<30, 138>>, HOOD_LADY |-> 31, GRANNY |-> <<32, 50>>,
    BUSINESS_MAN |-> <<33, 42, 52, 56, 68, 69>>, CHURCH_GUY |-> 34,
    CLUB_LADY |-> 35, CHURCH_LADY |-> 36, PIMP |-> 37,
    CONSTRUCTION_WORKER |-> <<47, 61>>, GOLF_LADY |-> 63, SPANISH_GUY |-> 73,
    GYM_LADY |-> 75, GYM_GUY |-> 76, SKATE_LADY |-> 77, SKATE_GUY |-> 78,
    SHOPPER |-> <<79, 80>>, TOURIST |-> <<81, 82>>, CUBAN |-> <<83, 84>>,
    SHARK |-> <<87, 88>>, DIAZ_GUY |-> <<89, 90>>,
    DBP_SECURITY |-> <<91, 92>>, BIKER |-> <<93, 94>>,
    VERCETTI_GUY |-> <<95, 96>>,
    UNDERCOVER_COP |-> <<97, 98, 99, 100, 101, 102>>, RICH_GUY |-> 103,
    LOVE_FIST |-> <<107, 111, 117, 122>>, KEN_ROSENBURG |-> 108,
    CANDY_SUXX |-> 109, HILARY |-> 110, PHIL |-> 112, ROCKSTAR_GUY |-> 113,
    SONNY |-> 114, LANCE |-> <<115, 120>>, MERCADES |-> <<116, 125>>,
    ALEX_SRUB |-> 118, LANCE_COP |-> 119, CORTEZ |-> 121,
    COLUMBIAN_GUY |-> <<123, 146>>, HILARY_ROBBER |-> 124, CAM |-> 126,
    CAM_ROBBER |-> 127, PHIL_ONE_ARM |-> 128, PHIL_ROBBER |-> 129,
    PIZZAMAN |-> 131, SAILOR |-> <<134, 135, 136>>, CHEF |-> 137,
    FRENCH_GUY |-> 139, SONNY_GUY |-> <<143, 144, 145>>,
    THUG |-> <<147, 153>>, TRANNY |-> 152, SPANDEX_GUY |-> <<154, 155>>,
    STRIPPER |-> <<156, 157, 158>>, STORE_CLERK |-> 159 ]

\* A rule for skins: some patterns, and the number for each last character
Char == {At("0123456789abcdefghijklmnopqrstuvwxyz", i) : i \in 1 .. 36}

Rule(patterns, ends) == [fits |-> patterns, ends |-> ends]

Always(skin) == [c \in Char |-> skin]
Last(c, skin) == c :> skin

\* The last character is 1 or a for the first of skins, 2 or b for the second...
OneOf(skins) ==
    [c \in UNION {{At("12345678", i), At("abcdefgh", i)} : i \in DOMAIN skins} |->
        skins[CHOOSE i \in DOMAIN skins : c \in {At("12345678", i), At("abcdefgh", i)}]]

\* As OneOf, and nothing else is tried after that
Numbered(skins) == OneOf(skins) @@ Always(-1)
Pair(skins) == Last("1", skins[1]) @@ Last("a", skins[1]) @@ Always(skins[2])
PairByB(skins) == Last("2", skins[2]) @@ Last("b", skins[2]) @@ Always(skins[1])

SkinsAtoB == <<
    Rule({"al", "as"}, Always(SKIN_ID.ALEX_SRUB)),
    Rule({"ag", "ara"}, Always(SKIN_ID.ARABIC_GUY)),
    Rule({"arm"}, Always(SKIN_ID.ARMY)),
    Rule({"beg", "be???g"}, Numbered(SKIN_ID.BEACH_GUY)),
    Rule({"bel", "be???l"}, Numbered(SKIN_ID.BEACH_LADY)),
    Rule({"bi"}, Numbered(SKIN_ID.BIKER)),
    Rule({"bug", "bumg", "bulg"}, Numbered(SKIN_ID.BUM_GUY)),
    Rule({"bul", "buml"},
         LET lady == SKIN_ID.BUM_LADY
         IN  OneOf(SubSeq(lady, 1, 2)) @@ Last("c", lady[3]) @@ Last("3", lady[4]) @@
             Last("d", lady[4]) @@ Last("4", lady[5]) @@ Last("e", lady[5]) @@ Always(-1)),
    Rule({"bum"}, Always(-1)),
    Rule({"bus", "bu???????m"}, Numbered(SKIN_ID.BUSINESS_MAN)) >>

SkinsCtoF == <<
    Rule({"cam", "car"}, Last("r", SKIN_ID.CAM_ROBBER)),
    Rule({"cam"}, Always(SKIN_ID.CAM)),
    Rule({"can", "cas"}, Always(SKIN_ID.CANDY_SUXX)),
    Rule({"ca"}, Last("x", SKIN_ID.CANDY_SUXX)),
    Rule({"che"}, Always(SKIN_ID.CHEF)),
    Rule({"ch"}, Last("f", SKIN_ID.CHEF)),
    Rule({"chu???g", "chg"}, Always(SKIN_ID.CHURCH_GUY)),
    Rule({"chu???l", "chl"}, Always(SKIN_ID.CHURCH_LADY)),
    Rule({"cl"}, Always(SKIN_ID.CLUB_LADY)),
    Rule({"col??????g", "cog"}, Numbered(SKIN_ID.COLUMBIAN_GUY)),
    Rule({"con", "co??????????g"}, Numbered(SKIN_ID.CONSTRUCTION_WORKER)),
    Rule({"coo"}, Numbered(SKIN_ID.COOL_GUY)),
    Rule({"cop"}, Always(SKIN_ID.COP)),
    Rule({"cor", "coz"}, Always(SKIN_ID.CORTEZ)),
    Rule({"co"}, Last("z", SKIN_ID.CORTEZ)),
    Rule({"cr"}, OneOf(SKIN_ID.CRIMINAL)),
    Rule({"cu"}, OneOf(SKIN_ID.CUBAN)),
    Rule({"db", "ds"}, Numbered(SKIN_ID.DBP_SECURITY)),
    Rule({"di", "dz", "dg"}, Numbered(SKIN_ID.DIAZ_GUY)),
    Rule({"fb"}, Always(SKIN_ID.FBI)),
    Rule({"fi", "fm"}, Always(SKIN_ID.FIREMAN)),
    Rule({"fo", "fl"}, Always(SKIN_ID.FOOD_LADY)),
    Rule({"fr", "fg"}, Always(SKIN_ID.FRENCH_GUY)) >>

SkinsGtoO == <<
    Rule({"ga", "gm"}, Numbered(SKIN_ID.GARBAGEMAN)),
    Rule({"gog", "go??g"}, Numbered(SKIN_ID.GOLF_GUY)),
    Rule({"gol", "go??l"}, Always(SKIN_ID.GOLF_LADY)),
    Rule({"gr"}, Numbered(SKIN_ID.GRANNY)),
    Rule({"gg", "gy?g"}, Always(SKIN_ID.GYM_GUY)),
    Rule({"gl", "gy?l"}, Always(SKIN_ID.GYM_LADY)),
    Rule({"ha"}, Numbered(SKIN_ID.HATIAN)),
    Rule({"hi", "hr"}, Last("r", SKIN_ID.HILARY_ROBBER)),
    Rule({"hi"}, Always(SKIN_ID.HILARY)),
    Rule({"ho", "hl"}, Always(SKIN_ID.HOOD_LADY)),
    Rule({"k"}, Always(SKIN_ID.KEN_ROSENBURG)),
    \* LANCE_A and LANCE_B are tried after this one, which fits whenever they do
    Rule({"lan", "lc"}, Always(SKIN_ID.LANCE_COP)),
    Rule({"lw", "law"}, Always(SKIN_ID.LAWYER)),
    Rule({"lo", "lf"},
         OneOf(SubSeq(SKIN_ID.LOVE_FIST, 1, 3)) @@ Last("d", SKIN_ID.LOVE_FIST[4]) @@ Always(-1)),
    Rule({"m"}, Last("b", SKIN_ID.MERCADES[2]) @@ Always(SKIN_ID.MERCADES[1])),
    Rule({"o"}, Pair(SKIN_ID.OFFICE_LADY)) >>

SkinsPtoS == <<
    Rule({"pa"}, Always(SKIN_ID.PARAMEDIC)),
    Rule({"pho", "ph??o"}, Always(SKIN_ID.PHIL_ONE_ARM)),
    Rule({"ph"}, Last("m", SKIN_ID.PHIL_ONE_ARM)),
    Rule({"phr", "ph??r"}, Always(SKIN_ID.PHIL_ROBBER)),
    Rule({"ph"}, Last("r", SKIN_ID.PHIL_ROBBER)),
    Rule({"phi"}, Always(SKIN_ID.PHIL)),
    Rule({"pim"}, Always(SKIN_ID.PIMP)),
    Rule({"pi"}, Last("p", SKIN_ID.PIMP)),
    Rule({"piz"}, Always(SKIN_ID.PIZZAMAN)),
    Rule({"pi"}, Last("n", SKIN_ID.PIZZAMAN)),
    Rule({"pr"},
         LET lady == SKIN_ID.PROSTITUTE
         IN  OneOf(SubSeq(lady, 1, 2)) @@ Last("c", lady[3]) @@ Last("d", lady[4]) @@
             Last("3", lady[5]) @@ Last("e", lady[5]) @@
             Last("4", lady[6]) @@ Last("f", lady[6]) @@ Always(-1)),
    Rule({"pu"}, Numbered(SKIN_ID.PUNK)),
    Rule({"ri"}, Always(SKIN_ID.RICH_GUY)),
    Rule({"ro"}, Always(SKIN_ID.ROCKSTAR_GUY)),
    Rule({"sa"}, Numbered(SKIN_ID.SAILOR)),
    Rule({"sha"}, Pair(SKIN_ID.SHARK)),
    Rule({"sho"}, Pair(SKIN_ID.SHOPPER)),
    Rule({"skg", "sk???g"}, Always(SKIN_ID.SKATE_GUY)),
    Rule({"skl", "sk???l"}, Always(SKIN_ID.SKATE_LADY)),
    Rule({"so", "sg"}, Numbered(SKIN_ID.SONNY_GUY)),
    Rule({"spx", "sp????x"}, Pair(SKIN_ID.SPANDEX_GUY)),
    Rule({"spg", "sp?????g"}, Always(SKIN_ID.SPANISH_GUY)),
    Rule({"spl", "sp?????l"}, Numbered(SKIN_ID.SPANISH_LADY)),
    Rule({"sto"}, Always(SKIN_ID.STORE_CLERK)),
    Rule({"str"}, Numbered(SKIN_ID.STRIPPER)),
    Rule({"sw"}, Always(SKIN_ID.SWAT)) >>

SkinsTtoW == <<
    Rule({"ta"},
         LET driver == SKIN_ID.TAXI_DRIVER
         IN  OneOf(SubSeq(driver, 1, 2)) @@ Last("c", driver[3]) @@ Last("d", driver[4]) @@
             Always(-1)),
    Rule({"th"}, Last("5", SKIN_ID.THUG[2]) @@ Last("b", SKIN_ID.THUG[2]) @@ Always(SKIN_ID.THUG[1])),
    Rule({"tv", "tom"}, Always(SKIN_ID.TOMMY_VERCETTI)),
    Rule({"tou"}, PairByB(SKIN_ID.TOURIST)),
    Rule({"tr"}, Always(SKIN_ID.TRANNY)),
    Rule({"u"}, Numbered(SKIN_ID.UNDERCOVER_COP)),
    Rule({"v"}, PairByB(SKIN_ID.VERCETTI_GUY)),
    Rule({"w"}, PairByB(SKIN_ID.WAITRESS)) >>

SkinRules == SkinsAtoB \o SkinsCtoF \o SkinsGtoO \o SkinsPtoS \o SkinsTtoW

GetSkinID(s) ==
    LET last == At(s, Len(s))
        fitting == {i \in DOMAIN SkinRules :
                      /\ last \in DOMAIN SkinRules[i].ends
                      /\ \E p \in SkinRules[i].fits : Fits(p, s)}
    IN  IF s = "" \/ fitting = {} THEN -1 ELSE SkinRules[Min(fitting)].ends[last]

-------------------------------------------------------------------------------
\* A script asks for the name of a number, and then for the number of that name
NotYet == -2

Named(t, i, s) == table' = t /\ id' = i /\ name' = s /\ found' = NotYet

Numbers(t) == CASE t = "weapon" -> 0 .. 70 [] t = "vehicle" -> 130 .. 236 [] t = "skin" -> 0 .. 186

AskName ==
    \/ \E i \in Numbers("weapon") : Named("weapon", i, GetWeaponName(i))
    \/ \E i \in Numbers("vehicle") : Named("vehicle", i, GetVehicleNameFromModel(i))
    \/ \E i \in Numbers("skin") : Named("skin", i, GetSkinName(i))

AskNumber ==
    /\ found = NotYet
    /\ found' = CASE table = "weapon" -> GetWeaponID(name)
                 [] table = "vehicle" -> GetVehicleModelFromName(name)
                 [] table = "skin" -> GetSkinID(name)
    /\ UNCHANGED <<table, id, name>>

Next == AskName \/ AskNumber

Spec == Init /\ [][Next]_vars

-------------------------------------------------------------------------------
Found(t) == table = t /\ found # NotYet

WeaponNamesLeadBack == Found("weapon") /\ id \in 1 .. 33 \ {16, 19} => found = id

VehicleNamesLeadBack ==
    Found("vehicle") /\ id \notin {171, 181, 194, 195, 231, 232, 233, 235} => found = id

Misnamed ==
    {8, 25, 44, 49, 70, 105, 106, 107, 115, 116, 121, 123, 124, 126, 133, 134, 148} \cup 161 .. 186

SkinNamesLeadBack ==
    Found("skin") /\ id \notin Misnamed => found = IF id < 107 THEN id ELSE id - 1

\* The name of a weapon, a vehicle or a skin, looked up, leads back to its number,
\* for every name one rule or another would take for itself were it tried earlier.
\* Not so for Rocket and Pump-Action Shotgun, which are taken for the Rocket
\* Launcher and the Python; for the RC vehicles, whose rules leave no room for the
\* space after RC, for Deaddodo, which has no rule, and for names that differ from
\* another in their last character.  Skins have constants up to Ricardo Diaz, who
\* has a name and none: from there on every constant is one less than the number
\* of the skin it is named for, and so is what GetSkinID answers.
NamesLeadBack == WeaponNamesLeadBack /\ VehicleNamesLeadBack /\ SkinNamesLeadBack

===============================================================================
