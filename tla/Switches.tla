-------------------------------- MODULE Switches --------------------------------
(***************************************************************************)
(* Everything a script can turn on and off: options of the server, of      *)
(* players, vehicles and pickups, and the reports of objects.  A script    *)
(* function or property is bound to a function that writes and one that    *)
(* reads; some of the server's options say the opposite of the name that   *)
(* scripts use, and several names may belong to one option.                *)
(*                                                                         *)
(* There is one player, vehicle, pickup and object.                        *)
(***************************************************************************)
EXTENDS Integers, FiniteSets

CONSTANT MaxWrites \* bound: assignments

VARIABLES
    option, \* what the server has
    \* history
    writes, \* the number of assignments
    wanted  \* the last value scripts have asked for, by name

switchVars == <<option, writes, wanted>>

\* The functions that write or read an option: as they are told, or the opposite
As(o) == [option |-> o, straight |-> TRUE]
Opposite(o) == [option |-> o, straight |-> FALSE]

\* What f says, and g where f says nothing
Joined(f, g) == [x \in DOMAIN f \cup DOMAIN g |-> IF x \in DOMAIN f THEN f[x] ELSE g[x]]

-------------------------------------------------------------------------------
(* The functions that write *)

ServerSetters ==
    [ToggleSyncFrameLimiter       |-> As("SyncFrameLimiter"),
     ToggleFrameLimiter           |-> As("FrameLimiter"),
     ToggleTaxiBoostJump          |-> As("TaxiBoostJump"),
     ToggleDriveOnWater           |-> As("DriveOnWater"),
     ToggleFastSwitch             |-> As("FastSwitch"),
     ToggleFriendlyFire           |-> As("FriendlyFire"),
     ToggleDisableDriveby         |-> Opposite("DisableDriveBy"),
     TogglePerfectHandling        |-> As("PerfectHandling"),
     ToggleFlyingCars             |-> As("FlyingCars"),
     ToggleJumpSwitch             |-> As("JumpSwitch"),
     ToggleShowOnRadar            |-> As("ShowMarkers"),
     ToggleStuntBike              |-> As("StuntBike"),
     ToggleShootInAir             |-> As("ShootInAir"),
     ToggleShowNametags           |-> As("ShowNameTags"),
     ToggleJoinMessages           |-> As("JoinMessages"),
     ToggleDeathMessages          |-> As("DeathMessages"),
     ToggleShowOnlyTeamMarkers    |-> As("OnlyShowTeamMarkers"),
     ToggleWallglitch             |-> As("WallGlitch"),
     ToggleDisableBackfaceCulling |-> As("DisableBackfaceCulling"),
     ToggleDisableHeliBladeDamage |-> As("DisableHeliBladeDamage")]

RuleSetters == [SetCrouchEnabled |-> Opposite("DisableCrouch"), SetUseClasses |-> As("UseClasses")]

PlayerSetters ==
    [SetFrozen         |-> Opposite("Controllable"),
     SetDrivebyEnabled |-> As("DriveBy"),
     SetWhiteScanlines |-> As("WhiteScanlines"),
     SetGreenScanlines |-> As("GreenScanlines"),
     SetWidescreen     |-> As("Widescreen"),
     SetOnRadar        |-> As("HasMarker"),
     SetCanAttack      |-> As("CanAttack")]

MarkerSetters ==
    [SetMarkerVisible |-> As("HasMarker"),
     SetCanUseColors  |-> As("ChatTagsEnabled"),
     SetDrunkStatus   |-> As("DrunkEffectsDeprecated")]

ScreenSetters ==
    [SetCinematicBorder     |-> As("Widescreen"),
     SetGreenScanLinesOf    |-> As("GreenScanlines"),
     SetWhiteScanLinesOf    |-> As("WhiteScanlines")]

VehicleSetters ==
    [SetLocked |-> As("DoorsLocked"), SetAlarm |-> As("Alarm"), SetSiren |-> As("Siren"),
     SetLights |-> As("Lights"), SetSingleUse |-> As("SingleUse")]

LateVehicleSetters ==
    [SetRadioLocked |-> As("RadioLocked"), SetGhost |-> As("Ghost"),
     SetEngineEnabled |-> Opposite("EngineDisabled"), SetBonnetOpen |-> As("BonnetOpen"),
     SetBootOpen |-> As("BootOpen")]

OtherSetters ==
    [ShowMarkers |-> As("PlayerShowMarkers"), SetBleeding |-> As("Bleeding"),
     SetPickupSingleUse |-> As("PickupSingleUse"), SetAuto |-> As("IsAutomatic"),
     SetReportingShots |-> As("ShotReport"), SetReportingBumps |-> As("TouchedReport")]

Setter ==
    Joined(Joined(Joined(ServerSetters, RuleSetters), Joined(PlayerSetters, MarkerSetters)),
           Joined(Joined(ScreenSetters, VehicleSetters),
                  Joined(LateVehicleSetters, OtherSetters)))

-------------------------------------------------------------------------------
(* The functions that read *)

ServerGetters ==
    [EnabledSyncFrameLimiter       |-> As("SyncFrameLimiter"),
     EnabledFrameLimiter           |-> As("FrameLimiter"),
     EnabledTaxiBoostJump          |-> As("TaxiBoostJump"),
     EnabledDriveOnWater           |-> As("DriveOnWater"),
     EnabledFastSwitch             |-> As("FastSwitch"),
     EnabledFriendlyFire           |-> As("FriendlyFire"),
     EnabledDisableDriveby         |-> Opposite("DisableDriveBy"),
     EnabledPerfectHandling        |-> As("PerfectHandling"),
     EnabledFlyingCars             |-> As("FlyingCars"),
     EnabledJumpSwitch             |-> As("JumpSwitch"),
     EnabledShowOnRadar            |-> As("ShowMarkers"),
     EnabledStuntBike              |-> As("StuntBike"),
     EnabledShootInAir             |-> As("ShootInAir"),
     EnabledShowNametags           |-> As("ShowNameTags"),
     EnabledJoinMessages           |-> As("JoinMessages"),
     EnabledDeathMessages          |-> As("DeathMessages"),
     EnabledShowOnlyTeamMarkers    |-> As("OnlyShowTeamMarkers"),
     EnabledWallglitch             |-> As("WallGlitch"),
     EnabledDisableBackfaceCulling |-> As("DisableBackfaceCulling"),
     EnabledDisableHeliBladeDamage |-> As("DisableHeliBladeDamage")]

RuleGetters == [GetCrouchEnabled |-> Opposite("DisableCrouch"), UsingClasses |-> As("UseClasses")]

StraightPlayerGetters ==
    [GetFrozen         |-> As("Controllable"),
     GetDrivebyEnabled |-> As("DriveBy"),
     GetWhiteScanlines |-> As("WhiteScanlines"),
     GetGreenScanlines |-> As("GreenScanlines"),
     GetWidescreen     |-> As("Widescreen"),
     GetOnRadar        |-> As("HasMarker"),
     GetCanAttack      |-> As("CanAttack")]

PlayerGetters ==
    [GetFrozen         |-> Opposite("Controllable"),
     GetDrivebyEnabled |-> As("DriveBy"),
     GetWhiteScanlines |-> As("WhiteScanlines"),
     GetGreenScanlines |-> As("GreenScanlines"),
     GetWidescreen     |-> As("Widescreen"),
     GetOnRadar        |-> As("HasMarker"),
     GetCanAttack      |-> As("CanAttack")]

MarkerGetters ==
    [GetMarkerVisible |-> As("HasMarker"),
     GetCanUseColors  |-> As("ChatTagsEnabled"),
     GetDrunkStatus   |-> As("DrunkEffectsDeprecated")]

ScreenGetters ==
    [GetCinematicBorder  |-> As("Widescreen"),
     GetGreenScanLinesOf |-> As("GreenScanlines"),
     GetWhiteScanLinesOf |-> As("WhiteScanlines")]

VehicleGetters ==
    [GetLocked |-> As("DoorsLocked"), GetAlarm |-> As("Alarm"), GetSiren |-> As("Siren"),
     GetLights |-> As("Lights")]

LateVehicleGetters ==
    [GetRadioLockStatus |-> As("RadioLocked"), GetGhost |-> As("Ghost"),
     GetEngineEnabled |-> Opposite("EngineDisabled"), GetBonnetOpen |-> As("BonnetOpen"),
     GetBootOpen |-> As("BootOpen")]

OtherGetters ==
    [ShowingMarkers |-> As("PlayerShowMarkers"), GetBleeding |-> As("Bleeding"),
     GetSingleUse |-> As("SingleUse"),
     GetPickupSingleUse |-> As("PickupSingleUse"), GetAuto |-> As("IsAutomatic"),
     GetReportingShots |-> As("ShotReport"), GetReportingBumps |-> As("TouchedReport")]

Getter ==
    Joined(Joined(Joined(ServerGetters, RuleGetters), Joined(PlayerGetters, MarkerGetters)),
           Joined(Joined(ScreenGetters, VehicleGetters),
                  Joined(LateVehicleGetters, OtherGetters)))

-------------------------------------------------------------------------------
(* What scripts call them, the function that reads first *)

GlobalNames ==
    [SyncFrameLimiter        |-> <<"EnabledSyncFrameLimiter", "ToggleSyncFrameLimiter">>,
     FrameLimiter            |-> <<"EnabledFrameLimiter", "ToggleFrameLimiter">>,
     TaxiBoostJump           |-> <<"EnabledTaxiBoostJump", "ToggleTaxiBoostJump">>,
     DriveOnWater            |-> <<"EnabledDriveOnWater", "ToggleDriveOnWater">>,
     FastSwitch              |-> <<"EnabledFastSwitch", "ToggleFastSwitch">>,
     FriendlyFire            |-> <<"EnabledFriendlyFire", "ToggleFriendlyFire">>,
     DrivebyEnabled          |-> <<"EnabledDisableDriveby", "ToggleDisableDriveby">>,
     PerfectHandling         |-> <<"EnabledPerfectHandling", "TogglePerfectHandling">>,
     FlyingCars              |-> <<"EnabledFlyingCars", "ToggleFlyingCars">>,
     JumpSwitch              |-> <<"EnabledJumpSwitch", "ToggleJumpSwitch">>,
     ShowOnRadar             |-> <<"EnabledShowOnRadar", "ToggleShowOnRadar">>,
     ShowOnlyTeamMarkers     |-> <<"EnabledShowOnlyTeamMarkers", "ToggleShowOnlyTeamMarkers">>,
     StuntBike               |-> <<"EnabledStuntBike", "ToggleStuntBike">>,
     ShootInAir              |-> <<"EnabledShootInAir", "ToggleShootInAir">>,
     ShowNametags            |-> <<"EnabledShowNametags", "ToggleShowNametags">>,
     JoinMessages            |-> <<"EnabledJoinMessages", "ToggleJoinMessages">>,
     DeathMessages           |-> <<"EnabledDeathMessages", "ToggleDeathMessages">>,
     Wallglitch              |-> <<"EnabledWallglitch", "ToggleWallglitch">>,
     BackfaceCullingDisabled |-> <<"EnabledDisableBackfaceCulling", "ToggleDisableBackfaceCulling">>,
     HeliBladeDamageDisabled |-> <<"EnabledDisableHeliBladeDamage", "ToggleDisableHeliBladeDamage">>]

RuleNames ==
    [CrouchEnabled |-> <<"GetCrouchEnabled", "SetCrouchEnabled">>,
     UseClasses    |-> <<"UsingClasses", "SetUseClasses">>]

\* For old scripts
ScreenNames ==
    [CinematicBorder |-> <<"GetCinematicBorder", "SetCinematicBorder">>,
     GreenScanLines  |-> <<"GetGreenScanLinesOf", "SetGreenScanLinesOf">>,
     WhiteScanLines  |-> <<"GetWhiteScanLinesOf", "SetWhiteScanLinesOf">>]

PlayerNames ==
    [Bleeding            |-> <<"GetBleeding", "SetBleeding">>,
     CanAttack           |-> <<"GetCanAttack", "SetCanAttack">>,
     CanDriveby          |-> <<"GetDrivebyEnabled", "SetDrivebyEnabled">>,
     DrivebyAbility      |-> <<"GetDrivebyEnabled", "SetDrivebyEnabled">>,
     Frozen              |-> <<"GetFrozen", "SetFrozen">>,
     GreenScanlines      |-> <<"GetGreenScanlines", "SetGreenScanlines">>,
     HasChatTags         |-> <<"GetCanUseColors", "SetCanUseColors">>,
     HasMarker           |-> <<"GetMarkerVisible", "SetMarkerVisible">>,
     IsDrunk             |-> <<"GetDrunkStatus", "SetDrunkStatus">>,
     IsFrozen            |-> <<"GetFrozen", "SetFrozen">>,
     IsOnRadar           |-> <<"GetOnRadar", "SetOnRadar">>,
     IsWeaponSyncBlocked |-> <<"GetCanAttack", "SetCanAttack">>,
     ShowMarkers         |-> <<"ShowingMarkers", "ShowMarkers">>,
     WhiteScanlines      |-> <<"GetWhiteScanlines", "SetWhiteScanlines">>,
     Widescreen          |-> <<"GetWidescreen", "SetWidescreen">>]

VehicleNames ==
    [Alarm         |-> <<"GetAlarm", "SetAlarm">>,
     BonnetOpen    |-> <<"GetBonnetOpen", "SetBonnetOpen">>,
     BootOpen      |-> <<"GetBootOpen", "SetBootOpen">>,
     EngineEnabled |-> <<"GetEngineEnabled", "SetEngineEnabled">>,
     IsGhost       |-> <<"GetGhost", "SetGhost">>,
     Lights        |-> <<"GetLights", "SetLights">>,
     Locked        |-> <<"GetLocked", "SetLocked">>,
     RadioLocked   |-> <<"GetRadioLockStatus", "SetRadioLocked">>,
     SingleUse     |-> <<"GetSingleUse", "SetSingleUse">>,
     Siren         |-> <<"GetSiren", "SetSiren">>]

\* Of a pickup and an object
OtherNames ==
    [Automatic       |-> <<"GetAuto", "SetAuto">>,
     PickupSingleUse |-> <<"GetPickupSingleUse", "SetPickupSingleUse">>,
     TrackingShots   |-> <<"GetReportingShots", "SetReportingShots">>,
     TrackingBumps   |-> <<"GetReportingBumps", "SetReportingBumps">>]

Names ==
    Joined(Joined(GlobalNames, Joined(RuleNames, ScreenNames)),
           Joined(PlayerNames, Joined(VehicleNames, OtherNames)))

-------------------------------------------------------------------------------
\* Names of one thing, in scripts
Twins ==
    {{"CanAttack", "IsWeaponSyncBlocked"}, {"CanDriveby", "DrivebyAbility"},
     {"Frozen", "IsFrozen"}, {"HasMarker", "IsOnRadar"}, {"Widescreen", "CinematicBorder"},
     {"GreenScanlines", "GreenScanLines"}, {"WhiteScanlines", "WhiteScanLines"}}

Same(n, m) == n = m \/ \E t \in Twins : {n, m} \subseteq t

SwitchesInit ==
    /\ option \in {[o \in {Setter[f].option : f \in DOMAIN Setter} |-> b] : b \in BOOLEAN}
    /\ writes = 0
    /\ wanted = <<>>

Written(f, on) == on = Setter[f].straight
Reads(n) ==
    LET getter == Getter[Names[n][1]] IN option[getter.option] = getter.straight

Wants(name, on) ==
    /\ writes < MaxWrites
    /\ writes' = writes + 1
    /\ wanted' = Joined([n \in {m \in DOMAIN Names : Same(m, name)} |-> on], wanted)

Puts(o, on) == option' = [option EXCEPT ![o] = on]

Assigns(n, on) ==
    LET f == Names[n][2] IN Wants(n, on) /\ Puts(Setter[f].option, Written(f, on))

\* Either level turns the one effect on
SetDrunkLevel(visuals, handling) ==
    LET drunk == ~(visuals <= 0 /\ handling <= 0)
    IN  Wants("IsDrunk", drunk) /\ Puts("DrunkEffectsDeprecated", drunk)

\* Whatever number a marker is asked for with
SetMarker == Wants("HasMarker", TRUE) /\ Puts("HasMarker", TRUE)
RemoveMarker == Wants("HasMarker", FALSE) /\ Puts("HasMarker", FALSE)

SwitchesNext ==
    \/ \E n \in DOMAIN Names : \E on \in BOOLEAN : Assigns(n, on)
    \/ \E visuals, handling \in -1 .. 1 : SetDrunkLevel(visuals, handling)
    \/ SetMarker \/ RemoveMarker
    \/ writes = MaxWrites /\ UNCHANGED switchVars

SwitchesSpec == SwitchesInit /\ [][SwitchesNext]_switchVars

-------------------------------------------------------------------------------
\* What a script reads under any name is what was asked for last under this name
\* or another one of the same thing, whatever else was turned on and off since:
\* no two things share an option, and none is inverted on one of its ways only.
SwitchesKept ==
    \A n \in DOMAIN wanted : Reads(n) = wanted[n]

===============================================================================
