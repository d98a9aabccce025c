-------------------------- MODULE VehicleAppearance --------------------------
(***************************************************************************)
(* How one vehicle looks on a client: what its binding asks for (livery,   *)
(* tint, wheels, extras, plate), what has been done to the clump it shows, *)
(* and who undoes it - a new clump when it streams in, a repair, a change  *)
(* of its colours, SA-MP's own plate and components.                       *)
(* src/Client/CustomVehicleBindingManager.cpp; which vehicle is bound to   *)
(* which model, and when that is shown, is VehicleVisuals.                 *)
(*                                                                         *)
(* Handlers and frames hold m_mutex for their whole length: each is one    *)
(* action.  Only a wheel waits for the main thread in between.             *)
(*                                                                         *)
(* Of the materials of a model, five kinds are told apart: "body", which   *)
(* has a texture that liveries replace; "panel", without texture but with  *)
(* the marker of the primary colour; "glass", with a texture named so;     *)
(* "pane", without texture and translucent; "rims".                        *)
(***************************************************************************)
EXTENDS Integers, Sequences

CONSTANTS
    Colours,               \* the colours of a vehicle
    Paintjobs,             \* indices of paintjobs scripts use, without -1
    Found,                 \* those for which the model has a texture
    Recognised,            \* ... whose name is one a livery may replace
    Tints,                 \* tints of windows, without NoTint
    OpaqueTints,           \* those with an alpha of 240 or more
    WheelColours, Wheels,  \* colours of wheels; components that are wheels
    ModelWheel,            \* the model's own wheel component, or None
    Extras,                \* masks of extras
    Texts,                 \* plate texts, without the default one
    Meshes,                \* plate meshes, without the disabled one
    None, Original,        \* nothing set; as the model's file has it
    Addresses,             \* addresses of the game's vehicles
    SameFrame,             \* a vehicle may take the address of one that has
                           \*   gone since the last frame
    Flicker,               \* colours may change again before a check has
                           \*   noticed that they did
    MaxTasks,              \* bound: wheels that wait for the main thread
    MaxSettings            \* bound: packets other than those that bind

\* What the code calls "SAN ANDREAS", (255, 0, 0, 0), white, a primary marker
\* and a plate mesh that is not enabled.
CONSTANTS SanAndreas, NoTint, White, Marker, Disabled

ASSUME AppearanceAssumption ==
    /\ Paintjobs \subseteq Nat /\ Recognised \subseteq Found
    /\ Found \subseteq Paintjobs /\ OpaqueTints \subseteq Tints
    /\ ModelWheel \in Wheels \cup {None}
    /\ SameFrame \in BOOLEAN /\ Flicker \in BOOLEAN /\ MaxTasks \in Nat
    /\ MaxSettings \in Nat /\ None \notin Addresses
    /\ SanAndreas \notin Texts /\ NoTint \notin Tints /\ Disabled \notin Meshes
    /\ None \notin Texts \cup Wheels \cup Extras \cup Meshes \cup WheelColours
    /\ None \notin Paintjobs \cup {SanAndreas, Disabled}

VARIABLES
    binding,               \* the entry of m_bindings, part of it
    modelText,             \* s_modelDefaultPlateText of the model
    modelMesh,             \* s_modelPlateConfigs: the front plate
    samp,                  \* SA-MP's m_szLicensePlateText of the vehicle
    car,                   \* the game's vehicle: address, colour, wheel, bumper
    look,                  \* what was done to its clump
    tasks,                 \* MainThreadQueue: wheels to put on
    settings               \* counts what MaxSettings bounds

vars == <<binding, modelText, modelMesh, samp, car, look, tasks, settings>>

-----------------------------------------------------------------------------
\* An entry that is not there; hasPaintjob, hasWindowTint and so on are the
\* values that differ from these.  bound: the entry has a model;  at: the
\* vehicle it is applied to.
NoBinding ==
    [bound |-> FALSE, at |-> None, paint |-> -1, resolved |-> -2,
     texture |-> None, tint |-> NoTint, rims |-> White, wheel |-> None,
     extras |-> None, text |-> None, last |-> None, mesh |-> None,
     colour |-> None]
NoCar == [at |-> None, colour |-> None, wheel |-> None, bumper |-> TRUE]

\* A clump as it is cloned, for a vehicle without or with a custom model.
Clone(custom) ==
    [custom |-> custom, texture |-> Original, body |-> Original,
     panel |-> Marker, glass |-> Original, pane |-> Original,
     rims |-> Original, extras |-> Original, plate |-> None, mesh |-> None,
     seen |-> TRUE]

\* IsVehiclePointerValid(appliedGameVehicle): the vehicle is still there.
Applied == binding.at # None /\ binding.at = car.at
There   == car.at # None

\* The four parts of the state an operation may change, as one record.
Now == [binding |-> binding, samp |-> samp, car |-> car, look |-> look]
Become(s) ==
    /\ binding' = s.binding /\ samp' = s.samp
    /\ car' = s.car /\ look' = s.look

Init ==
    /\ binding = NoBinding /\ modelText = None /\ modelMesh = None
    /\ samp = None /\ car = NoCar /\ look = Clone(FALSE) /\ tasks = <<>>
    /\ settings = 0

-----------------------------------------------------------------------------
(***************************************************************************)
(* Materials.                                                              *)
(***************************************************************************)
\* The game's SetEditableMaterials: materials with a marker take the colour
\* that SetVehicleColour has chosen.  Here they keep it.
SetEditableMaterials(s) ==
    [s EXCEPT !.look.panel = IF @ = Marker THEN s.car.colour ELSE @]

\* ApplyVehicleColors: materials with a marker if there is one left, and
\* those with a body's texture always.
ApplyVehicleColors(s) ==
    [s EXCEPT !.look.panel = IF @ = Marker THEN s.car.colour ELSE @,
              !.look.body = s.car.colour]

RestoreOriginalMaterials(s) == [s EXCEPT !.look.texture = Original]

\* A livery replaces the texture of materials whose texture has one of a few
\* names, that of another livery only if it is such a name too.
Replaceable(texture) == texture = Original \/ texture \in Recognised
WithLivery(s, texture) ==
    IF Replaceable(s.look.texture)
    THEN [s EXCEPT !.look.texture = texture, !.look.body = White]
    ELSE s

NoPaintjob(s) ==
    ApplyVehicleColors(SetEditableMaterials(RestoreOriginalMaterials(
        [s EXCEPT !.binding.resolved = -1, !.binding.texture = None])))

\* The texture of an index is looked for once.
Resolved(s, index) ==
    IF s.binding.resolved = index THEN s
    ELSE [s EXCEPT !.binding.resolved = index,
                   !.binding.texture = IF index \in Found THEN index ELSE None]
Livery(s) ==
    IF s.binding.texture # None
    THEN SetEditableMaterials(WithLivery(SetEditableMaterials(s),
                                         s.binding.texture))
    ELSE RestoreOriginalMaterials(s)
ApplyPaintjobToVehicle(s, index) ==
    IF index < 0 THEN NoPaintjob(s) ELSE Livery(Resolved(s, index))

\* A window is what has a texture named so, or a translucent material; a tint
\* that is not translucent makes the latter a window no more.
Translucent(tint) == tint \notin OpaqueTints \cup {NoTint}
ApplyWindowTintToVehicle(s, tint) ==
    [s EXCEPT !.look.glass = tint,
              !.look.pane = IF Translucent(@) THEN tint ELSE @]

ApplyWheelColorToVehicle(s, colour) == [s EXCEPT !.look.rims = colour]

ApplyExtrasToClump(s, mask) == [s EXCEPT !.look.extras = mask]

\* What the binding has, on the clump.
WithPaintjob(s) ==
    IF s.binding.paint >= 0 THEN ApplyPaintjobToVehicle(s, s.binding.paint) ELSE s
WithTint(s) ==
    IF s.binding.tint # NoTint THEN ApplyWindowTintToVehicle(s, s.binding.tint)
    ELSE s
WithRims(s) ==
    IF s.binding.rims # White THEN ApplyWheelColorToVehicle(s, s.binding.rims)
    ELSE s
WithExtras(s) ==
    IF s.binding.extras # None THEN ApplyExtrasToClump(s, s.binding.extras) ELSE s
Coated(s) == WithRims(WithTint(WithPaintjob(s)))

-----------------------------------------------------------------------------
(***************************************************************************)
(* Wheels.  The game puts a wheel on in the wheel's own colour.            *)
(***************************************************************************)
AddVehicleUpgrade(s, wheel) ==
    [s EXCEPT !.car.wheel = wheel, !.look.rims = Original]
ApplyWheelToVehicle(s, wheel) ==
    IF wheel # None THEN WithRims(AddVehicleUpgrade(s, wheel))
    ELSE IF s.car.wheel # None THEN AddVehicleUpgrade(s, None) ELSE s

\* The binding's wheel, or the model's if there is no other.
OwnWheel(s) ==
    IF s.binding.wheel # None
    THEN IF s.car.wheel = s.binding.wheel THEN s
         ELSE ApplyWheelToVehicle(s, s.binding.wheel)
    ELSE IF ModelWheel # None /\ s.car.wheel = None
    THEN ApplyWheelToVehicle(s, ModelWheel)
    ELSE s

-----------------------------------------------------------------------------
(***************************************************************************)
(* Plates.                                                                 *)
(***************************************************************************)
\* The text a vehicle should have: its own, SA-MP's, the model's.
EffectiveText(s, default) ==
    IF s.binding.text # None THEN s.binding.text
    ELSE IF s.samp \notin {None, SanAndreas} THEN s.samp
    ELSE IF default # None THEN default
    ELSE SanAndreas

UpdateSampVehiclePlateText(s, text) ==
    [s EXCEPT !.samp = IF s.car.at # None THEN text ELSE @]

\* A disabled mesh is taken off, another put on or moved.
CreatePlateQuadAtomic(s, mesh) ==
    [s EXCEPT !.look.mesh = IF mesh = Disabled THEN None ELSE mesh,
              !.look.seen = IF s.look.mesh = None THEN TRUE ELSE @]
ApplyPlateToClump(s, text, mesh) ==
    [(IF mesh # None THEN CreatePlateQuadAtomic(s, mesh) ELSE s)
         EXCEPT !.look.plate = text]

\* The binding's mesh, or the one of the model unless that is disabled.
EffectiveMesh(s, default) ==
    IF s.binding.mesh # None THEN s.binding.mesh
    ELSE IF default = Disabled THEN None ELSE default

\* The plate goes with the bumper it hangs on.
UpdateVehiclePlateVisibility(s) ==
    [s EXCEPT !.look.seen = s.look.mesh = None \/ s.car.bumper]

\* Variant: what was put on is not remembered.
ApplyPlateToVehicleUnnoted(s, text, default, mesh) ==
    LET final == IF text # None THEN text ELSE EffectiveText(s, default)
    IN  UpdateVehiclePlateVisibility(
            ApplyPlateToClump(UpdateSampVehiclePlateText(s, final), final,
                              EffectiveMesh(s, mesh)))

\* text: None to have it chosen.
ApplyPlateToVehicle(s, text, default, mesh) ==
    LET final == IF text # None THEN text ELSE EffectiveText(s, default)
        named == UpdateSampVehiclePlateText(
                     [s EXCEPT !.binding.last = final], final)
    IN  UpdateVehiclePlateVisibility(
            ApplyPlateToClump(named, final, EffectiveMesh(s, mesh)))

-----------------------------------------------------------------------------
(***************************************************************************)
(* Packets.  Each handler stores what it got, and applies it at once to a  *)
(* vehicle that shows the model.                                           *)
(***************************************************************************)
UNCHANGEDModel == UNCHANGED <<modelText, modelMesh>>

\* A model's plate mesh becomes the binding's, if it has none.
Merged(b, mesh) ==
    [b EXCEPT !.mesh = IF @ = None /\ mesh # Disabled THEN mesh ELSE @]

Bind ==
    /\ binding' = Merged([binding EXCEPT !.bound = TRUE], modelMesh)
    /\ UNCHANGEDModel /\ UNCHANGED <<samp, car, look, tasks>>

\* The vehicle gets a clump of its own model back and keeps its components;
\* the plate has the binding's text or SA-MP's.
Unbind ==
    /\ binding # NoBinding
    /\ binding' = NoBinding
    /\ car' = IF Applied THEN [car EXCEPT !.bumper = TRUE] ELSE car
    /\ look' = IF ~Applied THEN look
               ELSE [Clone(FALSE) EXCEPT
                        !.panel = car.colour,
                        !.plate = IF binding.text # None THEN binding.text ELSE samp]
    /\ UNCHANGEDModel /\ UNCHANGED <<samp, tasks>>

SetVehiclePaintjob(index) ==
    LET stored == [Now EXCEPT !.binding.paint = index,
                              !.binding.resolved = -2, !.binding.texture = None]
    IN  /\ Become(IF Applied THEN ApplyPaintjobToVehicle(stored, index)
                  ELSE stored)
        /\ UNCHANGEDModel /\ UNCHANGED tasks

SetVehicleWindowTint(tint) ==
    LET stored == [Now EXCEPT !.binding.tint = tint]
    IN  /\ Become(IF Applied THEN ApplyWindowTintToVehicle(stored, tint)
                  ELSE stored)
        /\ UNCHANGEDModel /\ UNCHANGED tasks

SetVehicleWheelColor(colour) ==
    LET stored == [Now EXCEPT !.binding.rims = colour]
    IN  /\ Become(IF Applied THEN ApplyWheelColorToVehicle(stored, colour)
                  ELSE stored)
        /\ UNCHANGEDModel /\ UNCHANGED tasks

SetVehicleExtras(mask) ==
    LET stored == [Now EXCEPT !.binding.extras = mask]
    IN  /\ Become(IF Applied THEN ApplyExtrasToClump(stored, mask)
                  ELSE stored)
        /\ UNCHANGEDModel /\ UNCHANGED tasks

\* The wheel is put on by a task, which holds the vehicle's address.
SetVehicleWheel(wheel) ==
    /\ Len(tasks) < MaxTasks
    /\ binding' = [binding EXCEPT !.wheel = wheel]
    /\ tasks' = IF Applied THEN Append(tasks, <<car.at, wheel>>) ELSE tasks
    /\ UNCHANGEDModel /\ UNCHANGED <<samp, car, look>>

SetVehiclePlateText(text) ==
    LET stored == [Now EXCEPT !.binding.text = text]
    IN  /\ Become(IF Applied
                  THEN ApplyPlateToVehicle(stored, text, modelText, modelMesh)
                  ELSE stored)
        /\ UNCHANGEDModel /\ UNCHANGED tasks

SetVehiclePlateMesh(mesh) ==
    LET stored == [Now EXCEPT !.binding.mesh = mesh]
    IN  /\ Become(IF Applied THEN CreatePlateQuadAtomic(stored, mesh)
                  ELSE stored)
        /\ UNCHANGEDModel /\ UNCHANGED tasks

\* Variant: a text of the vehicle's own does not keep the model's away.
SetModelDefaultPlateTextForAll(text) ==
    LET renamed == UpdateSampVehiclePlateText(
                       [Now EXCEPT !.binding.last = text], text)
    IN  /\ modelText' = text
        /\ Become(IF ~binding.bound THEN Now
                  ELSE IF Applied
                  THEN ApplyPlateToVehicle(renamed, text, text, modelMesh)
                  ELSE renamed)
        /\ UNCHANGED <<modelMesh, tasks>>

SetModelDefaultPlateText(text) ==
    LET renamed == UpdateSampVehiclePlateText(
                       [Now EXCEPT !.binding.last = text], text)
    IN  /\ modelText' = text
        /\ Become(IF ~binding.bound \/ binding.text # None THEN Now
                  ELSE IF Applied
                  THEN ApplyPlateToVehicle(renamed, text, text, modelMesh)
                  ELSE renamed)
        /\ UNCHANGED <<modelMesh, tasks>>

SetModelPlateConfig(mesh) ==
    LET merged == [Now EXCEPT !.binding = Merged(@, mesh)]
    IN  /\ modelMesh' = mesh
        /\ Become(IF ~binding.bound THEN Now
                  ELSE IF Applied
                  THEN ApplyPlateToVehicle(merged, binding.text, modelText, mesh)
                  ELSE merged)
        /\ UNCHANGED <<modelText, tasks>>

Setting ==
    \/ \E i \in Paintjobs \cup {-1} : SetVehiclePaintjob(i)
    \/ \E t \in Tints \cup {NoTint} : SetVehicleWindowTint(t)
    \/ \E c \in WheelColours \cup {White} : SetVehicleWheelColor(c)
    \/ \E x \in Extras : SetVehicleExtras(x)
    \/ \E w \in Wheels \cup {None} : SetVehicleWheel(w)
    \/ \E t \in Texts \cup {None} : SetVehiclePlateText(t)
    \/ \E m \in Meshes \cup {Disabled} : SetVehiclePlateMesh(m)
    \/ \E t \in Texts : SetModelDefaultPlateText(t)
    \/ \E m \in Meshes \cup {Disabled} : SetModelPlateConfig(m)

-----------------------------------------------------------------------------
(***************************************************************************)
(* The game and SA-MP.                                                     *)
(***************************************************************************)
\* A vehicle streams in, with the components and the plate the server knows.
Appear(address, colour, wheel, text) ==
    /\ ~There
    /\ SameFrame \/ address # binding.at
    /\ car' = [at |-> address, colour |-> colour, wheel |-> wheel, bumper |-> TRUE]
    /\ samp' = text /\ look' = Clone(FALSE)
    /\ UNCHANGEDModel /\ UNCHANGED <<binding, tasks>>

Disappear ==
    /\ There
    /\ car' = NoCar /\ samp' = None /\ look' = Clone(FALSE)
    /\ UNCHANGEDModel /\ UNCHANGED <<binding, tasks>>

\* ChangeVehicleColor, AddVehicleComponent, a collision.
Recolour(colour) ==
    /\ There /\ car.colour # colour
    /\ Flicker \/ ~Applied \/ binding.colour = car.colour
    /\ car' = [car EXCEPT !.colour = colour]
    /\ UNCHANGEDModel /\ UNCHANGED <<binding, samp, look, tasks>>
Tune(wheel) ==
    /\ There
    /\ Become(AddVehicleUpgrade(Now, wheel))
    /\ UNCHANGEDModel /\ UNCHANGED tasks
Damage ==
    /\ There /\ car.bumper
    /\ car' = [car EXCEPT !.bumper = FALSE]
    /\ UNCHANGEDModel /\ UNCHANGED <<binding, samp, look, tasks>>

\* What a repair does to a vehicle that shows a custom model: panels and
\* damage, the atomics as the model has them, then what the binding has on
\* top, then the components once more.
Undamaged(s) == [s EXCEPT !.car.bumper = TRUE, !.look.extras = Original]
\* Variant: a repair forgets the extras.
RedressedWithoutExtras(s) ==
    LET coated == Coated(ApplyVehicleColors(SetEditableMaterials(s)))
        text == IF s.binding.text # None THEN s.binding.text ELSE s.binding.last
    IN  UpdateVehiclePlateVisibility(
            IF text # None THEN ApplyPlateToVehicle(coated, text, modelText, modelMesh)
            ELSE coated)

Redressed(s) ==
    LET coated == Coated(ApplyVehicleColors(SetEditableMaterials(WithExtras(s))))
        text == IF s.binding.text # None THEN s.binding.text ELSE s.binding.last
    IN  UpdateVehiclePlateVisibility(
            IF text # None THEN ApplyPlateToVehicle(coated, text, modelText, modelMesh)
            ELSE coated)
Reupgraded(s) ==
    IF s.car.wheel # None THEN AddVehicleUpgrade(s, s.car.wheel) ELSE s

\* CAutomobile::Fix (an external call) is followed by OnVehicleFixed.
OnVehicleFixed ==
    /\ There
    /\ IF binding.at # None THEN Become(Reupgraded(Redressed(Undamaged(Now))))
       ELSE Become([Now EXCEPT !.car.bumper = TRUE])
    /\ UNCHANGEDModel /\ UNCHANGED tasks

-----------------------------------------------------------------------------
(***************************************************************************)
(* A frame: the tasks, and Process.                                        *)
(***************************************************************************)
RunTask ==
    /\ tasks # <<>>
    /\ tasks' = Tail(tasks)
    /\ Become(IF There /\ Head(tasks)[1] = car.at
              THEN ApplyWheelToVehicle(Now, Head(tasks)[2])
              ELSE Now)
    /\ UNCHANGEDModel

\* A binding whose vehicle is gone.
Lost == [Now EXCEPT !.binding.at = None]

\* A vehicle that does not show its model yet: the new clump, its plate and
\* extras, the components, the wheels, the coats.
Renewed(s) ==
    SetEditableMaterials(
        [s EXCEPT !.look = Clone(TRUE), !.car.bumper = TRUE,
                  !.binding.resolved = IF s.binding.at # None THEN -999 ELSE @])
WithPlate(s) ==
    LET text  == EffectiveText(s, modelText)
        named == UpdateSampVehiclePlateText([s EXCEPT !.binding.last = text], text)
    IN  ApplyPlateToClump(named, text, EffectiveMesh(s, modelMesh))
Renewal ==
    LET shown  == WithExtras(WithPlate(Renewed(Now)))
        wheels == OwnWheel(Reupgraded(shown))
        noted  == [wheels EXCEPT !.binding.at = car.at, !.binding.colour = car.colour]
    IN  UpdateVehiclePlateVisibility(Coated(ApplyVehicleColors(noted)))

\* One that does: every eighth frame its colours, plate and wheels are
\* compared with what they should be.
Recoloured(s) ==
    LET noted  == [s EXCEPT !.binding.colour = s.car.colour]
        coated == Coated(ApplyVehicleColors(SetEditableMaterials(noted)))
    IN  IF s.binding.last # None
        THEN ApplyPlateToVehicle(coated, s.binding.last, modelText, modelMesh)
        ELSE coated
Checked(s) ==
    LET coloured == IF s.car.colour # s.binding.colour THEN Recoloured(s) ELSE s
        text     == EffectiveText(coloured, modelText)
        plated   == IF text # coloured.binding.last
                    THEN ApplyPlateToVehicle(coloured, text, modelText, modelMesh)
                    ELSE coloured
    IN  OwnWheel(UpdateVehiclePlateVisibility(plated))

\* due: the frame is the vehicle's turn.
Process(due) ==
    /\ binding.bound
    /\ Become(IF ~There THEN Lost
              ELSE IF ~Applied THEN Renewal
              ELSE IF due THEN Checked(Now)
              ELSE Now)
    /\ UNCHANGEDModel /\ UNCHANGED tasks

Game ==
    \/ \E a \in Addresses, c \in Colours, w \in Wheels \cup {None},
          t \in Texts \cup {SanAndreas, None} : Appear(a, c, w, t)
    \/ Disappear
    \/ \E c \in Colours : Recolour(c)
    \/ \E w \in Wheels : Tune(w)
    \/ Damage
    \/ OnVehicleFixed

Next ==
    \/ settings < MaxSettings /\ settings' = settings + 1 /\ Setting
    \/ (Bind \/ Unbind) /\ UNCHANGED settings
    \/ Game /\ UNCHANGED settings
    \/ RunTask /\ UNCHANGED settings
    \/ (\E due \in BOOLEAN : Process(due)) /\ UNCHANGED settings

Spec == Init /\ [][Next]_vars

-----------------------------------------------------------------------------
\* The type invariant.
TypeOK ==
    LET Set(S) == S \cup {None}
    IN  /\ binding \in
               [bound : BOOLEAN, at : Set(Addresses), paint : Paintjobs \cup {-1},
                resolved : Paintjobs \cup {-1, -2, -999}, texture : Set(Found),
                tint : Tints \cup {NoTint}, rims : WheelColours \cup {White},
                wheel : Set(Wheels), extras : Set(Extras), text : Set(Texts),
                last : Set(Texts \cup {SanAndreas}),
                mesh : Set(Meshes \cup {Disabled}), colour : Set(Colours)]
        /\ modelText \in Set(Texts) /\ modelMesh \in Set(Meshes \cup {Disabled})
        /\ samp \in Set(Texts \cup {SanAndreas})
        /\ car \in [at : Set(Addresses), colour : Set(Colours),
                    wheel : Set(Wheels), bumper : BOOLEAN]
        /\ look.custom \in BOOLEAN /\ look.seen \in BOOLEAN
        /\ look.mesh \in Set(Meshes)
        /\ tasks \in Seq(Addresses \X Set(Wheels)) /\ Len(tasks) <= MaxTasks
        /\ settings \in 0 .. MaxSettings
        /\ ~binding.bound => binding.at = None

\* A vehicle that shows its model wears what its binding asks for - livery,
\* tint, extras, plate mesh - whatever came in between: a new clump, a
\* repair, another colour, one coat after the other.
Dressed ==
    Applied =>
        /\ look.custom
        /\ look.texture = IF binding.paint \in Found THEN binding.paint ELSE Original
        /\ binding.tint # NoTint => look.glass = binding.tint
        /\ binding.extras # None => look.extras = binding.extras
        /\ binding.mesh # None =>
               look.mesh = IF binding.mesh = Disabled THEN None ELSE binding.mesh

\* Once a change of the vehicle's colours has been noticed, its body is white
\* under a livery and has the vehicle's colour without one.
BodyColour ==
    Applied /\ binding.colour = car.colour =>
        /\ binding.paint \in Found => look.body = White
        /\ binding.paint = -1 => look.body = car.colour

\* The plate shows what the binding remembers (lastPlateText), SA-MP has the
\* same text for its own plate, and a text a script has set wins over
\* the model's and SA-MP's whatever the order they come in.
PlateAgrees ==
    Applied =>
        /\ look.plate = binding.last /\ samp = binding.last
        /\ binding.text # None => look.plate = binding.text

\* A plate is never hidden on a vehicle that has its bumper.
PlateSeen == Applied /\ car.bumper => look.seen

\* A vehicle wears what its binding asks for, in its colours: no coat undoes
\* another.
DressedAndPainted == Dressed /\ BodyColour

\* The plate is there and says what it should (ApplyPlateToVehicle,
\* OnVehicleFixed).
PlateInOrder == PlateAgrees /\ PlateSeen

\* After a frame's look at a vehicle the next one finds nothing to do: colours,
\* text and wheels that were put on are remembered as they are compared, so
\* no plate is drawn and no wheel changed again every eighth frame.
CheckSettles ==
    [][Process(TRUE) /\ Applied' =>
           (/\ car.colour = binding.colour
            /\ EffectiveText(Now, modelText) = binding.last
            /\ OwnWheel(Now) = Now)']_vars

=============================================================================
