-------------------------- MODULE SetupPanels --------------------------
(****************************************************************************)
(* The pages of the setup that edit the settings in place: the columns of   *)
(* the list, the colours and the display options (ColumnsPanel.c,           *)
(* AvailableColumnsPanel.c, ColorsPanel.c, DisplayOptionsPanel.c,           *)
(* OptionItem.c).  A page is made anew whenever its category is selected.   *)
(* After each edit of the columns the settings' fields are rebuilt from     *)
(* the items, and with them the flags that tell the scan which files of a   *)
(* process it has to read.                                                  *)
(****************************************************************************)
EXTENDS Integers, Sequences, FiniteSets, Community

CONSTANTS
    FieldFlags,      \* key of a column of the process table |-> its flags
    DynamicKeys,     \* keys of the columns of the configuration
    FirstFields,     \* the columns the settings may begin with
    Schemes,         \* the number of colour schemes, of which the second is monochrome
    Numbers,         \* option |-> [min, max, first]: first are the values it may begin with
    MaxColumns,      \* bound: columns shown
    MaxSetupSteps    \* bound: pages and keys

ASSUME SetupPanelsAssumption ==
    /\ FirstFields \subseteq Seq(DOMAIN FieldFlags \cup DynamicKeys)
    /\ DynamicKeys \cap DOMAIN FieldFlags = {}
    /\ Schemes \in Nat \ {0, 1} /\ MaxColumns \in Nat /\ MaxSetupSteps \in Nat
    /\ \A o \in DOMAIN Numbers : Numbers[o].min \in Int /\ Numbers[o].max \in Int

VARIABLES
    shownFields,     \* settings->fields
    fieldFlags,      \* settings->flags
    scheme,          \* settings->colorScheme
    crtScheme,       \* CRT_colorScheme
    hasColors,       \* has_colors() of the terminal
    numbers,         \* the options that are numbers
    checks,          \* those that are switched on
    edited,          \* settings->changed
    setupPage,       \* "none", "columns", "colors", "options"
    columnItems,     \* the items of the columns panel: [key, moving]
    columnSelected,  \* counted from 0
    columnMoving,    \* ColumnsPanel.moving
    colorMarks,      \* the marks of the colours panel
    setupSteps

columnVars == <<columnItems, columnSelected, columnMoving, shownFields, fieldFlags>>
colorVars == <<scheme, crtScheme, hasColors, colorMarks>>
optionVars == <<numbers, checks>>
setupVars == <<columnVars, colorVars, optionVars, edited, setupPage, setupSteps>>

Checks == {"treeView", "headerMargin"}
Monochrome == 1

\* The scheme htop begins with: that of the settings, if the terminal has colours.
CRT_init(s, colors) == IF colors THEN s ELSE Monochrome

FlagsOf(keys) == UNION {FieldFlags[keys[i]] : i \in {j \in DOMAIN keys : keys[j] \notin DynamicKeys}}

SetupInit ==
    /\ shownFields \in FirstFields
    /\ fieldFlags = UNION {FieldFlags[shownFields[i]] : i \in {j \in DOMAIN shownFields : shownFields[j] \notin DynamicKeys}}
    /\ scheme \in 0 .. Schemes - 1 /\ hasColors \in BOOLEAN /\ crtScheme = CRT_init(scheme, hasColors)
    /\ numbers \in [DOMAIN Numbers -> UNION {Numbers[o].first : o \in DOMAIN Numbers}]
    /\ \A o \in DOMAIN Numbers : numbers[o] \in Numbers[o].first
    /\ checks = {} /\ edited = FALSE /\ setupPage = "none"
    /\ columnItems = <<>> /\ columnSelected = 0 /\ columnMoving = FALSE /\ colorMarks = {}
    /\ setupSteps = 0

SetupStep == setupSteps < MaxSetupSteps /\ setupSteps' = setupSteps + 1

Keys(items) == [i \in DOMAIN items |-> items[i].key]

\* CategoriesPanel_eventHandler: the panels of the last page are deleted, those of the new one made
ShowPage ==
    /\ SetupStep
    /\ setupPage' \in {"columns", "colors", "options"} /\ setupPage' # setupPage
    /\ columnItems' = IF setupPage' = "columns" THEN [i \in DOMAIN shownFields |-> [key |-> shownFields[i], moving |-> FALSE]]
                      ELSE <<>>
    /\ columnSelected' = 0 /\ columnMoving' = FALSE
    /\ colorMarks' = IF setupPage' = "colors" THEN {scheme} ELSE {}
    /\ UNCHANGED <<shownFields, fieldFlags, scheme, crtScheme, hasColors, optionVars, edited>>

-----------------------------------------------------------------------------
(* The columns *)

Size == Len(columnItems)
At == columnSelected + 1

OnColumns == SetupStep /\ setupPage = "columns" /\ UNCHANGED <<colorVars, optionVars, setupPage>>

ColumnsPanel_update(items) ==
    /\ columnItems' = items
    /\ shownFields' = Keys(items)
    /\ fieldFlags' = FlagsOf(Keys(items))
    /\ edited' = TRUE

\* Keys that only move the cursor, which an item that is being moved does not follow; the same by typing a name
SelectColumn ==
    /\ OnColumns /\ Size > 0
    /\ columnSelected' \in 0 .. Size - 1
    /\ \/ UNCHANGED <<columnItems, shownFields, fieldFlags, edited>>
       \/ ColumnsPanel_update(columnItems)
    /\ UNCHANGED columnMoving

\* Enter, or a click, which selects the item first
MoveOrDrop ==
    \E i \in 0 .. Size - 1 :
        /\ OnColumns
        /\ columnSelected' = i
        /\ IF i < Size - 1
           THEN /\ columnMoving' = ~columnMoving
                /\ ColumnsPanel_update([columnItems EXCEPT ![i + 1].moving = ~columnMoving])
           ELSE UNCHANGED <<columnMoving, columnItems, shownFields, fieldFlags, edited>>

Exchanged(i, j) == [columnItems EXCEPT ![i] = columnItems[j], ![j] = columnItems[i]]

\* F7, '[' and '-'; the arrow while an item is being moved
MoveColumnUp ==
    /\ OnColumns
    /\ IF columnSelected < Size - 1 /\ columnSelected > 0
       THEN ColumnsPanel_update(Exchanged(At, At - 1)) /\ columnSelected' = columnSelected - 1
       ELSE ColumnsPanel_update(columnItems) /\ UNCHANGED columnSelected
    /\ UNCHANGED columnMoving

\* Mutant: an item may change places with the last one
MoveColumnDown_Last ==
    /\ OnColumns
    /\ IF columnSelected < Size - 1
       THEN ColumnsPanel_update(Exchanged(At, At + 1)) /\ columnSelected' = columnSelected + 1
       ELSE ColumnsPanel_update(columnItems) /\ UNCHANGED columnSelected
    /\ UNCHANGED columnMoving

\* F8, ']' and '+'; the arrow while an item is being moved
MoveColumnDown ==
    /\ OnColumns
    /\ IF columnSelected < Size - 2
       THEN ColumnsPanel_update(Exchanged(At, At + 1)) /\ columnSelected' = columnSelected + 1
       ELSE ColumnsPanel_update(columnItems) /\ UNCHANGED columnSelected
    /\ UNCHANGED columnMoving

RemoveColumn ==
    /\ OnColumns
    /\ IF columnSelected < Size - 1
       THEN LET items == SX!RemoveAt(columnItems, At)
            IN /\ ColumnsPanel_update(items)
               /\ columnSelected' = IF columnSelected > 0 /\ columnSelected >= Len(items)
                                    THEN columnSelected - 1 ELSE columnSelected
       ELSE ColumnsPanel_update(columnItems) /\ UNCHANGED columnSelected
    /\ UNCHANGED columnMoving

\* AvailableColumnsPanel: F5 or Enter puts a column before the selected one
AddColumn ==
    \E key \in DOMAIN FieldFlags \cup DynamicKeys :
        /\ OnColumns
        /\ Size < MaxColumns
        /\ LET items == SX!InsertAt(columnItems, At, [key |-> key, moving |-> FALSE])
           IN /\ ColumnsPanel_update(items)
              /\ columnSelected' = FX!Min({columnSelected + 1, Len(items) - 1})
        /\ UNCHANGED columnMoving

-----------------------------------------------------------------------------
(* The colours and the options *)

ChooseColors ==
    \E mark \in 0 .. Schemes - 1 :
        /\ SetupStep /\ setupPage = "colors"
        /\ colorMarks' = {mark} /\ scheme' = mark /\ crtScheme' = mark /\ edited' = TRUE
        /\ UNCHANGED <<columnVars, hasColors, optionVars, setupPage>>

ClampTo(x, min, max) == IF x > max THEN max ELSE IF x > min THEN x ELSE min

\* NumberItem_decrease, NumberItem_increase, NumberItem_toggle
NumberItem_decrease(o, x) == ClampTo(x - 1, Numbers[o].min, Numbers[o].max)
NumberItem_increase(o, x) == ClampTo(x + 1, Numbers[o].min, Numbers[o].max)
NumberItem_toggle(o, x) == IF x >= Numbers[o].max THEN Numbers[o].min ELSE x + 1

OnOptions == SetupStep /\ setupPage = "options" /\ edited' = TRUE /\ UNCHANGED <<columnVars, colorVars, setupPage>>

ChangeNumber ==
    \E o \in DOMAIN Numbers :
        /\ OnOptions
        /\ numbers' \in {[numbers EXCEPT ![o] = NumberItem_decrease(o, @)],
                         [numbers EXCEPT ![o] = NumberItem_increase(o, @)],
                         [numbers EXCEPT ![o] = NumberItem_toggle(o, @)]}
        /\ UNCHANGED checks

CheckItem_toggle ==
    \E o \in Checks : OnOptions /\ checks' = FX!SymDiff(checks, {o}) /\ UNCHANGED numbers

LeaveSetup ==
    /\ SetupStep /\ setupPage # "none" /\ setupPage' = "none"
    /\ columnItems' = <<>> /\ columnSelected' = 0 /\ columnMoving' = FALSE /\ colorMarks' = {}
    /\ UNCHANGED <<shownFields, fieldFlags, scheme, crtScheme, hasColors, optionVars, edited>>

SetupNext ==
    \/ ShowPage \/ SelectColumn \/ MoveOrDrop \/ MoveColumnUp \/ MoveColumnDown \/ RemoveColumn \/ AddColumn
    \/ ChooseColors \/ ChangeNumber \/ CheckItem_toggle \/ LeaveSetup

SetupSpec == SetupInit /\ [][SetupNext]_setupVars

-----------------------------------------------------------------------------
(* Properties *)

(****************************************************************************)
(* The settings are what the pages show, whatever keys were pressed on      *)
(* them: the fields are the items of the columns panel in their order, the  *)
(* cursor is on one of them, and the flags are those of the columns shown,  *)
(* so that the scan neither reads files for columns that are gone nor       *)
(* leaves out those of columns that were added; one scheme is marked, that  *)
(* of the settings, which is the one in use unless the terminal has no      *)
(* colours; and a number that was in its range stays there.                 *)
(* (ColumnsPanel.c:34-111, 159-172, AvailableColumnsPanel.c:44-72,          *)
(*  ColorsPanel.c:49-79, CRT.c:932-934, OptionItem.c:163-191)               *)
(****************************************************************************)
SettingsShown ==
    /\ fieldFlags = UNION {FieldFlags[k] : k \in SX!ToSet(shownFields) \ DynamicKeys}
    /\ setupPage = "columns" =>
          /\ Keys(columnItems) = shownFields
          /\ columnSelected < Len(columnItems) \/ columnItems = <<>>
    /\ setupPage = "colors" => colorMarks = {scheme}
    /\ crtScheme = scheme \/ (crtScheme = Monochrome /\ ~hasColors)
    /\ \A o \in DOMAIN Numbers :
          Numbers[o].first \subseteq Numbers[o].min .. Numbers[o].max => numbers[o] \in Numbers[o].min .. Numbers[o].max

(****************************************************************************)
(* The last column, which is the command and takes the rest of the line, is *)
(* neither moved nor removed, and no column is put behind it: whichever     *)
(* items were selected, moved, removed and added before.                    *)
(* (ColumnsPanel.c:48, 69, 85, 93, AvailableColumnsPanel.c:57-59)           *)
(****************************************************************************)
LastColumnStays ==
    [][shownFields # <<>> => shownFields' # <<>> /\ SX!Last(shownFields') = SX!Last(shownFields)]_setupVars

(****************************************************************************)
(* The scheme in use and that of the settings change together, to the one   *)
(* that was chosen: a terminal without colours leaves the settings alone,   *)
(* and from the first choice on the marked scheme is the one in use there   *)
(* too.  (ColorsPanel.c:69-72, CRT.c:932-934)                               *)
(****************************************************************************)
ChosenIsUsed ==
    [][crtScheme' # crtScheme \/ scheme' # scheme => crtScheme' = scheme' /\ colorMarks' = {scheme'} /\ edited']_setupVars

(****************************************************************************)
(* All: the settings are what the pages show, the command stays last, and   *)
(* the colours that are chosen are used.                                    *)
(****************************************************************************)
SetupSound == []SettingsShown /\ LastColumnStays /\ ChosenIsUsed
=============================================================================
