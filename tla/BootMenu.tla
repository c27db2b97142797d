------------------------------ MODULE BootMenu ------------------------------
(***************************************************************************)
(* The interactive menu of src/src/boot_menu.c and its built-in actions.   *)
(* It waits for keys without a limit: the timeout of the configuration is  *)
(* printed and not used.  A menu has at least one item.                    *)
(***************************************************************************)
EXTENDS Integers, Sequences

CONSTANTS
  Menus,     \* item lists: sequences of [action, enabled]
  DefaultItems   \* values of default_selection, from 0

Actions == {"none", "sd", "network", "usb", "info", "config", "shell"}

ASSUME MenuAssumption ==
  /\ Menus \subseteq Seq([action: Actions, enabled: BOOLEAN])
  /\ \A menu \in Menus : Len(menu) > 0
  /\ DefaultItems \subseteq Nat

VARIABLES
  items,
  selected,   \* from 0
  at,         \* "off", "menu", "escape", "up", "down", "failed", or in the
              \* action: "boot", "info", "config", "back" or "shell"
  direct,     \* the action was chosen by a digit: what it returns is returned
  inShell,    \* info and boot were called by the shell
  menu_result,   \* what boot_menu_run returned
  booted      \* ghost: the last action loaded something

menuVars == <<items, selected, at, direct, inShell, menu_result, booted>>

ItemCount == Len(items)
Item(i) == items[i + 1]

MenuInit ==
  /\ items \in Menus
  /\ selected = 0 /\ at = "off"
  /\ direct = FALSE /\ inShell = FALSE
  /\ menu_result = -1 /\ booted = FALSE

-----------------------------------------------------------------------------
(* The default may be disabled; a negative one is not caught by the code,  *)
(* and no caller has one.                                                  *)
boot_menu_run ==
  /\ at = "off"
  /\ \E d \in DefaultItems : selected' = IF d >= ItemCount THEN 0 ELSE d
  /\ at' = "menu"
  /\ menu_result' = -1 /\ booted' = FALSE
  /\ UNCHANGED <<items, direct, inShell>>

(* The keys k and j; an escape sequence, whose two characters may not come *)
(* in time or mean something else.                                         *)
PressMove ==
  /\ at = "menu"
  /\ at' \in {"up", "down", "escape"}
  /\ UNCHANGED <<items, selected, direct, inShell, menu_result, booted>>

EndEscape ==
  /\ at = "escape"
  /\ at' \in {"up", "down", "menu"}
  /\ UNCHANGED <<items, selected, direct, inShell, menu_result, booted>>

(* Mutant: the selection stops at the ends of the list.                    *)
MutNeighbour(i) ==
  IF at = "up" THEN (IF i = 0 THEN 0 ELSE i - 1) ELSE (IF i = ItemCount - 1 THEN i ELSE i + 1)

Neighbour(i) == IF at = "up" THEN (i - 1 + ItemCount) % ItemCount ELSE (i + 1) % ItemCount

(* A turn of the loop that skips disabled items.                           *)
Move ==
  /\ at \in {"up", "down"}
  /\ selected' = Neighbour(selected)
  /\ at' = IF Item(selected').enabled THEN "menu" ELSE at
  /\ UNCHANGED <<items, direct, inShell, menu_result, booted>>

Entry(action) ==
  CASE action \in {"sd", "network", "usb"} -> "boot"
    [] action = "none" -> "menu"
    [] OTHER -> action

PressEnter ==
  /\ at = "menu"
  /\ at' = Entry(Item(selected).action)
  /\ direct' = FALSE
  /\ UNCHANGED <<items, selected, inShell, menu_result, booted>>

PressDigit ==
  /\ at = "menu"
  /\ \E i \in 0 .. (ItemCount - 1) :
       /\ i < 9 /\ Item(i).enabled
       /\ selected' = i
       /\ at' = Entry(Item(i).action)
  /\ direct' = TRUE
  /\ UNCHANGED <<items, inShell, menu_result, booted>>

-----------------------------------------------------------------------------
(* What an action returns: by Enter success returns the selection, and     *)
(* failure the menu after a key; by a digit either is returned as it is.   *)
Finish(result) ==
  /\ booted' = (result = 0)
  /\ inShell' = FALSE
  /\ IF direct \/ result = 0
     THEN at' = "off" /\ menu_result' = IF direct THEN result ELSE selected
     ELSE at' = "failed" /\ UNCHANGED menu_result

(* boot_menu_action_sd_boot, _network_boot, _usb_boot.  The network action *)
(* fails at DHCP (AddressConfig).                                          *)
BootAction ==
  /\ at = "boot"
  /\ \E result \in {0, -1} :
       /\ Item(selected).action = "network" /\ ~inShell => result = -1
       /\ Finish(result)
  /\ UNCHANGED <<items, selected, direct>>

(* Any key: after boot_menu_action_show_info, and at the end of the        *)
(* configuration menu.                                                     *)
AnyKey ==
  /\ at \in {"info", "back"}
  /\ IF inShell
     THEN at' = "shell" /\ UNCHANGED <<inShell, menu_result, booted>>
     ELSE Finish(-1)
  /\ UNCHANGED <<items, selected, direct>>

(* boot_menu_action_config: option 4 returns at once.                      *)
ConfigOption ==
  /\ at = "config"
  /\ \/ at' = "back" /\ UNCHANGED <<inShell, menu_result, booted>>
     \/ Finish(-1)
  /\ UNCHANGED <<items, selected, direct>>

(* boot_menu_action_shell: info, boot, exit; another command, or none,     *)
(* prompts again.                                                          *)
ShellCommand ==
  /\ at = "shell"
  /\ \/ at' \in {"info", "boot"} /\ inShell' = TRUE /\ UNCHANGED <<menu_result, booted>>
     \/ Finish(-1)
  /\ UNCHANGED <<items, selected, direct>>

Redisplay ==
  /\ at = "failed"
  /\ at' = "menu"
  /\ UNCHANGED <<items, selected, direct, inShell, menu_result, booted>>

MenuNext ==
  \/ boot_menu_run
  \/ PressMove \/ EndEscape \/ Move \/ PressEnter \/ PressDigit
  \/ BootAction \/ AnyKey \/ ConfigOption \/ ShellCommand \/ Redisplay

(* Moving the selection waits for nobody.                                  *)
MenuFairness == WF_menuVars(Move)
MenuSpec == MenuInit /\ [][MenuNext]_menuVars /\ MenuFairness

-----------------------------------------------------------------------------
MenuTypeOK ==
  /\ items \in Menus /\ selected \in 0 .. (ItemCount - 1)
  /\ at \in {"off", "menu", "escape", "up", "down", "failed", "boot", "info", "config", "back",
             "shell"}
  /\ direct \in BOOLEAN /\ inShell \in BOOLEAN /\ booted \in BOOLEAN
  /\ menu_result \in -1 .. (ItemCount - 1)

(* The selection finds an enabled item, wherever it starts and however     *)
(* many disabled ones lie between, if there is one at all.                 *)
MoveEnds ==
  (at \in {"up", "down"} /\ \E i \in 0 .. (ItemCount - 1) : Item(i).enabled)
    ~> (at = "menu" /\ Item(selected).enabled)
=============================================================================
