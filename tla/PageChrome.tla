------------------------------ MODULE PageChrome ------------------------------
(***************************************************************************)
(* The page's frame (02-theme.js): the theme and the pinned rail, kept in  *)
(* the browser's store; the names it writes on the navigation, said again  *)
(* when the observer of the navigation runs; and the pill, which follows   *)
(* the card that is shown.  An observer runs after the handler that moved  *)
(* what it watches has ended.                                              *)
(***************************************************************************)
EXTENDS Naturals, FiniteSets

CONSTANTS
  ChromeTongues,        \* languages
  CardIds,        \* cards of the app, status among them
  ChromeActs      \* bound: what the reader does

\* core.js speaks English until the store says otherwise
ASSUME ChromeAssumption == "status" \in CardIds /\ "en" \in ChromeTongues /\ ChromeActs \in Nat

VARIABLES
  stored,         \* the browser's store: theme, rail, language
  storeOpen,      \* the browser lets the page keep things
  themePref,      \* g_theme_pref
  themeShown,     \* body's class, segment checked, button's icon
  railPinned,     \* the rail wears max
  chromeTongue,         \* g_language
  names,          \* the language of the names: items, rail, button
  activeCard,     \* the card that is active
  pillStill,      \* the pill is disabled
  observed,       \* observers to run: "names", "cards"
  chromeActs

chromeNames == <<chromeTongue, names>>
chromeTheme == <<themePref, themeShown>>
chromeVars == <<stored, storeOpen, chromeTheme, railPinned, chromeNames, activeCard, pillStill, observed, chromeActs>>

Prefs == <<"auto", "light", "dark">>
PrefSet == {Prefs[i] : i \in 1..3}
NamePlaces == {"items", "rail", "button"}
Unset == "unset"

\* only light and dark are ever put on the body
BodyClass(p) == IF p = "auto" THEN {} ELSE {p}
Painted(p) == [body |-> BodyClass(p), segment |-> p, icon |-> p]

\* theme_read_store, nav_read_store; core.js reads ps_lang
ThemeRead(s) == IF s.theme \in PrefSet THEN s.theme ELSE "light"
PinRead(s) == s.rail = "max"
TongueRead(s) == IF s.tongue \in ChromeTongues THEN s.tongue ELSE "en"

-----------------------------------------------------------------------------
\* the body's class is set before the document is read, the rest after
Loads(s) ==
  /\ themePref' = ThemeRead(s) /\ themeShown' = Painted(themePref')
  /\ railPinned' = PinRead(s)
  /\ chromeTongue' = TongueRead(s) /\ names' = [n \in NamePlaces |-> TongueRead(s)]
  /\ activeCard' = "status" /\ pillStill' = TRUE /\ observed' = {}

ChromeInit ==
  /\ stored \in [theme : PrefSet \cup {Unset}, rail : {Unset, "max"}, tongue : ChromeTongues \cup {Unset}]
  /\ storeOpen \in BOOLEAN /\ (~storeOpen => stored = [theme |-> Unset, rail |-> Unset, tongue |-> Unset])
  /\ themePref = ThemeRead(stored) /\ themeShown = Painted(themePref)
  /\ railPinned = PinRead(stored)
  /\ chromeTongue = TongueRead(stored) /\ names = [n \in NamePlaces |-> chromeTongue]
  /\ activeCard = "status" /\ pillStill = TRUE /\ observed = {} /\ chromeActs = 0

\* an observer's turn comes before the reader's
ChromeActing == observed = {} /\ chromeActs < ChromeActs /\ chromeActs' = chromeActs + 1 /\ UNCHANGED storeOpen

\* chrome_store_set: a store that refuses is silent
Keeps(key, v) == stored' = IF storeOpen THEN [stored EXCEPT ![key] = v] ELSE stored

\* theme_paint
ThemePaint(p) == themeShown' = Painted(p)

\* theme_choose; the button's name is said in the language of the page
ThemeChoose(p) == themePref' = p /\ Keeps("theme", p) /\ ThemePaint(p)

ChoosesTheme ==
  /\ ChromeActing /\ \E p \in PrefSet : ThemeChoose(p)
  /\ names' = [names EXCEPT !["button"] = chromeTongue]
  /\ UNCHANGED <<railPinned, chromeTongue, activeCard, pillStill, observed>>

\* theme_advance
ThemeAdvance ==
  /\ ChromeActing
  /\ \E i \in 1..3 : Prefs[i] = themePref /\ ThemeChoose(Prefs[(i % 3) + 1])
  /\ names' = [names EXCEPT !["button"] = chromeTongue]
  /\ UNCHANGED <<railPinned, chromeTongue, activeCard, pillStill, observed>>

\* theme_watch_system
SystemTurns ==
  /\ themePref = "auto" /\ ThemePaint("auto")
  /\ names' = [names EXCEPT !["button"] = chromeTongue]
  /\ UNCHANGED <<stored, storeOpen, themePref, railPinned, chromeTongue, activeCard, pillStill, observed, chromeActs>>

\* nav_pin_toggle
NavPinToggle ==
  /\ ChromeActing /\ railPinned' = ~railPinned /\ Keeps("rail", IF railPinned' THEN "max" ELSE Unset)
  /\ names' = [names EXCEPT !["rail"] = chromeTongue]
  /\ UNCHANGED <<chromeTheme, chromeTongue, activeCard, pillStill, observed>>

\* set_language: apply_translations writes the navigation's words
SetLanguage ==
  /\ ChromeActing /\ \E t \in ChromeTongues \ {chromeTongue} : chromeTongue' = t /\ Keeps("tongue", t)
  /\ observed' = observed \cup {"names"}
  /\ UNCHANGED <<chromeTheme, railPinned, names, activeCard, pillStill>>

\* chrome_names_sync
NamesSync == names' = [n \in NamePlaces |-> chromeTongue]

NamesObserved ==
  /\ "names" \in observed /\ observed' = observed \ {"names"} /\ NamesSync
  /\ UNCHANGED <<stored, storeOpen, chromeTheme, railPinned, chromeTongue, activeCard, pillStill, chromeActs>>

\* show_card: by click, by key or by a first state's landing; pill_go_status
ShowCard ==
  /\ ChromeActing /\ \E c \in CardIds : activeCard' = c
  /\ observed' = observed \cup (IF activeCard' # activeCard THEN {"cards"} ELSE {})
  /\ UNCHANGED <<stored, chromeTheme, railPinned, chromeNames, pillStill>>

PillGoStatus ==
  /\ ChromeActing /\ ~pillStill /\ activeCard' = "status" /\ observed' = observed \cup {"cards"}
  /\ UNCHANGED <<stored, chromeTheme, railPinned, chromeNames, pillStill>>

\* pill_sync
PillSync == pillStill' = (activeCard = "status")

CardsObserved ==
  /\ "cards" \in observed /\ observed' = observed \ {"cards"} /\ PillSync
  /\ UNCHANGED <<stored, storeOpen, chromeTheme, railPinned, chromeNames, activeCard, chromeActs>>

ChromeReload == ChromeActing /\ Loads(stored) /\ UNCHANGED stored

ChromeNext ==
  \/ ChoosesTheme \/ ThemeAdvance \/ SystemTurns \/ NavPinToggle
  \/ SetLanguage \/ NamesObserved \/ ShowCard \/ PillGoStatus \/ CardsObserved \/ ChromeReload

ChromeSpec == ChromeInit /\ [][ChromeNext]_chromeVars

-----------------------------------------------------------------------------
(* Properties.                                                              *)

\* Every variable holds a value of its kind.
ChromeTypeOK ==
  /\ stored \in [theme : PrefSet \cup {Unset}, rail : {Unset, "max"}, tongue : ChromeTongues \cup {Unset}]
  /\ themePref \in PrefSet /\ themeShown.body \subseteq {"light", "dark"}
  /\ chromeTongue \in ChromeTongues /\ names \in [NamePlaces -> ChromeTongues]
  /\ activeCard \in CardIds /\ observed \subseteq {"names", "cards"}
  /\ {storeOpen, railPinned, pillStill} \subseteq BOOLEAN

\* Everything that shows the theme shows the same one, and a reload would show
\* it again: the class, the segment, the icon and what was stored
\* (02-theme.js, theme_choose and theme_read_store).
ThemeAgrees ==
  /\ themeShown.body = BodyClass(themePref) /\ themeShown.segment = themePref /\ themeShown.icon = themePref
  /\ storeOpen => ThemeRead(stored) = themePref /\ PinRead(stored) = railPinned

\* With the observers run, every name this module wrote is in the language of
\* the page, the ones written at another time among them (chrome_names_watch).
NamesSpeak == "names" \notin observed => \A n \in NamePlaces : names[n] = chromeTongue

\* With the observers run the pill is still on the Status card and nowhere else,
\* whichever way the reader came there (pill_watch).
PillFollows == "cards" \notin observed => (pillStill <=> activeCard = "status")
=============================================================================
