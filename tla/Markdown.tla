------------------------------ MODULE Markdown ------------------------------
(***************************************************************************)
(* Rendered text: the theme, the code blocks that the shared highlighter   *)
(* colours when it has loaded their language and the theme, and the images *)
(* that are fetched once for all texts.                                    *)
(*                                                                         *)
(* A text is rendered as a whole, again whenever the theme or the          *)
(* highlightVersion changes.  Each has one code block and one image; the   *)
(* sanitizer and the copy buttons are left out.                            *)
(***************************************************************************)
EXTENDS Integers, FiniteSets

CONSTANTS
  Texts,
  LangOf,      \* the language of the code block of a text
  ImageOf,     \* the URL of its image
  Themes,
  DefaultTheme,
  MaxTextActs, \* bound: texts that open or close, themes that are picked
  MaxTextFaults

ASSUME MarkdownAssumption ==
  /\ DefaultTheme \in Themes /\ MaxTextActs \in Nat /\ MaxTextFaults \in Nat

VARIABLES
  theme, loadingTheme,
  hasHighlighter, langs, themes,           \* what the shared highlighter has loaded
  requested, unavailable,                  \* inFlight and unavailable, by language and theme
  code, slot,                              \* of each text: its block and its image as rendered
  images, fetching,                        \* cache and inflight
  textActs, textFaults

themeVars     == <<theme, loadingTheme>>
highlightVars == <<hasHighlighter, langs, themes, requested, unavailable>>
imageVars     == <<images, fetching>>
textVars == <<themeVars, highlightVars, imageVars, code, slot, textActs, textFaults>>

Langs == {LangOf[x] : x \in Texts}
Pairs == Langs \X Themes
Urls  == {ImageOf[x] : x \in Texts}

TextTypeOK ==
  /\ theme \in Themes /\ loadingTheme \in BOOLEAN
  /\ hasHighlighter \in BOOLEAN /\ langs \subseteq Langs /\ themes \subseteq Themes
  /\ requested \subseteq Pairs /\ unavailable \subseteq Pairs
  /\ code \in [Texts -> {"closed", "plain"} \cup Themes]
  /\ slot \in [Texts -> {"closed", "skeleton", "image", "raw"}]
  /\ images \subseteq Urls /\ fetching \subseteq Urls \ images
  /\ textActs \in 0..MaxTextActs /\ textFaults \in 0..MaxTextFaults

TextInit ==
  /\ theme = DefaultTheme /\ loadingTheme = TRUE
  /\ hasHighlighter = FALSE /\ langs = {} /\ themes = {} /\ requested = {} /\ unavailable = {}
  /\ code = [x \in Texts |-> "closed"] /\ slot = [x \in Texts |-> "closed"]
  /\ images = {} /\ fetching = {}
  /\ textActs = 0 /\ textFaults = 0

TextAct   == textActs < MaxTextActs /\ textActs' = textActs + 1 /\ UNCHANGED textFaults
TextFault == textFaults < MaxTextFaults /\ textFaults' = textFaults + 1 /\ UNCHANGED textActs
Free      == UNCHANGED <<textActs, textFaults>>

-----------------------------------------------------------------------------
Open == {x \in Texts : code[x] # "closed"}

\* highlightCode, for what the highlighter will have; null leaves the block plain.
Coloured(x, th) == IF hasHighlighter' /\ LangOf[x] \in langs' /\ th \in themes' THEN th ELSE "plain"

\* request, for every block that stays plain; not twice, and not for what is unavailable.
Requests(xs, th) ==
  {<<LangOf[x], th>> : x \in {y \in xs : Coloured(y, th) = "plain"}} \ unavailable'

\* The texts xs are rendered: their html, and then their images, which are there at once,
\* or are fetched and hold their place.
Render(xs, th, urls) ==
  /\ code' = [x \in Texts |-> IF x \in xs THEN Coloured(x, th) ELSE code[x]]
  /\ slot' = [x \in Texts |-> IF x \notin xs THEN slot[x]
                              ELSE IF ImageOf[x] \in urls THEN "image" ELSE "skeleton"]
  /\ fetching' = fetching \cup ({ImageOf[x] : x \in xs} \ urls)

SameHighlighter == UNCHANGED <<hasHighlighter, langs, themes, unavailable>>

\* A thread or the description is opened or closed.
OpenText(x) ==
  /\ x \notin Open
  /\ SameHighlighter
  /\ Render({x}, theme, images) /\ requested' = requested \cup Requests({x}, theme)
  /\ UNCHANGED <<themeVars, images>> /\ TextAct

CloseText(x) ==
  /\ x \in Open
  /\ code' = [code EXCEPT ![x] = "closed"] /\ slot' = [slot EXCEPT ![x] = "closed"]
  /\ UNCHANGED <<themeVars, highlightVars, imageVars>> /\ TextAct

-----------------------------------------------------------------------------
(* The theme *)

Apply(th) ==
  /\ theme' = th
  /\ SameHighlighter
  /\ IF th = theme THEN UNCHANGED <<code, slot, fetching, requested>>
     ELSE Render(Open, th, images) /\ requested' = requested \cup Requests(Open, th)
  /\ UNCHANGED images

\* The PUT is not waited for, and this page never reads what it saves.
SetTheme(th) == Apply(th) /\ UNCHANGED loadingTheme /\ TextAct

\* loadTheme, once: the theme that is saved is applied when the answer is there, although
\* another may have been set since.
ThemeLoaded(th) ==
  /\ loadingTheme /\ loadingTheme' = FALSE
  /\ Apply(th) /\ Free

ThemeFailed ==
  /\ loadingTheme /\ loadingTheme' = FALSE
  /\ UNCHANGED <<theme, highlightVars, imageVars, code, slot>> /\ TextFault

-----------------------------------------------------------------------------
(* The highlighter and the images *)

\* getSharedHighlighter: the language and the theme are loaded, highlightVersion grows,
\* everything open is rendered, and then the request is forgotten.  And as if the version
\* were left as it is.
LoadedSilently(pair) ==
  /\ pair \in requested
  /\ hasHighlighter' = TRUE /\ langs' = langs \cup {pair[1]} /\ themes' = themes \cup {pair[2]}
  /\ requested' = requested \ {pair}
  /\ UNCHANGED <<unavailable, themeVars, imageVars, code, slot>> /\ Free

LanguageLoaded(pair) ==
  /\ pair \in requested
  /\ hasHighlighter' = TRUE /\ langs' = langs \cup {pair[1]} /\ themes' = themes \cup {pair[2]}
  /\ UNCHANGED unavailable
  /\ Render(Open, theme, images)
  /\ requested' = (requested \cup Requests(Open, theme)) \ {pair}
  /\ UNCHANGED <<themeVars, images>> /\ Free

\* No such language, or nothing fetched: never asked for again, and nothing is rendered.
LanguageFailed(pair) ==
  /\ pair \in requested /\ requested' = requested \ {pair}
  /\ unavailable' = unavailable \cup {pair}
  /\ UNCHANGED <<hasHighlighter, langs, themes, themeVars, imageVars, code, slot>> /\ TextFault

\* The slots that wait for an image get it, and the image itself when it cannot be had.
Waiting(u) == {x \in Texts : slot[x] = "skeleton" /\ ImageOf[x] = u}
Filled(u, with) == slot' = [x \in Texts |-> IF x \in Waiting(u) THEN with ELSE slot[x]]

ImageLoaded(u) ==
  /\ u \in fetching /\ fetching' = fetching \ {u} /\ images' = images \cup {u}
  /\ Filled(u, "image")
  /\ UNCHANGED <<themeVars, highlightVars, code>> /\ Free

ImageFailed(u) ==
  /\ u \in fetching /\ fetching' = fetching \ {u}
  /\ Filled(u, "raw")
  /\ UNCHANGED <<themeVars, highlightVars, images, code>> /\ TextFault

TextAnswer ==
  \/ ThemeFailed \/ \E th \in Themes : ThemeLoaded(th)
  \/ \E pair \in requested : LanguageLoaded(pair) \/ LanguageFailed(pair)
  \/ \E u \in fetching : ImageLoaded(u) \/ ImageFailed(u)

TextNext ==
  \/ \E x \in Texts : OpenText(x) \/ CloseText(x)
  \/ \E th \in Themes : SetTheme(th)
  \/ TextAnswer

-----------------------------------------------------------------------------
\* Every text that stays open ends up in the theme that is set, unless its language is
\* unavailable, and with its image or the browser's own attempt at it, however themes,
\* languages and images are loaded in between.  highlight.ts, images.ts, Markdown.tsx.
TextsSettle ==
  <>[](\A x \in Open :
         /\ code[x] = theme \/ <<LangOf[x], theme>> \in unavailable
         /\ slot[x] # "skeleton")
=============================================================================
