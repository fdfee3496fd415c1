---------------------------- MODULE MarketingMotion ----------------------------
(***************************************************************************)
(* The reveal animations of the marketing site.  Each section component   *)
(* (Hero, SignalStrip, Features, ProductStory, EdgeMap, FinalCTA, Pricing) *)
(* runs an effect that builds gsap tweens inside a gsap.context and        *)
(* returns a cleanup that reverts the context (Features through useGSAP,   *)
(* which does the same); the route template runs one fromTo tween and     *)
(* returns no cleanup.  A tween hides the section's content and then       *)
(* reveals it, at once or when ScrollTrigger sees the section enter.       *)
(*                                                                         *)
(* What is kept is what decides whether the content ends up visible: the  *)
(* rendered autoAlpha (0 or 1), the tweens of the element with their end   *)
(* value and progress, the infinite pulse of EdgeMap, and ScrollTrigger's  *)
(* view of the section.  gsap semantics used:                              *)
(*   - from(vars) tweens from vars to the values the element has when the  *)
(*     tween is created, and renders vars at once;                         *)
(*   - ScrollTrigger calls onEnter, onLeave, onEnterBack, onLeaveBack as   *)
(*     the page scrolls past the trigger's start and end, and does to the  *)
(*     tween what toggleActions name for that callback (default "play      *)
(*     none none none"); created past its start it catches up at once;     *)
(*   - fromTo renders its start at once and tweens to its explicit end;    *)
(*   - context.revert() kills the context's tweens and restores the values *)
(*     the element had before the context ran;                             *)
(*   - tweens of one element with the same duration finish in the order    *)
(*     they were created, the last one's value being the one left.         *)
(* The sections share no state, so a behaviour follows one section, fixed  *)
(* at Init; a development build (React StrictMode) runs every effect,      *)
(* its cleanup and the effect again on mount.                              *)
(***************************************************************************)
EXTENDS Naturals, Sequences, FiniteSets

CONSTANTS
    Sections,   \* the sections a run follows, a subset of Reveal's domain
    MaxMounts,  \* mounts of the section in a behaviour
    Offsets,    \* pointer offsets from the button's centre, times strength
    MaxMoves    \* pointer entries and moves over the button per mount

VARIABLES
    sec,        \* the section this behaviour follows
    dev,        \* a development build: StrictMode double-invokes effects
    mounted,    \* the section is mounted
    mounts,     \* mounts so far
    scroll,     \* the page's place along the stacked trigger ranges (Side)
    els,        \* per trigger target, its element: [shown, tweens, pulse, saved]
    orphans,    \* finite tweens still running on unmounted elements
    orphanPulse,\* an infinite tween still running on an unmounted element
    annual,     \* Pricing's annual toggle state
    hover,      \* the pointer is over the Hero's button or a Features card
    btn,        \* MagneticButton: [x, tweens], tweens as [to, left] in creation order
    moves,      \* pointer entries and moves over the button since the mount
    spot        \* SpotlightCard state: [opacity, at]

motionVars == <<sec, dev, mounted, mounts, scroll, els, orphans, orphanPulse, annual>>
pointerVars == <<hover, btn, moves, spot>>
vars == <<motionVars, pointerVars>>

(***************************************************************************)
(* Each component's effect: the kind of its reveal tween, what starts it,  *)
(* what scrolling back does (toggleActions), its cleanup, and whether it   *)
(* starts an infinite tween.                                               *)
(***************************************************************************)
\* toggleActions strings, as [callback |-> action].
PlayNoneNoneNone == [enter |-> "play", leave |-> "none", enterBack |-> "none", leaveBack |-> "none"]
PlayNoneNoneReverse == [PlayNoneNoneNone EXCEPT !.leaveBack = "reverse"]
PlayReversePlayReverse == [enter |-> "play", leave |-> "reverse", enterBack |-> "play",
                           leaveBack |-> "reverse"]

HeroRevealMutant == [kind |-> "from", trigger |-> "load", actions |-> PlayNoneNoneNone,
                     cleanup |-> "none", pulse |-> FALSE]
HeroReveal == [kind |-> "from", trigger |-> "load", actions |-> PlayNoneNoneNone,
               cleanup |-> "revert", pulse |-> FALSE]
SignalStripRevealMutant == [kind |-> "from", trigger |-> "scroll", actions |-> PlayNoneNoneReverse,
                            cleanup |-> "none", pulse |-> FALSE]
SignalStripReveal == [kind |-> "from", trigger |-> "scroll", actions |-> PlayNoneNoneReverse,
                      cleanup |-> "revert", pulse |-> FALSE]
FeaturesReveal == [kind |-> "from", trigger |-> "scroll", actions |-> PlayNoneNoneReverse,
                   cleanup |-> "revert", pulse |-> FALSE]
ProductStoryRevealMutant == [kind |-> "from", trigger |-> "scroll", actions |-> PlayNoneNoneReverse,
                             cleanup |-> "revert", pulse |-> FALSE]
ProductStoryReveal == [kind |-> "from", trigger |-> "scroll", actions |-> PlayReversePlayReverse,
                       cleanup |-> "revert", pulse |-> FALSE]
EdgeMapRevealMutant == [kind |-> "fromTo", trigger |-> "scroll", actions |-> PlayNoneNoneNone,
                        cleanup |-> "none", pulse |-> TRUE]
EdgeMapReveal == [kind |-> "fromTo", trigger |-> "scroll", actions |-> PlayNoneNoneNone,
                  cleanup |-> "revert", pulse |-> TRUE]
FinalCTAReveal == [kind |-> "from", trigger |-> "scroll", actions |-> PlayNoneNoneNone,
                   cleanup |-> "revert", pulse |-> FALSE]
PricingReveal == [kind |-> "from", trigger |-> "load", actions |-> PlayNoneNoneNone,
                  cleanup |-> "revert", pulse |-> FALSE]
TemplateEnter == [kind |-> "fromTo", trigger |-> "load", actions |-> PlayNoneNoneNone,
                  cleanup |-> "none", pulse |-> FALSE]

Reveal == [Hero |-> HeroReveal, SignalStrip |-> SignalStripReveal,
           Features |-> FeaturesReveal, ProductStory |-> ProductStoryReveal,
           EdgeMap |-> EdgeMapReveal, FinalCTA |-> FinalCTAReveal,
           Pricing |-> PricingReveal, Template |-> TemplateEnter]

Cfg == Reveal[sec]

\* ProductStory's STEPS (lines 8-25), by id; titles and bodies are text.
STEPS == <<"capture", "understand", "resolve">>

\* The elements that get a trigger of their own: ProductStory renders a div
\* story-<id> per step (lines 100-102), stacked one below the other, and
\* its effect looks each one up and gives it a timeline of its own; every
\* other section has one.
Targets == IF sec = "ProductStory" THEN DOMAIN STEPS ELSE {1}

\* The page's place: 2k-1 inside target k's range, 2k between target k's
\* range and the next one's, 0 above them all.
Side(k) == IF scroll < 2 * k - 1 THEN "above"
           ELSE IF scroll = 2 * k - 1 THEN "in" ELSE "below"

\* The template's div is rendered with style opacity 0; sections are visible.
Fresh == [shown |-> IF sec = "Template" THEN 0 ELSE 1, tweens |-> <<>>,
          pulse |-> FALSE, saved |-> 0]

(***************************************************************************)
(* gsap, as the effects use it.                                            *)
(***************************************************************************)
Running == {"waiting", "playing", "reversing"}

LiveTweens(r) == {k \in DOMAIN r.tweens : r.tweens[k].st \in Running}

Retarget(r, from, to) ==
    [r EXCEPT !.tweens = [k \in DOMAIN r.tweens |->
        IF r.tweens[k].st \in from THEN [r.tweens[k] EXCEPT !.st = to] ELSE r.tweens[k]]]

\* What a toggle action does to the tweens of the element.
Act(r, action) ==
    CASE action = "play"    -> Retarget(r, {"waiting", "reversing", "reversed"}, "playing")
      [] action = "reverse" -> Retarget(r, {"playing", "done"}, "reversing")
      [] action = "none"    -> r

\* A ScrollTrigger of target k created with the page already past its start.
CatchUp(k, r) ==
    LET entered == IF Side(k) # "above" THEN Act(r, Cfg.actions.enter) ELSE r
    IN IF Side(k) = "below" THEN Act(entered, Cfg.actions.leave) ELSE entered

\* The effect's tween (ProductStory: the step's timeline of three from()s,
\* which its toggleActions play and reverse as one) for target k.
Effect(k, r) ==
    LET end == IF Cfg.kind = "from" THEN r.shown ELSE 1
        st  == IF Cfg.trigger = "load" THEN "playing" ELSE "waiting"
        new == [shown |-> 0,
                tweens |-> Append(r.tweens, [end |-> end, st |-> st]),
                pulse |-> r.pulse \/ Cfg.pulse,
                saved |-> r.shown]
    IN IF Cfg.trigger = "scroll" THEN CatchUp(k, new) ELSE new

Cleanup(r) ==
    IF Cfg.cleanup = "revert"
    THEN [shown |-> r.saved, tweens |-> <<>>, pulse |-> FALSE, saved |-> r.saved]
    ELSE r

\* A rendered MagneticButton is untransformed; a SpotlightCard starts with
\* useState({x: 0, y: 0}) and useState(0) (Features.tsx lines 32-35).
FreshButton == [x |-> 0, tweens |-> <<>>]
FreshSpot == [opacity |-> 0, at |-> 0]

Init ==
    /\ sec \in Sections
    /\ dev \in BOOLEAN
    /\ mounted = FALSE /\ mounts = 0
    /\ scroll = 0
    /\ els = [k \in Targets |-> [shown |-> 0, tweens |-> <<>>, pulse |-> FALSE, saved |-> 0]]
    /\ orphans = 0 /\ orphanPulse = FALSE
    /\ annual = TRUE
    /\ hover = FALSE /\ btn = FreshButton /\ moves = 0 /\ spot = FreshSpot

\* The page renders the section on a fresh element; React runs its effect,
\* in development also the cleanup and the effect again.  useState(true)
\* starts Pricing annual.
Mount ==
    /\ ~mounted /\ mounts < MaxMounts
    /\ mounted' = TRUE /\ mounts' = mounts + 1
    /\ els' = [k \in Targets |->
                 IF dev THEN Effect(k, Cleanup(Effect(k, Fresh))) ELSE Effect(k, Fresh)]
    /\ annual' = TRUE
    /\ btn' = FreshButton /\ moves' = 0 /\ spot' = FreshSpot
    /\ UNCHANGED <<sec, dev, scroll, orphans, orphanPulse, hover>>

\* Navigation away: the cleanup runs and the element leaves the page; what
\* the cleanup leaves running goes on with the detached element.
Unmount ==
    LET r == [k \in Targets |-> Cleanup(els[k])] IN
    /\ mounted
    /\ mounted' = FALSE
    /\ orphans' = orphans + Cardinality(UNION {{<<k, j>> : j \in LiveTweens(r[k])} : k \in Targets})
                          + Len(btn.tweens)
    /\ orphanPulse' = (orphanPulse \/ \E k \in Targets : r[k].pulse)
    /\ hover' = FALSE
    /\ UNCHANGED <<sec, dev, mounts, scroll, els, annual, btn, moves, spot>>

\* The gsap ticker finishes the oldest running tween of an element.
Tick ==
    /\ mounted
    /\ \E t \in Targets : \E k \in LiveTweens(els[t]) :
          LET tw == els[t].tweens[k] IN
          /\ tw.st # "waiting"
          /\ \A j \in LiveTweens(els[t]) : j >= k
          /\ els' = [els EXCEPT
                      ![t].shown = IF tw.st = "playing" THEN tw.end ELSE 0,
                      ![t].tweens[k].st = IF tw.st = "playing" THEN "done" ELSE "reversed"]
    /\ UNCHANGED <<sec, dev, mounted, mounts, scroll, orphans, orphanPulse, annual>>
    /\ UNCHANGED pointerVars

\* A finite tween on a detached element runs out.
OrphanTick ==
    /\ orphans > 0
    /\ orphans' = orphans - 1
    /\ UNCHANGED <<sec, dev, mounted, mounts, scroll, els, orphanPulse, annual>>
    /\ UNCHANGED pointerVars

\* A ScrollTrigger callback: the page crosses a boundary of target k's
\* range and k's tween gets the callback's action.
Scroll(k, to, callback) ==
    /\ scroll' = to
    /\ els' = IF mounted /\ Cfg.trigger = "scroll"
              THEN [els EXCEPT ![k] = Act(@, Cfg.actions[callback])] ELSE els
    /\ UNCHANGED <<sec, dev, mounted, mounts, orphans, orphanPulse, annual>>
    /\ UNCHANGED pointerVars

ScrollIn   == \E k \in Targets : scroll = 2 * k - 2 /\ Scroll(k, 2 * k - 1, "enter")
ScrollPast == \E k \in Targets : scroll = 2 * k - 1 /\ Scroll(k, 2 * k, "leave")
ScrollBack == \E k \in Targets : scroll = 2 * k /\ Scroll(k, 2 * k - 1, "enterBack")
ScrollOut  == \E k \in Targets : scroll = 2 * k - 1 /\ Scroll(k, 2 * k - 2, "leaveBack")

(***************************************************************************)
(* Pricing's billing toggle (Pricing.tsx).                                 *)
(***************************************************************************)
\* TIERS (lines 8-27): prices as numbers, custom where they are "Custom".
TIERS == << [name |-> "Starter",    custom |-> FALSE, monthly |-> 0,  annual |-> 0],
            [name |-> "Pro",        custom |-> FALSE, monthly |-> 29, annual |-> 24],
            [name |-> "Enterprise", custom |-> TRUE,  monthly |-> 0,  annual |-> 0] >>

\* The figure shown for a tier: "Custom", or the annual or monthly price.
DisplayedPrice(t) ==
    IF t.custom THEN "Custom" ELSE IF annual THEN t.annual ELSE t.monthly

Toggle ==
    /\ mounted /\ sec = "Pricing"
    /\ annual' = ~annual
    /\ UNCHANGED <<sec, dev, mounted, mounts, scroll, els, orphans, orphanPulse>>
    /\ UNCHANGED pointerVars

(***************************************************************************)
(* Pointer handlers.  MagneticButton (the Hero's "Request access") starts *)
(* a gsap.to of duration 1 on every mousemove and on mouseleave, with     *)
(* gsap's default overwrite false: the tweens of the button run side by   *)
(* side, rendered in creation order every frame, the last one's value      *)
(* showing.  A tick is half a second.  SpotlightCard (Features) keeps its  *)
(* glow in React state.                                                    *)
(***************************************************************************)
MoveTicks == 2
LeaveTicks == 2

\* The pointer enters the CTA's button (Hero.tsx lines 99-110); the button
\* has no onMouseEnter.
PointerEnterButton ==
    /\ mounted /\ sec = "Hero" /\ ~hover /\ moves < MaxMoves
    /\ hover' = TRUE
    /\ moves' = moves + 1
    /\ UNCHANGED <<motionVars, btn, spot>>

\* handleMouseMove (lines 22-45): tween towards the pointer's offset.
MagnetMove(p) ==
    /\ mounted /\ sec = "Hero" /\ hover /\ moves < MaxMoves
    /\ btn' = [btn EXCEPT !.tweens = Append(@, [to |-> p, left |-> MoveTicks])]
    /\ moves' = moves + 1
    /\ UNCHANGED <<motionVars, hover, spot>>

MagnetLeave ==
    /\ mounted /\ sec = "Hero" /\ hover
    /\ hover' = FALSE
    /\ btn' = [btn EXCEPT !.tweens = Append(@, [to |-> 0, left |-> LeaveTicks])]
    /\ UNCHANGED <<motionVars, moves, spot>>

\* A frame for the button: every tween advances, the last one created is
\* rendered last, finished tweens are removed.
ButtonTick ==
    LET ts == btn.tweens
        advanced == [k \in DOMAIN ts |-> [ts[k] EXCEPT !.left = @ - 1]]
    IN /\ mounted /\ ts # <<>>
       /\ btn' = [x |-> ts[Len(ts)].to,
                  tweens |-> SelectSeq(advanced, LAMBDA t : t.left > 0)]
       /\ UNCHANGED <<motionVars, hover, moves, spot>>

\* SpotlightCard's handlers (Features.tsx lines 37-44).
SpotEnter ==
    /\ mounted /\ sec = "Features" /\ ~hover
    /\ hover' = TRUE /\ spot' = [spot EXCEPT !.opacity = 1]
    /\ UNCHANGED <<motionVars, btn, moves>>

SpotMove(p) ==
    /\ mounted /\ sec = "Features" /\ hover
    /\ spot' = [spot EXCEPT !.at = p]
    /\ UNCHANGED <<motionVars, hover, btn, moves>>

SpotLeave ==
    /\ mounted /\ sec = "Features" /\ hover
    /\ hover' = FALSE /\ spot' = [spot EXCEPT !.opacity = 0]
    /\ UNCHANGED <<motionVars, btn, moves>>

\* Nothing is left to happen: every mount is used and nothing runs.
Quiet ==
    /\ mounts = MaxMounts /\ ~mounted /\ orphans = 0
    /\ UNCHANGED vars

Next == \/ Mount \/ Unmount \/ Tick \/ OrphanTick
        \/ ScrollIn \/ ScrollPast \/ ScrollBack \/ ScrollOut \/ Toggle
        \/ PointerEnterButton \/ \E p \in Offsets : MagnetMove(p) \/ MagnetLeave \/ ButtonTick
        \/ SpotEnter \/ \E p \in Offsets : SpotMove(p) \/ SpotLeave
        \/ Quiet

\* gsap's ticker runs on every animation frame; scrolling and navigation
\* are the user's and not fair.
Spec == Init /\ [][Next]_vars /\ WF_vars(Tick) /\ WF_vars(OrphanTick) /\ WF_vars(ButtonTick)

(***************************************************************************)
(* Properties.                                                             *)
(***************************************************************************)
\* The section's reveal has been triggered and not reversed: it runs at
\* load, or the page is in the trigger range, or past it where onLeave
\* does not reverse.
Triggered(k) ==
    \/ Cfg.trigger = "load"
    \/ Side(k) = "in"
    \/ Side(k) = "below" /\ Cfg.actions.leave # "reverse"

\* The section's content is meant to be seen: once it is mounted, its
\* trigger has fired (at load, or scrolled into view) and every tween of
\* it has finished, it is visible, in production and under StrictMode's
\* effect, cleanup, effect alike.  A from() created after an effect that
\* did not revert the first one would record the hidden state as its end.
Revealed ==
    \A k \in Targets :
        (mounted /\ Triggered(k) /\ LiveTweens(els[k]) = {}) => els[k].shown = 1

\* Every section whose trigger has fired while it stays on the page is
\* eventually shown: the reveal is not stuck hidden.
RevealCompletes ==
    \A k \in DOMAIN STEPS :
        (k \in Targets /\ mounted /\ Triggered(k))
            ~> (k \notin Targets \/ ~mounted \/ ~Triggered(k) \/ els[k].shown = 1)

\* ProductStory shows the step being read: "play reverse play reverse"
\* reverses a step's timeline when the page leaves its range either way,
\* so once its tweens have finished a step outside its range is hidden,
\* whether the page moved past it or the timeline was created past it.
OnlyStepInViewShown ==
    (mounted /\ sec = "ProductStory") =>
        \A k \in Targets :
            (Side(k) # "in" /\ LiveTweens(els[k]) = {}) => els[k].shown = 0

NoEndlessTweenAfterUnmount == ~orphanPulse

\* The toggle's label "Annual (-20%)" (line 81): every annual price shown
\* is 80% of the monthly one.
AnnualDiscountMatchesLabel ==
    (mounted /\ sec = "Pricing" /\ annual) =>
        \A k \in DOMAIN TIERS : ~TIERS[k].custom =>
            5 * DisplayedPrice(TIERS[k]) = 4 * TIERS[k].monthly

=============================================================================
