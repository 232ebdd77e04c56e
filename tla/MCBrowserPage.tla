----------------------------- MODULE MCBrowserPage -----------------------------
EXTENDS BrowserPage

\* Two toasts on different sides, which share a stack because the screen is narrow.
AllOnTop == [t \in Toasts |-> "top"]

NewsInTheCenter == [t \in Toasts |-> IF t = "news" THEN "center" ELSE ""]

SomeValues == <<"one", "two", "zero">>
================================================================================
