\* A server that reports the expiry.
CONSTANTS
    Callers = {c1, c2, c3}
    ReportsExpiry = TRUE
    TTL = 5
    Margin = 2
    Timeout = 1
    Horizon = 12
    None = None
SPECIFICATION Spec
PROPERTIES HandedOutFresh AskedOncePerToken NotifyReturns
