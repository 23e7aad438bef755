\* Logins that come again and again, cancel and fail, with a provider that may
\* never answer.
CONSTANT Callers = {c1, c2, c3}
SPECIFICATION AuthoritySpec
INVARIANT SharedDiscovery
PROPERTIES BackoffIsForFailures CanceledCallerLeaves EveryCallAnswered
